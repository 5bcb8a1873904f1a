------------------------ MODULE RebootSchedule_proofs ------------------------
(***************************************************************************)
(* What RebootSchedule promises for any number of concurrent requests and  *)
(* any set of times.                                                       *)
(***************************************************************************)
EXTENDS RebootSchedule, TLAPS

\* Type correctness of the row, the channel, the loop and the handlers.
THEOREM TypeCorrect == Spec => []TypeOK
<1>1. Init => TypeOK
  BY DEF Init, TypeOK
<1>2. TypeOK /\ [Next]_vars => TypeOK'
  <2> SUFFICES ASSUME TypeOK, [Next]_vars PROVE TypeOK'
    OBVIOUS
  <2> USE DEF TypeOK
  <2>1. ASSUME NEW r \in Requests, NEW t \in Times, Schedule(r, t) PROVE TypeOK'
    BY <2>1 DEF Schedule
  <2>2. ASSUME NEW r \in Requests, ScheduleSignals(r) PROVE TypeOK'
    BY <2>2 DEF ScheduleSignals, Send
  <2>3. ASSUME NEW r \in Requests, CancelSignals(r) PROVE TypeOK'
    BY <2>3 DEF CancelSignals, Send
  <2>4. ASSUME NEW r \in Requests, CancelDeletes(r) PROVE TypeOK'
    BY <2>4 DEF CancelDeletes
  <2>5. CASE ManualReboot
    BY <2>5 DEF ManualReboot
  <2>6. CASE ReadSchedule
    BY <2>6 DEF ReadSchedule
  <2>7. CASE WakeUp
    BY <2>7 DEF WakeUp
  <2>8. CASE TimerFires
    BY <2>8 DEF TimerFires
  <2>9. CASE LoopReboots
    BY <2>9 DEF LoopReboots
  <2>10. CASE Restart
    BY <2>10 DEF Restart
  <2>11. CASE Wait
    BY <2>11 DEF Wait
  <2>12. CASE UNCHANGED vars
    BY <2>12 DEF vars
  <2> QED
    BY <2>1, <2>2, <2>3, <2>4, <2>5, <2>6, <2>7, <2>8, <2>9, <2>10, <2>11, <2>12 DEF Next
<1> QED
  BY <1>1, <1>2, PTL DEF Spec

\* No saved schedule is missed by the loop, whatever the number of requests in
\* flight: the one-slot channel, never blocking its senders, loses no wake-up.
\* NoLostSave is inductive relative to TypeOK.
THEOREM NoSaveIsLost == Spec => []NoLostSave
<1>1. Init => NoLostSave
  BY DEF Init, NoLostSave, Waiting
<1>2. TypeOK /\ NoLostSave /\ [Next]_vars => NoLostSave'
  <2> SUFFICES ASSUME TypeOK, NoLostSave, [Next]_vars PROVE NoLostSave'
    OBVIOUS
  <2> USE DEF NoLostSave, SavePending, Waiting
  <2>1. ASSUME NEW r \in Requests, NEW t \in Times, Schedule(r, t) PROVE NoLostSave'
    <3>1. request'[r] = "saved"
      BY <2>1 DEF Schedule, TypeOK
    <3> QED
      BY <3>1
  <2>2. ASSUME NEW r \in Requests, ScheduleSignals(r) PROVE NoLostSave'
    BY <2>2 DEF ScheduleSignals, Send
  <2>3. ASSUME NEW r \in Requests, CancelSignals(r) PROVE NoLostSave'
    BY <2>3 DEF CancelSignals, Send
  <2>4. ASSUME NEW r \in Requests, CancelDeletes(r) PROVE NoLostSave'
    <3>1. \A q \in Requests : request[q] = "saved" => request'[q] = "saved"
      BY <2>4 DEF CancelDeletes, TypeOK
    <3> QED
      BY <3>1, <2>4 DEF CancelDeletes
  <2>5. CASE ManualReboot
    BY <2>5 DEF ManualReboot
  <2>6. CASE ReadSchedule
    BY <2>6 DEF ReadSchedule
  <2>7. CASE WakeUp
    BY <2>7 DEF WakeUp
  <2>8. CASE TimerFires
    BY <2>8 DEF TimerFires
  <2>9. CASE LoopReboots
    BY <2>9 DEF LoopReboots
  <2>10. CASE Restart
    BY <2>10 DEF Restart
  <2>11. CASE Wait
    BY <2>11 DEF Wait
  <2>12. CASE UNCHANGED vars
    BY <2>12 DEF vars
  <2> QED
    BY <2>1, <2>2, <2>3, <2>4, <2>5, <2>6, <2>7, <2>8, <2>9, <2>10, <2>11, <2>12 DEF Next
<1> QED
  BY <1>1, <1>2, TypeCorrect, PTL DEF Spec
=============================================================================
