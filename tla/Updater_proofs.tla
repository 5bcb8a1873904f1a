---------------------------- MODULE Updater_proofs ----------------------------
(***************************************************************************)
(* An install never carries a release that is older than the program that  *)
(* runs it, for any number of checks, installs, scripts and restarts; if   *)
(* installs do not overlap, the program on disk is the one that runs once  *)
(* nothing is under way; and the page reports success only after a restart *)
(* into the release that was asked for, or a newer one.                    *)
(***************************************************************************)
EXTENDS Updater, FiniteSetTheorems, TLAPS

\* A process runs a release that is out, and has a number of its own.
ProcsInv ==
  /\ latest \in Nat /\ binary \in Nat /\ binary <= latest /\ nextPid \in Nat
  /\ procs \subseteq [pid : Nat, v : Nat, st : {"up", "term", "draining"}]
  /\ \A p \in procs : p.pid < nextPid /\ p.v <= latest
  /\ \A p, q \in procs : p.pid = q.pid => p = q

\* What the process that serves knows, or is about to know, of GitHub is not
\* older than itself; nobody knows anything while no process serves.
KnownInv ==
  /\ status \in Nat /\ status <= latest
  /\ status # None => \A p \in Serving : p.v <= status
  /\ DOMAIN check = Checks
  /\ \A c \in Checks :
       /\ check[c].info \in Nat /\ check[c].info <= latest
       /\ check[c].info # None => \A p \in Serving : p.v <= check[c].info
  /\ Serving = {} => status = None /\ \A c \in Checks : check[c] = NoCheck

Stages == {"idle"} \cup Goroutine \cup Script

JobsInv ==
  /\ job \in [Jobs -> [at : Stages, v : Nat, good : BOOLEAN, pid : Nat]]
  /\ \A i \in Jobs :
       job[i].v <= latest /\ (job[i].at \in Goroutine => job[i].pid < nextPid)

IInv == ProcsInv /\ KnownInv /\ JobsInv /\ InstallsNoOlder

-----------------------------------------------------------------------------
LEMMA InitIInv == Init => IInv
<1> SUFFICES ASSUME Init PROVE IInv
  OBVIOUS
<1>1. latest \in Nat /\ latest >= 1 /\ MaxVersion \in Nat
  BY UpdaterAssumption DEF Init, Versions
<1>2. ProcsInv
  BY <1>1 DEF Init, ProcsInv
<1>3. KnownInv
  BY <1>1 DEF Init, KnownInv, NoCheck, None, Serving
<1>4. JobsInv
  <2>1. /\ NoJob \in [at : Stages, v : Nat, good : BOOLEAN, pid : Nat]
        /\ NoJob.v = 0 /\ NoJob.at \notin Goroutine
    BY DEF NoJob, None, Stages, Goroutine
  <2> QED BY <1>1, <2>1 DEF Init, JobsInv
<1>5. InstallsNoOlder
  BY DEF Init, InstallsNoOlder, NoJob, Goroutine
<1> QED BY <1>2, <1>3, <1>4, <1>5 DEF IInv

\* A step of a job that leaves the processes alone: it goes on, to any stage, or
\* ends.
LEMMA JobGoesOn ==
  ASSUME IInv, NEW i \in Jobs, NEW to \in Stages, NEW g \in BOOLEAN,
         job[i].at \in Goroutine \/ to \notin Goroutine,
         \/ job' = [job EXCEPT ![i].at = to]
         \/ job' = [job EXCEPT ![i].at = to, ![i].good = g]
         \/ job' = [job EXCEPT ![i] = NoJob],
         UNCHANGED <<latest, procs, nextPid>>
  PROVE  JobsInv' /\ InstallsNoOlder'
<1>1. /\ latest \in Nat /\ job \in [Jobs -> [at : Stages, v : Nat, good : BOOLEAN, pid : Nat]]
      /\ NoJob \in [at : Stages, v : Nat, good : BOOLEAN, pid : Nat]
  BY DEF IInv, ProcsInv, JobsInv, NoJob, None, Stages
<1>2. job' \in [Jobs -> [at : Stages, v : Nat, good : BOOLEAN, pid : Nat]]
  BY <1>1
<1>3. \A k \in Jobs :
        \/ job'[k].at \notin Goroutine /\ job'[k].v \in {job[k].v, None}
        \/ /\ job[k].at \in Goroutine
           /\ job'[k].v = job[k].v /\ job'[k].pid = job[k].pid
  BY <1>1 DEF NoJob, Goroutine
<1>4. JobsInv'
  BY <1>1, <1>2, <1>3 DEF IInv, JobsInv, None, Stages
<1>5. InstallsNoOlder'
  BY <1>1, <1>3 DEF IInv, InstallsNoOlder, None
<1> QED BY <1>4, <1>5

\* Nothing but the jobs, the mark of OpenRC and the page changed.
LEMMA OnlyJobs ==
  ASSUME IInv, JobsInv', InstallsNoOlder',
         UNCHANGED <<latest, procs, nextPid, status, check, binary>>
  PROVE  IInv'
BY DEF IInv, ProcsInv, KnownInv, Serving

\* A process that goes takes its installs along.
LEMMA ProcessGoes ==
  ASSUME IInv, NEW p \in procs,
         procs' = procs \ {p},
         job' = [i \in Jobs |-> IF job[i].at \in Goroutine /\ job[i].pid = p.pid
                                THEN NoJob ELSE job[i]],
         UNCHANGED <<latest, nextPid, binary>>,
         IF p.st = "draining" THEN UNCHANGED <<status, check>> ELSE Forget
  PROVE  IInv'
<1> USE DEF IInv
<1>1. ProcsInv'
  BY DEF ProcsInv
<1>2. KnownInv'
  <2>1. CASE p.st # "draining"
    BY <2>1 DEF ProcsInv, KnownInv, Forget, NoCheck, None
  <2>2. CASE p.st = "draining"
    <3>1. Serving' = Serving
      BY <2>2 DEF Serving
    <3> QED BY <2>2, <3>1 DEF KnownInv
  <2> QED BY <2>1, <2>2
<1>3. JobsInv'
  <2>1. NoJob \in [at : Stages, v : Nat, good : BOOLEAN, pid : Nat]
    BY DEF NoJob, None, Stages
  <2>2. \A k \in Jobs : job'[k] \in {NoJob, job[k]}
    OBVIOUS
  <2>3. NoJob.v = 0 /\ NoJob.at \notin Goroutine
    BY DEF NoJob, None, Goroutine
  <2> QED BY <2>1, <2>2, <2>3 DEF JobsInv, ProcsInv
<1>4. InstallsNoOlder'
  BY DEF InstallsNoOlder, JobsInv, NoJob, Goroutine
<1> QED BY <1>1, <1>2, <1>3, <1>4

-----------------------------------------------------------------------------
LEMMA NextIInv == IInv /\ [Next]_vars => IInv'
<1> SUFFICES ASSUME IInv, [Next]_vars PROVE IInv'
  OBVIOUS
<1>1. CASE Publish
  BY <1>1 DEF Publish, IInv, ProcsInv, KnownInv, JobsInv, InstallsNoOlder, Serving
<1>2. CASE Expire
  BY <1>2 DEF Expire, IInv, ProcsInv, KnownInv, JobsInv, InstallsNoOlder, Serving
<1>3. ASSUME NEW c \in Checks, Check(c) PROVE IInv'
  <2>1. check' = [check EXCEPT ![c] = [at |-> "fetch", info |-> None]] /\ Serving # {}
    BY <1>3 DEF Check, GoCheck
  <2>2. KnownInv'
    BY <1>3, <2>1 DEF Check, IInv, ProcsInv, KnownInv, Serving, None
  <2> QED BY <1>3, <2>2 DEF Check, IInv, ProcsInv, JobsInv, InstallsNoOlder
<1>4. ASSUME NEW c \in Checks, fetchLatestRelease(c) PROVE IInv'
  <2>1. PICK info \in {latest, None} :
          /\ check[c].at = "fetch"
          /\ check' = [check EXCEPT ![c] = [at |-> "store", info |-> info]]
    BY <1>4 DEF fetchLatestRelease, GoCheck
  <2>2. Serving # {}
    BY <2>1 DEF IInv, KnownInv, NoCheck
  <2>3. KnownInv'
    BY <1>4, <2>1, <2>2 DEF fetchLatestRelease, IInv, ProcsInv, KnownInv, Serving, None
  <2> QED BY <1>4, <2>3 DEF fetchLatestRelease, IInv, ProcsInv, JobsInv, InstallsNoOlder
<1>5. ASSUME NEW c \in Checks, StoreStatus(c) PROVE IInv'
  <2>1. /\ check[c].at = "store" /\ status' = check[c].info
        /\ check' = [check EXCEPT ![c] = [at |-> "idle", info |-> None]]
    BY <1>5 DEF StoreStatus, GoCheck
  <2>2. Serving # {}
    BY <2>1 DEF IInv, KnownInv, NoCheck
  <2>3. KnownInv'
    BY <1>5, <2>1, <2>2 DEF StoreStatus, IInv, ProcsInv, KnownInv, Serving, None
  <2> QED BY <1>5, <2>3 DEF StoreStatus, IInv, ProcsInv, JobsInv, InstallsNoOlder
<1>6. ASSUME NEW i \in Jobs, Install(i) PROVE IInv'
  <2>1. PICK p \in Serving :
          job' = IF status = None THEN job
                 ELSE [job EXCEPT ![i] =
                         [at |-> "download", v |-> status, good |-> TRUE, pid |-> p.pid]]
    BY <1>6 DEF Install
  <2>2. UNCHANGED <<latest, procs, nextPid, status, check, binary>>
    BY <1>6 DEF Install
  <2>3. p \in procs /\ (status # None => p.v <= status)
    BY DEF Serving, IInv, KnownInv
  <2>4. JobsInv'
    <3>1. CASE status = None
      BY <2>1, <2>2, <3>1 DEF IInv, JobsInv, Stages
    <3>2. CASE status # None
      <4> DEFINE new == [at |-> "download", v |-> status, good |-> TRUE, pid |-> p.pid]
      <4>1. /\ new \in [at : Stages, v : Nat, good : BOOLEAN, pid : Nat]
            /\ new.v <= latest /\ new.pid < nextPid
        BY <2>3 DEF IInv, ProcsInv, KnownInv, Stages, Goroutine
      <4>2. job' = [job EXCEPT ![i] = new]
        BY <2>1, <3>2
      <4> HIDE DEF new
      <4> QED BY <2>2, <4>1, <4>2 DEF IInv, JobsInv, Stages
    <3> QED BY <3>1, <3>2
  <2>5. InstallsNoOlder'
    BY <2>1, <2>2, <2>3 DEF IInv, ProcsInv, KnownInv, JobsInv, InstallsNoOlder
  <2> QED BY <2>2, <2>4, <2>5, OnlyJobs
<1>7. ASSUME NEW i \in Jobs,
             \/ Download(i) \/ DownloadCorrupt(i) \/ Verify(i) \/ InstallFails(i)
             \/ Spawn(i) \/ Wait(i) \/ Zap(i)
      PROVE  IInv'
  <2>1. UNCHANGED <<latest, procs, nextPid, status, check, binary>>
    BY <1>7 DEF Download, DownloadCorrupt, Verify, InstallFails, Spawn, Wait, Zap
  <2>2. PICK to \in Stages, g \in BOOLEAN :
          /\ job[i].at \in Goroutine \/ to \notin Goroutine
          /\ \/ job' = [job EXCEPT ![i].at = to]
             \/ job' = [job EXCEPT ![i].at = to, ![i].good = g]
             \/ job' = [job EXCEPT ![i] = NoJob]
    BY <1>7 DEF Download, DownloadCorrupt, Verify, InstallFails, Spawn, Wait, Zap,
                GoJob, EndJob, Goroutine, Script, Stages
  <2>3. JobsInv' /\ InstallsNoOlder'
    BY <2>1, <2>2, JobGoesOn
  <2> QED BY <2>1, <2>3, OnlyJobs
<1>8. ASSUME NEW i \in Jobs, Rename(i) PROVE IInv'
  <2>1. /\ job[i].at \in Goroutine /\ job' = [job EXCEPT ![i].at = "spawn"]
        /\ UNCHANGED <<latest, procs, nextPid, status, check>>
        /\ binary' \in {None, job[i].v}
    BY <1>8 DEF Rename, GoJob, Goroutine
  <2>2. JobsInv' /\ InstallsNoOlder'
    BY <2>1, JobGoesOn DEF Goroutine, Stages
  <2>3. ProcsInv'
    BY <2>1 DEF IInv, ProcsInv, JobsInv, None
  <2> QED BY <2>1, <2>2, <2>3 DEF IInv, KnownInv, Serving
<1>9. ASSUME NEW i \in Jobs, Kill(i) PROVE IInv'
  <2> DEFINE after(p) == IF p.pid = job[i].pid /\ p.st = "up"
                         THEN [p EXCEPT !.st = "term"] ELSE p
  <2>1. /\ procs' = {after(p) : p \in procs}
        /\ job[i].at = "kill" /\ job' = [job EXCEPT ![i].at = "wait"]
        /\ UNCHANGED <<latest, nextPid, status, check, binary>>
    BY <1>9 DEF Kill, GoJob
  <2>2. \A p \in procs :
          /\ after(p) \in [pid : Nat, v : Nat, st : {"up", "term", "draining"}]
          /\ after(p).pid = p.pid /\ after(p).v = p.v
          /\ p \in Serving <=> after(p).st # "draining"
    BY DEF IInv, ProcsInv, Serving
  <2> HIDE DEF after
  <2>3. ProcsInv'
    BY <2>1, <2>2 DEF IInv, ProcsInv
  <2>4. KnownInv'
    <3>1. \A q \in Serving' : \E p \in Serving : q.v = p.v
      BY <2>1, <2>2 DEF Serving
    <3>2. Serving' = {} => Serving = {}
      BY <2>1, <2>2 DEF Serving
    <3> QED BY <2>1, <3>1, <3>2 DEF IInv, KnownInv
  <2>5. /\ job' \in [Jobs -> [at : Stages, v : Nat, good : BOOLEAN, pid : Nat]]
        /\ \A k \in Jobs : /\ job'[k].v = job[k].v /\ job'[k].pid = job[k].pid
                           /\ job'[k].at \in Goroutine => job[k].at \in Goroutine
    BY <2>1 DEF IInv, JobsInv, Goroutine, Script, Stages
  <2>6. JobsInv'
    BY <2>1, <2>5 DEF IInv, JobsInv, Stages
  <2>7. InstallsNoOlder'
    BY <2>1, <2>2, <2>5 DEF IInv, InstallsNoOlder
  <2> QED BY <2>3, <2>4, <2>6, <2>7 DEF IInv
<1>10. ASSUME NEW i \in Jobs, Start(i) PROVE IInv'
  <2>1. /\ job' = [job EXCEPT ![i] = NoJob]
        /\ UNCHANGED <<latest, status, check, binary>>
    BY <1>10 DEF Start, EndJob
  <2>2. CASE UNCHANGED <<procs, nextPid>>
    <3>1. JobsInv' /\ InstallsNoOlder'
      <4>1. UNCHANGED latest /\ "idle" \in Stages /\ "idle" \notin Goroutine /\ TRUE \in BOOLEAN
        BY <2>1 DEF Stages, Goroutine
      <4> QED BY <2>1, <2>2, <4>1, JobGoesOn
    <3> QED BY <2>1, <2>2, <3>1, OnlyJobs
  <2>3. CASE /\ Serving = {} /\ nextPid' = nextPid + 1
             /\ procs' = procs \cup {[pid |-> nextPid, v |-> binary, st |-> "up"]}
    <3>1. ProcsInv'
      BY <2>1, <2>3 DEF IInv, ProcsInv
    <3>2. status = None /\ \A c \in Checks : check[c].info = None
      BY <2>3 DEF IInv, KnownInv, NoCheck
    <3>3. KnownInv'
      <4>1. Serving' # {}
        <5> DEFINE new == [pid |-> nextPid, v |-> binary, st |-> "up"]
        <5>1. new \in procs' /\ new.st # "draining"
          BY <2>3
        <5> QED BY <5>1 DEF Serving
      <4> QED BY <2>1, <3>2, <4>1 DEF IInv, KnownInv, None
    <3>4. /\ job' \in [Jobs -> [at : Stages, v : Nat, good : BOOLEAN, pid : Nat]]
          /\ \A k \in Jobs : \/ job'[k] = job[k]
                             \/ job'[k].v = 0 /\ job'[k].at \notin Goroutine
      <4>1. NoJob \in [at : Stages, v : Nat, good : BOOLEAN, pid : Nat]
        BY DEF NoJob, None, Stages
      <4>2. NoJob.v = 0 /\ NoJob.at \notin Goroutine
        BY DEF NoJob, None, Goroutine
      <4> QED BY <2>1, <4>1, <4>2 DEF IInv, JobsInv
    <3>5. JobsInv'
      BY <2>1, <2>3, <3>4 DEF IInv, JobsInv, ProcsInv, Stages
    <3>6. InstallsNoOlder'
      BY <2>1, <2>3, <3>4 DEF IInv, JobsInv, ProcsInv, InstallsNoOlder
    <3> QED BY <3>1, <3>3, <3>5, <3>6 DEF IInv
  <2> QED BY <1>10, <2>2, <2>3 DEF Start, StartProcess
<1>11. ASSUME NEW p \in procs, Shutdown(p) PROVE IInv'
  <2> DEFINE q == [p EXCEPT !.st = "draining"]
  <2>1. /\ p.st = "term" /\ procs' = (procs \ {p}) \cup {q}
        /\ Forget /\ UNCHANGED <<latest, nextPid, job, binary>>
    BY <1>11 DEF Shutdown
  <2>2. /\ q \in [pid : Nat, v : Nat, st : {"up", "term", "draining"}]
        /\ q.pid = p.pid /\ q.v = p.v
    BY DEF IInv, ProcsInv
  <2> HIDE DEF q
  <2>3. ProcsInv'
    BY <2>1, <2>2 DEF IInv, ProcsInv
  <2>4. KnownInv'
    BY <2>1 DEF Forget, IInv, ProcsInv, KnownInv, NoCheck, None
  <2>5. InstallsNoOlder'
    BY <2>1, <2>2 DEF IInv, InstallsNoOlder
  <2> QED BY <2>1, <2>3, <2>4, <2>5 DEF IInv, JobsInv, Stages
<1>12. ASSUME NEW p \in procs, Exit(p) PROVE IInv'
  <2>1. p.st = "draining" /\ UNCHANGED <<latest, nextPid, status, check, binary>>
    BY <1>12 DEF Exit
  <2> QED BY <1>12, <2>1, ProcessGoes DEF Exit
<1>13. CASE Crash
  <2>1. PICK p \in procs :
          /\ procs' = procs \ {p}
          /\ job' = [i \in Jobs |-> IF job[i].at \in Goroutine /\ job[i].pid = p.pid
                                    THEN NoJob ELSE job[i]]
          /\ IF p.st = "draining" THEN UNCHANGED <<status, fresh, check>> ELSE Forget
    BY <1>13 DEF Crash
  <2>2. UNCHANGED <<latest, nextPid, binary>>
    BY <1>13 DEF Crash
  <2> QED BY <2>1, <2>2, ProcessGoes
<1>14. CASE Boot
  <2>1. ProcsInv'
    BY <1>14 DEF Boot, IInv, ProcsInv
  <2>2. KnownInv'
    BY <1>14 DEF Boot, Forget, IInv, ProcsInv, KnownInv, NoCheck, None
  <2>3. /\ job' = [k \in Jobs |-> NoJob] /\ nextPid' \in Nat /\ latest' \in Nat
    BY <1>14 DEF Boot, IInv, ProcsInv
  <2>4. /\ NoJob \in [at : Stages, v : Nat, good : BOOLEAN, pid : Nat]
        /\ NoJob.v = 0 /\ NoJob.at \notin Goroutine
    BY DEF NoJob, None, Stages, Goroutine
  <2>5. JobsInv' /\ InstallsNoOlder'
    BY <2>3, <2>4 DEF JobsInv, InstallsNoOlder, Stages
  <2> QED BY <2>1, <2>2, <2>5 DEF IInv
<1>15. CASE PollAnswered \/ PollUnanswered \/ Reload \/ UNCHANGED vars
  <2>1. UNCHANGED <<latest, procs, nextPid, status, check, job, binary>>
    BY <1>15 DEF PollAnswered, PollUnanswered, Reload, vars
  <2>2. JobsInv' /\ InstallsNoOlder'
    BY <2>1 DEF IInv, JobsInv, InstallsNoOlder
  <2> QED BY <2>1, <2>2, OnlyJobs
<1> QED
  BY <1>1, <1>2, <1>3, <1>4, <1>5, <1>6, <1>7, <1>8, <1>9, <1>10, <1>11, <1>12,
     <1>13, <1>14, <1>15 DEF Next

\* However checks, installs and restarts interleave, an install carries a release
\* at least as new as the program that runs it (updater.go 101-103: the release is
\* the one the process was last told of).
THEOREM NeverInstallsOlder == Spec => []InstallsNoOlder
<1>1. IInv => InstallsNoOlder
  BY DEF IInv
<1> QED BY <1>1, InitIInv, NextIInv, PTL DEF Spec

-----------------------------------------------------------------------------
(* What runs.  Without overlapping installs one job at most is under way,  *)
(* and it is of the process that serves; so the binary and that process    *)
(* part only between the renaming and the restart, and a job that ends     *)
(* there has taken its process with it.                                    *)

Early == {"download", "verify", "rename"}

Alone ==
  /\ \A i, j \in Active : i = j
  /\ \A p, q \in Serving : p = q
  /\ \A i \in Active, p \in Serving : p.pid = job[i].pid
  /\ (\A i \in Active : job[i].at \in Early) => \A p \in Serving : p.v = binary
  /\ \A i \in Active : job[i].at \in {"zap", "start"} => Serving = {}

AloneInv == may \cap {"spawn", "overlap"} = {} => Alone

LEMMA MayStays == [Next]_vars => may' = may
BY DEF Next, vars, Publish, Expire, Check, fetchLatestRelease, StoreStatus, Install, Download,
       DownloadCorrupt, Verify, Rename, InstallFails, Spawn, Kill, Wait, Zap, Start, Shutdown,
       Exit, Crash, Boot, PollAnswered, PollUnanswered, Reload

LEMMA InitAlone == Init => Alone
BY DEF Init, Alone, Active, Serving, NoJob

\* A process goes, and the job it was running.
LEMMA AloneGoes ==
  ASSUME IInv, Alone, NEW p \in procs,
         procs' = procs \ {p},
         job' = [i \in Jobs |-> IF job[i].at \in Goroutine /\ job[i].pid = p.pid
                                THEN NoJob ELSE job[i]],
         UNCHANGED binary
  PROVE  Alone'
<1>1. Serving' = Serving \ {p}
  BY DEF Serving
<1>2. \A q \in Serving : q.pid = p.pid => q = p
  BY DEF IInv, ProcsInv, Serving
<1>3. \A i \in Jobs : job'[i].at # "idle" => job'[i] = job[i]
  BY DEF NoJob
<1>4. Active' \subseteq Active
  BY <1>3 DEF Active
<1>5. CASE Serving' = {}
  BY <1>1, <1>3, <1>4, <1>5 DEF Alone
<1>6. CASE Active' = Active
  BY <1>1, <1>3, <1>6 DEF Alone, Active
<1>7. CASE Active' # Active
  <2>1. PICK i \in Active : job[i].pid = p.pid
    BY <1>4, <1>7 DEF Active
  <2>2. Serving' = {}
    BY <1>1, <1>2, <2>1 DEF Alone
  <2> QED BY <1>5, <2>2
<1> QED BY <1>6, <1>7

\* One job goes on among the stages that leave the processes alone, or ends.
LEMMA AloneGoesOn ==
  ASSUME IInv, Alone, NEW i \in Active, UNCHANGED <<procs, binary>>,
         \A k \in Jobs \ {i} : job'[k] = job[k],
         \/ job'[i].at = "idle" /\ (job[i].at \in Early \/ Serving = {})
         \/ /\ job'[i].at \in Goroutine \cup Script /\ job'[i].pid = job[i].pid
            /\ job'[i].at \in Early => job[i].at \in Early
            /\ job'[i].at \in {"zap", "start"} => Serving = {}
  PROVE  Alone'
<1>1. Serving' = Serving /\ Active' \subseteq Active
  BY DEF Serving, Active
<1>2. Active = {i}
  BY DEF Alone
<1>3. CASE job'[i].at = "idle"
  <2>1. Active' = {}
    BY <1>1, <1>2, <1>3 DEF Active
  <2>2. \A p \in Serving : p.v = binary
    BY <1>2, <1>3 DEF Alone, Goroutine, Script
  <2> QED BY <1>1, <2>1, <2>2 DEF Alone
<1>4. CASE job'[i].at # "idle"
  <2>1. Active' = {i}
    BY <1>1, <1>2, <1>4 DEF Active
  <2> QED BY <1>1, <1>2, <1>4, <2>1 DEF Alone
<1> QED BY <1>3, <1>4

LEMMA AloneStep ==
  ASSUME IInv, Alone, may \cap {"spawn", "overlap"} = {}, [Next]_vars
  PROVE  Alone'
<1>0. /\ job \in [Jobs -> [at : Stages, v : Nat, good : BOOLEAN, pid : Nat]]
      /\ NoJob.at = "idle"
  BY DEF IInv, JobsInv, NoJob
<1>1. ASSUME UNCHANGED <<procs, job, binary>> PROVE Alone'
  BY <1>1 DEF Alone, Active, Serving
<1>2. ASSUME NEW c \in Checks, Check(c) \/ fetchLatestRelease(c) \/ StoreStatus(c) PROVE Alone'
  BY <1>1, <1>2 DEF Check, fetchLatestRelease, StoreStatus
<1>3. ASSUME Publish \/ Expire \/ PollAnswered \/ PollUnanswered \/ Reload \/ UNCHANGED vars
      PROVE  Alone'
  BY <1>1, <1>3 DEF Publish, Expire, PollAnswered, PollUnanswered, Reload, vars
<1>4. ASSUME NEW i \in Jobs, Install(i) PROVE Alone'
  <2>1. Active = {} /\ UNCHANGED <<procs, binary>>
    BY <1>4 DEF Install
  <2>2. PICK p \in Serving :
          job' = IF status = None THEN job
                 ELSE [job EXCEPT ![i] =
                         [at |-> "download", v |-> status, good |-> TRUE, pid |-> p.pid]]
    BY <1>4 DEF Install
  <2>3. CASE status = None
    BY <1>1, <2>1, <2>2, <2>3
  <2>4. CASE status # None
    <3>1. job'[i].at = "download" /\ job'[i].pid = p.pid /\ Active' = {i} /\ Serving' = Serving
      BY <1>0, <2>1, <2>2, <2>4 DEF Active, Serving
    <3>2. \A q \in Serving : q = p /\ q.v = binary
      BY <2>1 DEF Alone
    <3> QED BY <2>1, <3>1, <3>2 DEF Alone, Early
  <2> QED BY <2>3, <2>4
<1>5. ASSUME NEW i \in Jobs,
             Download(i) \/ DownloadCorrupt(i) \/ Verify(i) \/ InstallFails(i) \/ Spawn(i) \/ Zap(i)
      PROVE  Alone'
  <2>1. i \in Active /\ UNCHANGED <<procs, binary>> /\ \A k \in Jobs \ {i} : job'[k] = job[k]
    BY <1>0, <1>5 DEF Download, DownloadCorrupt, Verify, InstallFails, Spawn, Zap, GoJob, EndJob,
                      Active
  <2>2. \/ job'[i].at = "idle" /\ job[i].at \in Early
        \/ /\ job'[i].at \in Goroutine \cup Script /\ job'[i].pid = job[i].pid
           /\ job'[i].at \in Early => job[i].at \in Early
           /\ job'[i].at \in {"zap", "start"} => job[i].at = "zap"
    BY <1>0, <1>5 DEF Download, DownloadCorrupt, Verify, InstallFails, Spawn, Zap, GoJob, EndJob,
                      Early, Goroutine, Script
  <2>3. job[i].at = "zap" => Serving = {}
    BY <2>1 DEF Alone
  <2> QED BY <2>1, <2>2, <2>3, AloneGoesOn
<1>6. ASSUME NEW i \in Jobs, Rename(i) PROVE Alone'
  <2>1. /\ job[i].at = "rename" /\ job' = [job EXCEPT ![i].at = "spawn"] /\ procs' = procs
    BY <1>6 DEF Rename, GoJob
  <2>2. i \in Active /\ Active' = Active /\ Serving' = Serving
    BY <1>0, <2>1 DEF Active, Serving
  <2>3. job'[i].at = "spawn" /\ \A k \in Jobs : job'[k].pid = job[k].pid
    BY <1>0, <2>1
  <2>4. Active = {i}
    BY <2>2 DEF Alone
  <2> QED BY <2>2, <2>3, <2>4 DEF Alone, Early
<1>7. ASSUME NEW i \in Jobs, Kill(i) PROVE Alone'
  <2> DEFINE after(p) == IF p.pid = job[i].pid /\ p.st = "up"
                         THEN [p EXCEPT !.st = "term"] ELSE p
  <2>1. /\ procs' = {after(p) : p \in procs}
        /\ job[i].at = "kill" /\ job' = [job EXCEPT ![i].at = "wait"]
        /\ binary' = binary
    BY <1>7 DEF Kill, GoJob
  <2>2. \A p \in procs :
          /\ after(p).pid = p.pid /\ after(p).v = p.v
          /\ p \in Serving <=> after(p).st # "draining"
    BY DEF IInv, ProcsInv, Serving
  <2> HIDE DEF after
  <2>3. \A q \in Serving' : \E p \in Serving : q = after(p)
    BY <2>1, <2>2 DEF Serving
  <2>4. /\ i \in Active /\ Active' = Active /\ job'[i].at = "wait"
        /\ \A k \in Jobs : job'[k].pid = job[k].pid
    BY <1>0, <2>1 DEF Active
  <2>5. Active = {i}
    BY <2>4 DEF Alone
  <2>6. /\ \A p, q \in Serving' : p = q
        /\ \A p \in Serving' : p.pid = job[i].pid
    BY <2>2, <2>3, <2>4 DEF Alone, Serving
  <2> QED BY <2>4, <2>5, <2>6 DEF Alone, Early
<1>8. ASSUME NEW i \in Jobs, Wait(i) PROVE Alone'
  <2>1. /\ i \in Active /\ UNCHANGED <<procs, binary>> /\ \A k \in Jobs \ {i} : job'[k] = job[k]
        /\ job'[i].at = "zap" /\ job'[i].pid = job[i].pid
        /\ \A p \in procs : p.pid # job[i].pid
    BY <1>0, <1>8 DEF Wait, GoJob, Active
  <2>2. Serving = {}
    BY <2>1 DEF Alone, Serving
  <2> QED BY <2>1, <2>2, AloneGoesOn DEF Early, Script
<1>9. ASSUME NEW i \in Jobs, Start(i) PROVE Alone'
  <2>1. /\ job[i].at = "start" /\ i \in Active /\ binary' = binary
        /\ job' = [job EXCEPT ![i] = NoJob]
    BY <1>9 DEF Start, EndJob, Active
  <2>2. Serving = {} /\ Active = {i}
    BY <2>1 DEF Alone
  <2>3. Active' = {}
    BY <1>0, <2>1, <2>2 DEF Active
  <2>4. CASE procs' = procs
    BY <2>1, <2>2, <2>3, <2>4 DEF Alone, Serving
  <2>5. CASE procs' = procs \cup {[pid |-> nextPid, v |-> binary, st |-> "up"]}
    <3> DEFINE new == [pid |-> nextPid, v |-> binary, st |-> "up"]
    <3>1. Serving' = {new} /\ new.v = binary
      BY <2>2, <2>5 DEF Serving
    <3> HIDE DEF new
    <3> QED BY <2>1, <2>3, <3>1 DEF Alone
  <2> QED BY <1>9, <2>4, <2>5 DEF Start, StartProcess
<1>10. ASSUME NEW p \in procs, Shutdown(p) PROVE Alone'
  <2> DEFINE q == [p EXCEPT !.st = "draining"]
  <2>1. procs' = (procs \ {p}) \cup {q} /\ UNCHANGED <<job, binary>>
    BY <1>10 DEF Shutdown
  <2>2. q.st = "draining"
    BY DEF IInv, ProcsInv
  <2> HIDE DEF q
  <2>3. Serving' \subseteq Serving /\ Active' = Active
    BY <2>1, <2>2 DEF Serving, Active
  <2> QED BY <2>1, <2>3 DEF Alone
<1>11. ASSUME NEW p \in procs, Exit(p) PROVE Alone'
  BY <1>11, AloneGoes DEF Exit
<1>12. CASE Crash
  BY <1>12, AloneGoes DEF Crash
<1>13. CASE Boot
  <2>1. Active' = {}
    BY <1>0, <1>13 DEF Boot, Active
  <2>2. binary' = binary
    BY <1>13 DEF Boot
  <2>3. \A p \in Serving' : p = [pid |-> nextPid, v |-> binary, st |-> "up"]
    BY <1>13 DEF Boot, Serving
  <2> QED BY <2>1, <2>2, <2>3 DEF Alone
<1> QED
  BY <1>2, <1>3, <1>4, <1>5, <1>6, <1>7, <1>8, <1>9, <1>10, <1>11, <1>12, <1>13 DEF Next

\* When no install and no script is under way, the program that runs is the one on
\* disk, whatever downloads, crashes and boots came before (updater.go 101-195).
THEOREM AlwaysRunsWhatIsInstalled == Spec => []RunsWhatIsInstalled
<1> DEFINE Inv == IInv /\ AloneInv
<1>1. Init => Inv
  BY InitIInv, InitAlone DEF AloneInv
<1>2. Inv /\ [Next]_vars => Inv'
  BY NextIInv, AloneStep, MayStays DEF AloneInv
<1>3. Inv => RunsWhatIsInstalled
  BY DEF AloneInv, Alone, RunsWhatIsInstalled
<1> QED BY <1>1, <1>2, <1>3, PTL DEF Spec

-----------------------------------------------------------------------------
(* What the page says.  It was told the number of the process it asked; a  *)
(* process that starts after the page found nobody answering has a higher  *)
(* one.  If nothing but checks fails, the service is only away for a       *)
(* script whose release, at least the one the page asked for, is on disk.  *)

PageInv ==
  /\ page \in [at : {"idle", "waiting", "down", "done"}, v : Nat, pid : Nat]
  /\ page.pid < nextPid
  /\ "slow" \notin may /\ page.at = "down" => \A p \in Serving : page.pid < p.pid

Waiting == {"wait", "zap", "start"}

OnlyUpdates ==
  /\ Serving = {} => \E i \in Jobs : job[i].at \in Waiting
  /\ \A p \in procs : p.st # "up" => \E i \in Jobs : job[i].at = "wait" /\ job[i].pid = p.pid
  /\ binary >= 1 /\ \A i \in Active : job[i].good /\ job[i].v >= 1
  /\ \A i \in Jobs : job[i].at = "start" => ~marked
  /\ page.at \in {"waiting", "down"} =>
       page.v <= binary \/ \E i \in Jobs : job[i].at \in Early /\ page.v <= job[i].v
  /\ page.at = "down" => \A p \in Serving : page.v <= p.v

OnlyUpdatesInv == may \subseteq {"fetch"} => OnlyUpdates

LEMMA PageStep ==
  ASSUME IInv, PageInv, [Next]_vars
  PROVE  PageInv'
<1>0. nextPid \in Nat /\ status \in Nat
      /\ \A p \in procs : p.pid \in Nat /\ p.pid < nextPid
  BY DEF IInv, ProcsInv, KnownInv
<1>1. ASSUME UNCHANGED <<may, page, nextPid>>,
             \A q \in Serving' : \E p \in Serving : q.pid = p.pid
      PROVE  PageInv'
  BY <1>1 DEF PageInv
<1>2. ASSUME UNCHANGED <<may, page, nextPid, procs>> PROVE PageInv'
  BY <1>2 DEF PageInv, Serving
<1>3. ASSUME NEW c \in Checks, Check(c) \/ fetchLatestRelease(c) \/ StoreStatus(c) PROVE PageInv'
  BY <1>2, <1>3 DEF Check, fetchLatestRelease, StoreStatus
<1>4. ASSUME Publish \/ Expire \/ UNCHANGED vars PROVE PageInv'
  BY <1>2, <1>4 DEF Publish, Expire, vars
<1>5. ASSUME NEW i \in Jobs,
             \/ Download(i) \/ DownloadCorrupt(i) \/ Verify(i) \/ Rename(i) \/ InstallFails(i)
             \/ Spawn(i) \/ Wait(i) \/ Zap(i)
      PROVE  PageInv'
  BY <1>2, <1>5 DEF Download, DownloadCorrupt, Verify, Rename, InstallFails, Spawn, Wait, Zap
<1>6. ASSUME NEW i \in Jobs, Install(i) PROVE PageInv'
  <2>1. UNCHANGED <<may, nextPid, procs>>
    BY <1>6 DEF Install
  <2>2. PICK p \in Serving : page' \in {[at |-> "waiting", v |-> status, pid |-> p.pid], page}
    BY <1>6 DEF Install
  <2>3. CASE page' = page
    BY <1>2, <2>1, <2>3
  <2>4. CASE page' = [at |-> "waiting", v |-> status, pid |-> p.pid]
    BY <1>0, <2>1, <2>4 DEF PageInv, Serving
  <2> QED BY <2>2, <2>3, <2>4
<1>7. ASSUME NEW i \in Jobs, Kill(i) PROVE PageInv'
  <2> DEFINE after(p) == IF p.pid = job[i].pid /\ p.st = "up"
                         THEN [p EXCEPT !.st = "term"] ELSE p
  <2>1. procs' = {after(p) : p \in procs} /\ UNCHANGED <<may, page, nextPid>>
    BY <1>7 DEF Kill
  <2>2. \A p \in procs : after(p).pid = p.pid /\ (p \in Serving <=> after(p).st # "draining")
    BY DEF IInv, ProcsInv, Serving
  <2> HIDE DEF after
  <2>3. \A q \in Serving' : \E p \in Serving : q.pid = p.pid
    BY <2>1, <2>2 DEF Serving
  <2> QED BY <1>1, <2>1, <2>3
<1>8. ASSUME UNCHANGED <<may, page>>, nextPid' = nextPid + 1,
             \A p \in Serving' : p \in Serving \/ p.pid = nextPid
      PROVE  PageInv'
  BY <1>0, <1>8 DEF PageInv
<1>9. ASSUME NEW i \in Jobs, Start(i) PROVE PageInv'
  <2>1. UNCHANGED <<may, page>>
    BY <1>9 DEF Start
  <2>2. CASE UNCHANGED <<procs, nextPid>>
    BY <1>2, <2>1, <2>2
  <2>3. CASE /\ procs' = procs \cup {[pid |-> nextPid, v |-> binary, st |-> "up"]}
             /\ nextPid' = nextPid + 1
    BY <1>8, <2>1, <2>3 DEF Serving
  <2> QED BY <1>9, <2>2, <2>3 DEF Start, StartProcess
<1>10. ASSUME NEW p \in procs, Shutdown(p) PROVE PageInv'
  <2> DEFINE q == [p EXCEPT !.st = "draining"]
  <2>1. procs' = (procs \ {p}) \cup {q} /\ UNCHANGED <<may, page, nextPid>>
    BY <1>10 DEF Shutdown
  <2>2. q.st = "draining"
    BY DEF IInv, ProcsInv
  <2> HIDE DEF q
  <2> QED BY <1>1, <2>1, <2>2 DEF Serving
<1>11. ASSUME (\E p \in procs : Exit(p)) \/ Crash PROVE PageInv'
  <2>1. procs' \subseteq procs /\ UNCHANGED <<may, page, nextPid>>
    BY <1>11 DEF Exit, Crash
  <2> QED BY <1>1, <2>1 DEF Serving
<1>12. CASE Boot
  <2>1. /\ UNCHANGED <<may, page>> /\ nextPid' = nextPid + 1
        /\ \A p \in procs' : p = [pid |-> nextPid, v |-> binary, st |-> "up"]
    BY <1>12 DEF Boot
  <2> QED BY <1>8, <2>1 DEF Serving
<1>13. CASE PollAnswered \/ PollUnanswered \/ Reload
  <2>1. UNCHANGED <<may, nextPid, procs>>
    BY <1>13 DEF PollAnswered, PollUnanswered, Reload
  <2>2. CASE Reload
    BY <1>0, <2>1, <2>2 DEF Reload, NoPage, None, PageInv, IInv, ProcsInv
  <2>3. CASE PollAnswered
    BY <2>1, <2>3 DEF PollAnswered, PageInv
  <2>4. CASE PollUnanswered
    BY <2>1, <2>4 DEF PollUnanswered, PageInv, Serving
  <2> QED BY <1>13, <2>2, <2>3, <2>4
<1> QED
  BY <1>3, <1>4, <1>5, <1>6, <1>7, <1>9, <1>10, <1>11, <1>12, <1>13 DEF Next

LEMMA InitPage == Init => PageInv /\ OnlyUpdates
<1> SUFFICES ASSUME Init PROVE PageInv /\ OnlyUpdates
  OBVIOUS
<1>1. /\ page \in [at : {"idle", "waiting", "down", "done"}, v : Nat, pid : Nat]
      /\ page.at = "idle" /\ page.pid = 0 /\ page.v = 0 /\ nextPid = 2 /\ binary = 1
      /\ \A i \in Jobs : job[i].at = "idle"
  BY DEF Init, NoJob, NoPage, None
<1>2. procs = {[pid |-> 1, v |-> 1, st |-> "up"]}
  BY DEF Init
<1>3. Serving = procs /\ Serving # {} /\ Active = {}
  <2>1. [pid |-> 1, v |-> 1, st |-> "up"] \in procs
    BY <1>2
  <2>2. \A p \in procs : p.st # "draining"
    BY <1>2
  <2> QED BY <1>1, <2>1, <2>2 DEF Serving, Active
<1>4. \A p \in procs : p.st = "up"
  BY <1>2
<1>5. PageInv
  BY <1>1 DEF PageInv
<1>6. OnlyUpdates
  BY <1>1, <1>3, <1>4 DEF OnlyUpdates
<1> QED BY <1>5, <1>6

LEMMA OnlyUpdatesStep ==
  ASSUME IInv, Alone, PageInv, OnlyUpdates, may \subseteq {"fetch"}, [Next]_vars
  PROVE  OnlyUpdates'
<1>0. /\ job \in [Jobs -> [at : Stages, v : Nat, good : BOOLEAN, pid : Nat]]
      /\ NoJob.at = "idle" /\ latest \in Nat /\ binary \in Nat /\ status \in Nat
      /\ page.v \in Nat
      /\ \A p \in procs : p.v \in Nat /\ p.st \in {"up", "term", "draining"}
  BY DEF IInv, ProcsInv, KnownInv, JobsInv, PageInv, NoJob
<1>1. ASSUME UNCHANGED <<procs, job, binary, marked, page>> PROVE OnlyUpdates'
  BY <1>1 DEF OnlyUpdates, Active, Serving
<1>2. ASSUME NEW c \in Checks, Check(c) \/ fetchLatestRelease(c) \/ StoreStatus(c)
      PROVE  OnlyUpdates'
  BY <1>1, <1>2 DEF Check, fetchLatestRelease, StoreStatus
<1>3. ASSUME Publish \/ Expire \/ UNCHANGED vars PROVE OnlyUpdates'
  BY <1>1, <1>3 DEF Publish, Expire, vars
<1>4. ASSUME NEW i \in Jobs, Install(i) PROVE OnlyUpdates'
  <2>1. Active = {} /\ UNCHANGED <<procs, binary, marked>> /\ job[i].at = "idle"
    BY <1>4 DEF Install
  <2>2. PICK p \in Serving :
          /\ job' = IF status = None THEN job
                    ELSE [job EXCEPT ![i] =
                            [at |-> "download", v |-> status, good |-> TRUE, pid |-> p.pid]]
          /\ page' \in {[at |-> "waiting", v |-> status, pid |-> p.pid]}
                       \cup (IF status = None THEN {} ELSE {page})
    BY <1>4 DEF Install
  <2>3. \A k \in Jobs : job[k].at = "idle"
    BY <2>1 DEF Active
  <2>4. \A q \in procs : q.st = "up"
    BY <2>3 DEF OnlyUpdates
  <2>5. page.at \in {"waiting", "down"} => page.v <= binary
    BY <2>3 DEF OnlyUpdates, Early
  <2>6. page' # page =>
          page'.v <= binary \/ (job'[i].at \in Early /\ page'.v <= job'[i].v)
    <3>1. page' # page => page'.at = "waiting" /\ page'.v = status
      BY <2>2
    <3>2. status # None => job'[i].at = "download" /\ job'[i].v = status
      BY <1>0, <2>2
    <3>3. "download" \in Early
      BY DEF Early
    <3>4. CASE status = None
      BY <1>0, <2>1, <3>1, <3>4 DEF None
    <3>5. CASE status # None
      BY <1>0, <3>1, <3>2, <3>3, <3>5
    <3> QED BY <3>4, <3>5
  <2>7. \A k \in Active' : job'[k].good /\ job'[k].v >= 1
    BY <1>0, <2>1, <2>2, <2>3 DEF Active, None
  <2>8. \A k \in Jobs : job'[k].at # "start"
    BY <1>0, <2>2, <2>3
  <2>9. Serving' = Serving /\ Serving # {}
    BY <2>1, <2>2 DEF Serving
  <2> QED BY <1>0, <2>1, <2>2, <2>4, <2>5, <2>6, <2>7, <2>8, <2>9 DEF OnlyUpdates
<1>5. ASSUME NEW i \in Jobs, Download(i) \/ Verify(i) \/ Spawn(i) PROVE OnlyUpdates'
  <2>1. i \in Active /\ UNCHANGED <<procs, binary, marked, page>>
    BY <1>0, <1>5 DEF Download, Verify, Spawn, GoJob, EndJob, Active
  <2>2. Active = {i} /\ job[i].good /\ job[i].v >= 1
    BY <2>1 DEF Alone, OnlyUpdates
  <2>3. PICK to \in Goroutine \cup {"kill"} :
          /\ job' = [job EXCEPT ![i].at = to]
          /\ job[i].at \in Early => to \in Early
          /\ job[i].at \in Goroutine
    BY <1>5, <2>2 DEF Download, Verify, Spawn, GoJob, EndJob, Goroutine, Early
  <2>4. /\ job'[i].at = to /\ job'[i].good = job[i].good /\ job'[i].v = job[i].v
        /\ \A k \in Jobs \ {i} : job'[k] = job[k] /\ job[k].at = "idle"
    BY <1>0, <2>2, <2>3 DEF Active
  <2>5. to # "start" /\ job[i].at \notin Waiting
    BY <2>3 DEF Goroutine, Waiting
  <2>6. Serving # {} /\ \A q \in procs : q.st = "up"
    BY <2>4, <2>5 DEF OnlyUpdates, Waiting
  <2>7. Serving' = Serving /\ Active' \subseteq {i}
    BY <2>1, <2>4 DEF Serving, Active
  <2>8. /\ \A k \in Active' : job'[k].good /\ job'[k].v >= 1
        /\ \A k \in Jobs : job'[k].at # "start"
    <3>1. job'[i].good /\ job'[i].v >= 1
      BY <2>2, <2>4
    <3>2. \A k \in Jobs : job'[k].at # "start"
      BY <2>4, <2>5
    <3> QED BY <2>7, <3>1, <3>2
  <2>9. page.at \in {"waiting", "down"} =>
          page.v <= binary \/ (job'[i].at \in Early /\ page.v <= job'[i].v)
    <3>1. page.at \in {"waiting", "down"} =>
            page.v <= binary \/ (job[i].at \in Early /\ page.v <= job[i].v)
      <4>1. \A k \in Jobs : job[k].at \in Early => k = i
        BY <2>4 DEF Early
      <4>2. page.at \in {"waiting", "down"} =>
              page.v <= binary \/ \E k \in Jobs : job[k].at \in Early /\ page.v <= job[k].v
        BY DEF OnlyUpdates
      <4> QED BY <4>1, <4>2
    <3> QED BY <2>3, <2>4, <3>1
  <2> QED BY <2>1, <2>6, <2>7, <2>8, <2>9 DEF OnlyUpdates
<1>6. ASSUME NEW i \in Jobs, Rename(i) PROVE OnlyUpdates'
  <2>1. /\ job[i].at = "rename" /\ job' = [job EXCEPT ![i].at = "spawn"]
        /\ UNCHANGED <<procs, marked, page>>
        /\ binary' = IF job[i].good THEN job[i].v ELSE None
    BY <1>6 DEF Rename, GoJob
  <2>2. i \in Active
    BY <2>1 DEF Active
  <2>3. Active = {i} /\ job[i].good /\ job[i].v >= 1 /\ binary' = job[i].v
    BY <2>1, <2>2 DEF Alone, OnlyUpdates
  <2>4. /\ job'[i].at = "spawn" /\ job'[i].good = job[i].good /\ job'[i].v = job[i].v
        /\ \A k \in Jobs \ {i} : job'[k] = job[k] /\ job[k].at = "idle"
    BY <1>0, <2>1, <2>3 DEF Active
  <2>5. Serving # {} /\ \A q \in procs : q.st = "up"
    BY <2>1, <2>4 DEF OnlyUpdates, Waiting
  <2>6. binary <= job[i].v
    <3>1. PICK p \in Serving : TRUE
      BY <2>5
    <3>2. p \in procs /\ p.v = binary /\ p.pid = job[i].pid
      BY <2>1, <2>2, <2>3, <3>1 DEF Alone, Serving, Early
    <3> QED BY <1>0, <2>1, <3>2 DEF IInv, InstallsNoOlder, Goroutine
  <2>7. page.at \in {"waiting", "down"} => page.v <= binary'
    <3>1. page.at \in {"waiting", "down"} => page.v <= binary \/ page.v <= job[i].v
      BY <2>4 DEF OnlyUpdates, Early
    <3>2. job[i].v \in Nat
      BY <1>0
    <3> QED BY <1>0, <2>3, <2>6, <3>1, <3>2
  <2>8. Serving' = Serving /\ Active' \subseteq {i}
    BY <2>1, <2>4 DEF Serving, Active
  <2> QED BY <2>1, <2>3, <2>4, <2>5, <2>7, <2>8 DEF OnlyUpdates
<1>7. ASSUME NEW i \in Jobs, DownloadCorrupt(i) \/ InstallFails(i) PROVE FALSE
  BY <1>7 DEF DownloadCorrupt, InstallFails
<1>8. ASSUME NEW i \in Jobs, Kill(i) PROVE OnlyUpdates'
  <2> DEFINE after(p) == IF p.pid = job[i].pid /\ p.st = "up"
                         THEN [p EXCEPT !.st = "term"] ELSE p
  <2>1. /\ procs' = {after(p) : p \in procs}
        /\ job[i].at = "kill" /\ job' = [job EXCEPT ![i].at = "wait"]
        /\ UNCHANGED <<binary, marked, page>>
    BY <1>8 DEF Kill, GoJob
  <2>2. Active = {i} /\ job[i].good /\ job[i].v >= 1
    BY <2>1 DEF Alone, OnlyUpdates, Active
  <2>3. /\ job'[i].at = "wait" /\ \A k \in Jobs : job'[k].pid = job[k].pid
        /\ job'[i].good = job[i].good /\ job'[i].v = job[i].v
        /\ \A k \in Jobs \ {i} : job'[k] = job[k] /\ job[k].at = "idle"
    BY <1>0, <2>1, <2>2 DEF Active
  <2>4. \A p \in procs : p.st = "up"
    BY <2>1, <2>3 DEF OnlyUpdates
  <2>5. \A p \in procs :
          /\ after(p).pid = p.pid /\ after(p).v = p.v
          /\ after(p).st # "up" => p.pid = job[i].pid
          /\ p \in Serving
    BY <2>4 DEF IInv, ProcsInv, Serving
  <2> HIDE DEF after
  <2>6. \A q \in procs' : q.st # "up" => job'[i].at = "wait" /\ job'[i].pid = q.pid
    BY <2>1, <2>3, <2>5
  <2>7. page'.at = "down" => \A q \in Serving' : page'.v <= q.v
    BY <2>1, <2>5 DEF OnlyUpdates, Serving
  <2>8. page.at \in {"waiting", "down"} => page.v <= binary
    BY <2>1, <2>3 DEF OnlyUpdates, Early
  <2>9. Active' \subseteq {i}
    BY <2>3 DEF Active
  <2> QED BY <2>1, <2>2, <2>3, <2>6, <2>7, <2>8, <2>9 DEF OnlyUpdates, Waiting
<1>9. ASSUME NEW i \in Jobs, Wait(i) \/ Zap(i) PROVE OnlyUpdates'
  <2>1. PICK to \in {"zap", "start"} :
          /\ job' = [job EXCEPT ![i].at = to]
          /\ to = "start" => marked' = FALSE
    BY <1>9 DEF Wait, Zap, GoJob
  <2>2. UNCHANGED <<procs, binary, page>> /\ i \in Active /\ job[i].at \in {"wait", "zap"}
    BY <1>9 DEF Wait, Zap, GoJob, Active
  <2>3. Active = {i} /\ job[i].good /\ job[i].v >= 1
    BY <2>2 DEF Alone, OnlyUpdates
  <2>4. /\ job'[i].at = to /\ job'[i].good = job[i].good /\ job'[i].v = job[i].v
        /\ \A k \in Jobs \ {i} : job'[k] = job[k] /\ job[k].at = "idle"
    BY <1>0, <2>1, <2>3 DEF Active
  <2>5. \A q \in procs : q.st = "up"
    <3>1. ASSUME NEW q \in procs, q.st # "up" PROVE FALSE
      <4>1. job[i].at = "wait" /\ job[i].pid = q.pid
        BY <2>4, <3>1 DEF OnlyUpdates
      <4> QED BY <1>9, <3>1, <4>1 DEF Wait, Zap, GoJob
    <3> QED BY <3>1
  <2>6. page.at \in {"waiting", "down"} => page.v <= binary
    BY <2>2, <2>4 DEF OnlyUpdates, Early
  <2>7. Serving' = Serving /\ Active' \subseteq {i}
    BY <2>2, <2>4 DEF Serving, Active
  <2>8. \A k \in Jobs : job'[k].at = "start" => ~marked'
    BY <2>1, <2>4
  <2> QED BY <2>2, <2>3, <2>4, <2>5, <2>6, <2>7, <2>8 DEF OnlyUpdates, Waiting
<1>10. ASSUME NEW i \in Jobs, Start(i) PROVE OnlyUpdates'
  <2> DEFINE new == [pid |-> nextPid, v |-> binary, st |-> "up"]
  <2>1. /\ job[i].at = "start" /\ job' = [job EXCEPT ![i] = NoJob]
        /\ i \in Active /\ UNCHANGED <<binary, page>>
    BY <1>10 DEF Start, EndJob, Active
  <2>2. Active = {i} /\ Serving = {} /\ ~marked /\ binary >= 1
    BY <2>1 DEF Alone, OnlyUpdates
  <2>3. procs' = procs \cup {new}
    BY <1>0, <1>10, <2>2 DEF Start, StartProcess, None
  <2>4. \A k \in Jobs : job'[k].at = "idle"
    BY <1>0, <2>1, <2>2 DEF Active
  <2>5. \A k \in Jobs : job[k].at \notin {"wait"} \cup Early
    BY <2>1, <2>2 DEF Active, Early
  <2>6. \A q \in procs : q.st = "up"
    BY <2>5 DEF OnlyUpdates
  <2>7. page.at \in {"waiting", "down"} => page.v <= binary
    BY <2>5 DEF OnlyUpdates
  <2>8. new.st = "up" /\ new.v = binary
    OBVIOUS
  <2> HIDE DEF new
  <2>9. Serving' = {new}
    BY <2>2, <2>3, <2>8 DEF Serving
  <2>10. Active' = {}
    BY <2>4 DEF Active
  <2> QED BY <2>1, <2>2, <2>3, <2>4, <2>6, <2>7, <2>8, <2>9, <2>10 DEF OnlyUpdates
<1>11. ASSUME NEW p \in procs, Shutdown(p) PROVE OnlyUpdates'
  <2> DEFINE q == [p EXCEPT !.st = "draining"]
  <2>1. /\ p.st = "term" /\ procs' = (procs \ {p}) \cup {q}
        /\ UNCHANGED <<job, binary, marked, page>>
    BY <1>11 DEF Shutdown
  <2>2. q.st = "draining" /\ q.pid = p.pid
    BY DEF IInv, ProcsInv
  <2> HIDE DEF q
  <2>3. PICK i \in Jobs : job[i].at = "wait" /\ job[i].pid = p.pid
    BY <2>1 DEF OnlyUpdates
  <2>4. Serving' \subseteq Serving /\ Active' = Active
    BY <2>1, <2>2 DEF Serving, Active
  <2>5. \A r \in procs' : r.st # "up" => \E k \in Jobs : job[k].at = "wait" /\ job[k].pid = r.pid
    BY <2>1, <2>2, <2>3 DEF OnlyUpdates
  <2> QED BY <2>1, <2>3, <2>4, <2>5 DEF OnlyUpdates, Waiting
<1>12. ASSUME NEW p \in procs, Exit(p) PROVE OnlyUpdates'
  <2>1. /\ p.st = "draining" /\ procs' = procs \ {p} /\ UNCHANGED <<binary, marked, page>>
        /\ job' = [i \in Jobs |-> IF job[i].at \in Goroutine /\ job[i].pid = p.pid
                                  THEN NoJob ELSE job[i]]
    BY <1>12 DEF Exit
  <2>2. PICK i \in Jobs : job[i].at = "wait"
    BY <2>1 DEF OnlyUpdates
  <2>3. Active = {i}
    BY <2>2 DEF Alone, Active
  <2>4. \A k \in Jobs : job[k].at \notin Goroutine
    BY <2>2, <2>3 DEF Active, Goroutine
  <2>5. job' = job
    BY <1>0, <2>1, <2>4
  <2>6. Serving' = Serving /\ Active' = Active /\ procs' \subseteq procs
    BY <2>1, <2>5 DEF Serving, Active
  <2> QED BY <2>1, <2>5, <2>6 DEF OnlyUpdates
<1>13. CASE Crash \/ Boot
  BY <1>13 DEF Crash, Boot
<1>14. CASE PollAnswered \/ PollUnanswered \/ Reload
  <2>1. UNCHANGED <<procs, job, binary, marked>>
    BY <1>14 DEF PollAnswered, PollUnanswered, Reload
  <2>2. Serving' = Serving /\ Active' = Active
    BY <2>1 DEF Serving, Active
  <2>3. \/ page'.at \notin {"waiting", "down"}
        \/ page.at = "waiting" /\ page'.v = page.v /\ Serving = {}
    <3>1. CASE PollAnswered
      BY <3>1, <1>0 DEF PollAnswered, PageInv
    <3>2. CASE PollUnanswered
      BY <3>2, <1>0 DEF PollUnanswered, PageInv
    <3>3. CASE Reload
      BY <3>3 DEF Reload, NoPage
    <3> QED BY <1>14, <3>1, <3>2, <3>3
  <2> QED BY <2>1, <2>2, <2>3 DEF OnlyUpdates
<1> QED
  BY <1>2, <1>3, <1>4, <1>5, <1>6, <1>7, <1>8, <1>9, <1>10, <1>11, <1>12, <1>13, <1>14 DEF Next

\* When the page reports success (app.js 172-178) a process that started after the
\* request serves, if no ping was merely slow, and it runs the release that was
\* asked for, or a newer one, if nothing worse happened than checks that fail.
THEOREM SuccessAlwaysMeansUpdated == Spec => SuccessMeansUpdated
<1> DEFINE Inv == IInv /\ AloneInv /\ PageInv /\ OnlyUpdatesInv
<1>1. Init => Inv
  BY InitIInv, InitAlone, InitPage DEF AloneInv, OnlyUpdatesInv
<1>2. Inv /\ [Next]_vars => Inv'
  <2> SUFFICES ASSUME Inv, [Next]_vars PROVE Inv'
    OBVIOUS
  <2>1. IInv' /\ PageInv' /\ AloneInv' /\ may' = may
    BY NextIInv, PageStep, AloneStep, MayStays DEF AloneInv
  <2>2. OnlyUpdatesInv'
    BY <2>1, OnlyUpdatesStep DEF AloneInv, OnlyUpdatesInv
  <2> QED BY <2>1, <2>2
<1>3. Inv /\ [Next]_vars =>
        [page.at # "done" /\ page'.at = "done" /\ "slow" \notin may =>
           \E p \in Serving :
             /\ p.pid > page.pid
             /\ may \subseteq {"fetch"} => p.v >= page.v]_vars
  <2> SUFFICES ASSUME Inv, [Next]_vars, page.at # "done", page'.at = "done", "slow" \notin may
               PROVE  \E p \in Serving :
                        p.pid > page.pid /\ (may \subseteq {"fetch"} => p.v >= page.v)
    OBVIOUS
  <2>1. PollAnswered
    <3>1. ASSUME UNCHANGED page PROVE FALSE
      BY <3>1
    <3>2. ASSUME NEW i \in Jobs, Install(i) PROVE FALSE
      <4>1. page'.at = "waiting" \/ page' = page
        BY <3>2 DEF Install
      <4> QED BY <4>1
    <3>3. CASE PollUnanswered
      BY <3>3 DEF PollUnanswered, PageInv
    <3>4. CASE Reload
      BY <3>4 DEF Reload, NoPage
    <3> QED
      BY <3>1, <3>2, <3>3, <3>4
         DEF Next, vars, Publish, Expire, Check, fetchLatestRelease, StoreStatus, Download,
             DownloadCorrupt, Verify, Rename, InstallFails, Spawn, Kill, Wait, Zap, Start,
             Shutdown, Exit, Crash, Boot
  <2>2. PICK p \in Serving : page.at = "down"
    BY <2>1 DEF PollAnswered
  <2>3. p.pid \in Nat /\ p.v \in Nat /\ page.pid \in Nat /\ page.v \in Nat
    BY DEF IInv, ProcsInv, PageInv, Serving
  <2>4. page.pid < p.pid
    BY <2>2 DEF PageInv
  <2>5. may \subseteq {"fetch"} => page.v <= p.v
    BY <2>2 DEF OnlyUpdatesInv, OnlyUpdates
  <2> QED BY <2>3, <2>4, <2>5
<1> QED BY <1>1, <1>2, <1>3, PTL DEF Spec, SuccessMeansUpdated
-----------------------------------------------------------------------------
(* Every value stays in its type.  No number of a process exceeds the      *)
(* bound because an install is admitted only while there is room for the   *)
(* processes of all the scripts under way.                                 *)

Room ==
  /\ IsFiniteSet(Active)
  /\ nextPid + Cardinality(Active) <= MaxStarts + 1

\* OpenRC starts the service only when nothing listens.
OneServes == \A p, q \in Serving : p = q

Process == [pid : 1 .. MaxStarts, v : Versions, st : {"up", "term", "draining"}]
CheckType == [at : {"idle", "fetch", "store"}, info : {None} \cup Versions]
JobType == [at : {"idle"} \cup Goroutine \cup Script, v : {None} \cup Versions,
            good : BOOLEAN, pid : 0 .. MaxStarts]
PageType == [at : {"idle", "waiting", "down", "done"}, v : {None} \cup Versions,
             pid : 0 .. MaxStarts]

KnownTypeOK ==
  /\ may \in Environments /\ latest \in Versions
  /\ status \in {None} \cup Versions /\ fresh \in BOOLEAN
  /\ check \in [Checks -> CheckType]

ProcsTypeOK ==
  /\ procs \subseteq Process
  /\ nextPid \in 1 .. MaxStarts + 1 /\ \A p \in procs : p.pid < nextPid
  /\ binary \in {None} \cup Versions
  /\ marked \in BOOLEAN

JobsTypeOK == job \in [Jobs -> JobType]

Typed ==
  KnownTypeOK /\ ProcsTypeOK /\ JobsTypeOK /\ page \in PageType /\ OneServes /\ Room

LEMMA Blank ==
  /\ NoJob \in JobType /\ NoJob.at = "idle"
  /\ NoPage \in PageType
  /\ NoCheck \in CheckType
  /\ MaxStarts \in Nat /\ MaxStarts >= 1 /\ MaxVersion \in Nat /\ MaxVersion >= 1
BY UpdaterAssumption DEF NoJob, NoPage, NoCheck, JobType, PageType, CheckType, None

LEMMA TypedIsTypeOK == Typed => TypeOK
<1> SUFFICES ASSUME Typed PROVE TypeOK
  OBVIOUS
<1>1. Cardinality(Serving) <= 1
  <2>1. CASE Serving = {}
    BY <2>1, FS_EmptySet
  <2>2. CASE Serving # {}
    <3>1. PICK p \in Serving : TRUE
      BY <2>2
    <3>2. Serving = {p}
      BY <3>1 DEF Typed, OneServes
    <3>3. Cardinality(Serving) = 1
      BY <3>2, FS_Singleton
    <3> QED BY <3>3
  <2> QED BY <2>1, <2>2
<1> QED
  BY <1>1 DEF Typed, KnownTypeOK, ProcsTypeOK, JobsTypeOK, TypeOK, Process, CheckType, JobType,
              PageType

LEMMA InitTyped == Init => Typed
<1> SUFFICES ASSUME Init PROVE Typed
  OBVIOUS
<1>1. KnownTypeOK
  BY Blank, UpdaterAssumption DEF Init, KnownTypeOK
<1>2. ProcsTypeOK
  BY Blank DEF Init, ProcsTypeOK, Process, Versions
<1>3. JobsTypeOK
  BY Blank DEF Init, JobsTypeOK
<1>4. page \in PageType
  BY Blank DEF Init
<1>5. OneServes
  BY DEF Init, OneServes, Serving
<1>6. Room
  <2>1. Active = {}
    BY Blank DEF Init, Active
  <2> QED BY <2>1, Blank, FS_EmptySet DEF Init, Room
<1> QED BY <1>1, <1>2, <1>3, <1>4, <1>5, <1>6 DEF Typed

\* Room only grows when jobs end.
LEMMA RoomStays ==
  ASSUME Room, nextPid \in Nat, Active' \subseteq Active, nextPid' = nextPid
  PROVE  Room'
<1>1. IsFiniteSet(Active') /\ Cardinality(Active') <= Cardinality(Active)
  BY FS_Subset DEF Room
<1>2. Cardinality(Active) \in Nat /\ Cardinality(Active') \in Nat
  BY <1>1, FS_CardinalityType DEF Room
<1> QED BY <1>1, <1>2, Blank DEF Room

\* The room of a job that ends is the room of the process it starts.
LEMMA RoomMoves ==
  ASSUME Room, nextPid \in Nat, NEW i \in Active, Active' = Active \ {i}, nextPid' = nextPid + 1
  PROVE  Room' /\ nextPid <= MaxStarts
<1>1. IsFiniteSet(Active') /\ Cardinality(Active') = Cardinality(Active) - 1
  BY FS_RemoveElement DEF Room
<1>2. Cardinality(Active) \in Nat /\ Cardinality(Active') \in Nat
  BY <1>1, FS_CardinalityType DEF Room
<1> QED BY <1>1, <1>2, Blank DEF Room

\* Nothing but one job and the mark of OpenRC changed.
LEMMA TypedJob ==
  ASSUME Typed, NEW i \in Active, NEW new \in JobType, job' = [job EXCEPT ![i] = new],
         UNCHANGED <<may, latest, procs, nextPid, status, fresh, check, page>>,
         binary' \in {None} \cup Versions, marked' \in BOOLEAN
  PROVE  Typed'
<1>1. /\ job' \in [Jobs -> JobType]
      /\ Active' \subseteq Active
  BY DEF Typed, JobsTypeOK, Active
<1>2. Room'
  <2>1. nextPid \in Nat
    BY Blank DEF Typed, ProcsTypeOK
  <2> QED BY <1>1, <2>1, RoomStays DEF Typed
<1> QED
  BY <1>1, <1>2 DEF Typed, KnownTypeOK, ProcsTypeOK, JobsTypeOK, OneServes, Serving

\* The processes, and the jobs that end with them.
LEMMA TypedProcs ==
  ASSUME Typed, ProcsTypeOK', KnownTypeOK', OneServes', UNCHANGED <<nextPid, page>>,
         DOMAIN job' = Jobs, \A i \in Jobs : job'[i] \in {NoJob, job[i]},
         job' = [i \in Jobs |-> job'[i]]
  PROVE  Typed'
<1>1. JobsTypeOK'
  BY Blank DEF Typed, JobsTypeOK
<1>2. Active' \subseteq Active
  BY Blank DEF Active
<1>3. nextPid \in Nat
  BY Blank DEF Typed, ProcsTypeOK
<1>4. Room'
  BY <1>2, <1>3, RoomStays DEF Typed
<1> QED BY <1>1, <1>4 DEF Typed

LEMMA TypedGoes ==
  ASSUME Typed, NEW p \in procs,
         procs' = procs \ {p},
         job' = [i \in Jobs |-> IF job[i].at \in Goroutine /\ job[i].pid = p.pid
                                THEN NoJob ELSE job[i]],
         UNCHANGED <<nextPid, binary, marked, page>>, KnownTypeOK'
  PROVE  Typed'
<1>1. ProcsTypeOK' /\ OneServes'
  BY DEF Typed, ProcsTypeOK, OneServes, Serving
<1>2. /\ DOMAIN job' = Jobs /\ \A i \in Jobs : job'[i] \in {NoJob, job[i]}
      /\ job' = [i \in Jobs |-> job'[i]]
  OBVIOUS
<1> QED BY <1>1, <1>2, TypedProcs

LEMMA NextTyped == Typed /\ [Next]_vars => Typed'
<1> SUFFICES ASSUME Typed, [Next]_vars PROVE Typed'
  OBVIOUS
<1>0. /\ job \in [Jobs -> JobType] /\ check \in [Checks -> CheckType]
      /\ latest \in Versions /\ nextPid \in Nat
  BY Blank DEF Typed, KnownTypeOK, ProcsTypeOK, JobsTypeOK
<1>1. ASSUME KnownTypeOK', page' \in PageType, UNCHANGED <<procs, nextPid, job, binary, marked>>
      PROVE  Typed'
  BY <1>1 DEF Typed, ProcsTypeOK, JobsTypeOK, OneServes, Room, Serving, Active
<1>2. CASE Publish
  BY <1>1, <1>2, Blank DEF Publish, Typed, KnownTypeOK, Versions
<1>3. CASE Expire
  BY <1>1, <1>3 DEF Expire, Typed, KnownTypeOK
<1>4. ASSUME NEW c \in Checks, Check(c) PROVE Typed'
  <2>1. [at |-> "fetch", info |-> None] \in CheckType
    BY DEF CheckType
  <2>2. KnownTypeOK'
    BY <1>0, <1>4, <2>1 DEF Check, GoCheck, Typed, KnownTypeOK
  <2> QED BY <1>1, <1>4, <2>2 DEF Check, Typed
<1>5. ASSUME NEW c \in Checks, fetchLatestRelease(c) PROVE Typed'
  <2>1. PICK info \in {latest, None} :
          check' = [check EXCEPT ![c] = [at |-> "store", info |-> info]]
    BY <1>5 DEF fetchLatestRelease, GoCheck
  <2>2. [at |-> "store", info |-> info] \in CheckType
    BY <1>0 DEF CheckType
  <2>3. KnownTypeOK'
    BY <1>0, <1>5, <2>1, <2>2 DEF fetchLatestRelease, Typed, KnownTypeOK
  <2> QED BY <1>1, <1>5, <2>3 DEF fetchLatestRelease, Typed
<1>6. ASSUME NEW c \in Checks, StoreStatus(c) PROVE Typed'
  <2>1. [at |-> "idle", info |-> None] \in CheckType /\ check[c].info \in {None} \cup Versions
    BY <1>0 DEF CheckType
  <2>2. KnownTypeOK'
    BY <1>0, <1>6, <2>1 DEF StoreStatus, GoCheck, Typed, KnownTypeOK
  <2> QED BY <1>1, <1>6, <2>2 DEF StoreStatus, Typed
<1>7. ASSUME NEW i \in Jobs, Install(i) PROVE Typed'
  <2>1. /\ job[i].at = "idle" /\ nextPid + Cardinality(Active) < MaxStarts
        /\ UNCHANGED <<may, latest, procs, nextPid, status, fresh, check, binary, marked>>
    BY <1>7 DEF Install
  <2>2. PICK p \in Serving :
          /\ job' = IF status = None THEN job
                    ELSE [job EXCEPT ![i] =
                            [at |-> "download", v |-> status, good |-> TRUE, pid |-> p.pid]]
          /\ page' \in {[at |-> "waiting", v |-> status, pid |-> p.pid]}
                       \cup (IF status = None THEN {} ELSE {page})
    BY <1>7 DEF Install
  <2>3. p.pid \in 1 .. MaxStarts /\ status \in {None} \cup Versions
    BY DEF Typed, KnownTypeOK, ProcsTypeOK, Serving, Process
  <2>4. page' \in PageType
    BY <2>2, <2>3, Blank DEF PageType, Typed
  <2>5. KnownTypeOK' /\ ProcsTypeOK' /\ OneServes'
    BY <2>1 DEF Typed, KnownTypeOK, ProcsTypeOK, OneServes, Serving
  <2>6. JobsTypeOK' /\ Room'
    <3>1. CASE status = None
      BY <2>1, <2>2, <3>1 DEF Typed, JobsTypeOK, Room, Active
    <3>2. CASE status # None
      <4> DEFINE new == [at |-> "download", v |-> status, good |-> TRUE, pid |-> p.pid]
      <4>1. new \in JobType /\ new.at = "download"
        BY <2>3, Blank DEF JobType, Goroutine
      <4>2. job' = [job EXCEPT ![i] = new]
        BY <2>2, <3>2
      <4> HIDE DEF new
      <4>3. Active' = Active \cup {i} /\ i \notin Active
        BY <1>0, <2>1, <4>1, <4>2 DEF Active
      <4>4. IsFiniteSet(Active') /\ Cardinality(Active') = Cardinality(Active) + 1
        BY <4>3, FS_AddElement DEF Typed, Room
      <4>5. Cardinality(Active) \in Nat
        BY FS_CardinalityType DEF Typed, Room
      <4>6. Room'
        BY <1>0, <2>1, <4>4, <4>5, Blank DEF Room
      <4> QED BY <1>0, <4>1, <4>2, <4>6 DEF JobsTypeOK
    <3> QED BY <3>1, <3>2
  <2> QED BY <2>4, <2>5, <2>6 DEF Typed
<1>8. ASSUME NEW i \in Jobs,
             \/ Download(i) \/ DownloadCorrupt(i) \/ Verify(i) \/ InstallFails(i)
             \/ Spawn(i) \/ Wait(i) \/ Zap(i) \/ Rename(i)
      PROVE  Typed'
  <2>1. UNCHANGED <<may, latest, procs, nextPid, status, fresh, check, page>>
    BY <1>8 DEF Download, DownloadCorrupt, Verify, InstallFails, Spawn, Wait, Zap, Rename
  <2>2. job[i] \in JobType /\ marked \in BOOLEAN /\ binary \in {None} \cup Versions
    BY <1>0 DEF Typed, ProcsTypeOK
  <2>3. marked' \in BOOLEAN /\ binary' \in {None} \cup Versions
    BY <1>8, <2>2 DEF Download, DownloadCorrupt, Verify, InstallFails, Spawn, Wait, Zap, Rename,
                      JobType
  <2>4. i \in Active
    BY <1>8 DEF Download, DownloadCorrupt, Verify, InstallFails, Spawn, Wait, Zap, Rename,
                GoJob, Active
  <2>5. PICK to \in Goroutine \cup Script :
          \/ job' = [job EXCEPT ![i].at = to]
          \/ job' = [job EXCEPT ![i].at = to, ![i].good = FALSE]
          \/ job' = [job EXCEPT ![i] = NoJob]
    BY <1>8 DEF Download, DownloadCorrupt, Verify, InstallFails, Spawn, Wait, Zap, Rename,
                GoJob, EndJob, Goroutine, Script
  <2>6. \E new \in JobType : job' = [job EXCEPT ![i] = new]
    <3>1. /\ [job[i] EXCEPT !.at = to] \in JobType
          /\ [job[i] EXCEPT !.at = to, !.good = FALSE] \in JobType
      BY <2>2 DEF JobType
    <3> QED BY <1>0, <2>5, <3>1, Blank
  <2> QED BY <2>1, <2>3, <2>4, <2>6, TypedJob
<1>9. ASSUME NEW i \in Jobs, Kill(i) PROVE Typed'
  <2> DEFINE after(p) == IF p.pid = job[i].pid /\ p.st = "up"
                         THEN [p EXCEPT !.st = "term"] ELSE p
  <2>1. /\ procs' = {after(p) : p \in procs}
        /\ job[i].at = "kill" /\ job' = [job EXCEPT ![i].at = "wait"]
        /\ UNCHANGED <<may, latest, nextPid, status, fresh, check, binary, marked, page>>
    BY <1>9 DEF Kill, GoJob
  <2>2. \A p \in procs :
          /\ after(p) \in Process /\ after(p).pid = p.pid
          /\ p \in Serving <=> after(p).st # "draining"
    BY DEF Typed, ProcsTypeOK, Process, Serving
  <2> HIDE DEF after
  <2>3. KnownTypeOK' /\ ProcsTypeOK'
    BY <2>1, <2>2 DEF Typed, KnownTypeOK, ProcsTypeOK
  <2>4. OneServes'
    <3>1. \A q \in Serving' : \E p \in Serving : q = after(p)
      BY <2>1, <2>2 DEF Serving
    <3> QED BY <3>1 DEF Typed, OneServes
  <2>5. JobsTypeOK' /\ Active' = Active
    <3>1. /\ [job[i] EXCEPT !.at = "wait"] \in JobType
          /\ job' = [job EXCEPT ![i] = [job[i] EXCEPT !.at = "wait"]]
      BY <1>0, <2>1 DEF JobType, Script
    <3> QED BY <1>0, <2>1, <3>1 DEF JobsTypeOK, Active
  <2> QED BY <2>1, <2>3, <2>4, <2>5 DEF Typed, Room
<1>10. ASSUME NEW i \in Jobs, Start(i) PROVE Typed'
  <2>1. /\ job[i].at = "start" /\ job' = [job EXCEPT ![i] = NoJob]
        /\ UNCHANGED <<may, latest, status, fresh, check, binary, page>>
        /\ marked' = (marked \/ binary # None)
    BY <1>10 DEF Start, EndJob
  <2>2. i \in Active /\ Active' = Active \ {i} /\ marked' \in BOOLEAN
    BY <1>0, <2>1, Blank DEF Active
  <2>3. CASE UNCHANGED <<procs, nextPid>>
    BY <2>1, <2>2, <2>3, Blank, TypedJob DEF Typed, ProcsTypeOK
  <2>4. CASE /\ binary # None /\ Serving = {} /\ nextPid' = nextPid + 1
             /\ procs' = procs \cup {[pid |-> nextPid, v |-> binary, st |-> "up"]}
    <3> DEFINE new == [pid |-> nextPid, v |-> binary, st |-> "up"]
    <3>1. Room' /\ nextPid <= MaxStarts
      BY <1>0, <2>2, <2>4, RoomMoves DEF Typed
    <3>2. nextPid \in 1 .. MaxStarts /\ nextPid' \in 1 .. MaxStarts + 1
      BY <2>4, <3>1, Blank DEF Typed, ProcsTypeOK
    <3>3. new \in Process /\ new.pid = nextPid
      BY <2>4, <3>2 DEF Process, Typed, ProcsTypeOK
    <3>4. procs' = procs \cup {new}
      BY <2>4
    <3> HIDE DEF new
    <3>5. \A p \in procs : p.pid \in Nat /\ p.pid < nextPid
      BY Blank DEF Typed, ProcsTypeOK, Process
    <3>6. ProcsTypeOK'
      BY <1>0, <2>1, <2>2, <2>4, <3>2, <3>3, <3>4, <3>5 DEF Typed, ProcsTypeOK
    <3>7. OneServes'
      BY <2>4, <3>4 DEF OneServes, Serving
    <3>8. KnownTypeOK' /\ JobsTypeOK' /\ page' \in PageType
      BY <1>0, <2>1, Blank DEF Typed, KnownTypeOK, JobsTypeOK
    <3> QED BY <3>1, <3>6, <3>7, <3>8 DEF Typed
  <2> QED BY <1>10, <2>3, <2>4 DEF Start, StartProcess
<1>11. ASSUME NEW p \in procs, Shutdown(p) PROVE Typed'
  <2> DEFINE q == [p EXCEPT !.st = "draining"]
  <2>1. /\ procs' = (procs \ {p}) \cup {q} /\ Forget
        /\ UNCHANGED <<may, latest, nextPid, job, binary, marked, page>>
    BY <1>11 DEF Shutdown
  <2>2. q \in Process /\ q.pid = p.pid /\ q.st = "draining"
    BY DEF Typed, ProcsTypeOK, Process
  <2> HIDE DEF q
  <2>3. ProcsTypeOK' /\ OneServes'
    BY <2>1, <2>2 DEF Typed, ProcsTypeOK, OneServes, Serving
  <2>4. KnownTypeOK'
    BY <2>1, Blank DEF Forget, Typed, KnownTypeOK
  <2> QED BY <1>0, <2>1, <2>3, <2>4 DEF Typed, JobsTypeOK, Room, Active
<1>12. ASSUME NEW p \in procs, Exit(p) PROVE Typed'
  <2>1. KnownTypeOK'
    BY <1>12 DEF Exit, Typed, KnownTypeOK
  <2> QED BY <1>12, <2>1, TypedGoes DEF Exit
<1>13. CASE Crash
  <2>1. PICK p \in procs :
          /\ procs' = procs \ {p}
          /\ job' = [i \in Jobs |-> IF job[i].at \in Goroutine /\ job[i].pid = p.pid
                                    THEN NoJob ELSE job[i]]
          /\ IF p.st = "draining" THEN UNCHANGED <<status, fresh, check>> ELSE Forget
    BY <1>13 DEF Crash
  <2>2. UNCHANGED <<may, latest, nextPid, binary, marked, page>>
    BY <1>13 DEF Crash
  <2>3. KnownTypeOK'
    <3>1. CASE p.st = "draining"
      BY <2>1, <2>2, <3>1 DEF Typed, KnownTypeOK
    <3>2. CASE p.st # "draining"
      BY <2>1, <2>2, <3>2, Blank DEF Forget, Typed, KnownTypeOK
    <3> QED BY <3>1, <3>2
  <2> QED BY <2>1, <2>2, <2>3, TypedGoes
<1>14. CASE Boot
  <2> DEFINE new == [pid |-> nextPid, v |-> binary, st |-> "up"]
  <2>1. /\ nextPid < MaxStarts /\ nextPid' = nextPid + 1
        /\ job' = [i \in Jobs |-> NoJob]
        /\ procs' = IF binary = None THEN {} ELSE {new}
        /\ marked' = (binary # None) /\ Forget /\ UNCHANGED <<may, latest, binary, page>>
    BY <1>14 DEF Boot
  <2>2. KnownTypeOK'
    BY <2>1, Blank DEF Forget, Typed, KnownTypeOK
  <2>3. nextPid \in 1 .. MaxStarts /\ nextPid' \in 1 .. MaxStarts + 1
    BY <2>1, Blank DEF Typed, ProcsTypeOK
  <2>4. (binary # None => new \in Process) /\ new.pid = nextPid
    BY <2>3 DEF Process, Typed, ProcsTypeOK
  <2> HIDE DEF new
  <2>5. ProcsTypeOK' /\ OneServes'
    BY <1>0, <2>1, <2>3, <2>4 DEF Typed, ProcsTypeOK, OneServes, Serving
  <2>6. Active' = {}
    BY <2>1, Blank DEF Active
  <2>7. Room'
    BY <2>3, <2>6, Blank, FS_EmptySet DEF Room
  <2>8. JobsTypeOK' /\ page' \in PageType
    BY <2>1, Blank DEF Typed, JobsTypeOK
  <2> QED BY <2>2, <2>5, <2>7, <2>8 DEF Typed
<1>15. CASE PollAnswered \/ PollUnanswered \/ Reload \/ UNCHANGED vars
  <2>1. UNCHANGED <<may, latest, procs, nextPid, status, fresh, check, job, binary, marked>>
    BY <1>15 DEF PollAnswered, PollUnanswered, Reload, vars
  <2>2. page' \in PageType
    BY <1>15, Blank DEF PollAnswered, PollUnanswered, Reload, vars, Typed, PageType
  <2> QED BY <1>1, <2>1, <2>2 DEF Typed, KnownTypeOK
<1> QED
  BY <1>2, <1>3, <1>4, <1>5, <1>6, <1>7, <1>8, <1>9, <1>10, <1>11, <1>12, <1>13, <1>14, <1>15
     DEF Next

\* Every variable keeps its type; in particular no two processes ever listen at
\* once (updater.go 176-195: the script starts the service only after the old
\* process is gone, and a second listener ends at once).
THEOREM UpdaterTypeOK == Spec => []TypeOK
BY InitTyped, NextTyped, TypedIsTypeOK, PTL DEF Spec
=============================================================================
