------------------------------- MODULE Updater -------------------------------
(***************************************************************************)
(* The self-update: the cached answer of GitHub, the install goroutines    *)
(* that replace /usr/local/bin/srouter, the detached scripts that restart  *)
(* the service, and the page that polls /ping to tell the user when it is  *)
(* over (internal/system/updater.go, internal/handler/system.go,           *)
(* cmd/main.go 183-208, web/static/app.js 127-193).                        *)
(*                                                                         *)
(* An install goroutine and the script it spawns are one job.  A process   *)
(* takes its goroutines with it when it ends; scripts survive it.          *)
(***************************************************************************)
EXTENDS Naturals, FiniteSets

CONSTANTS
  Jobs,          \* slots for installs and their scripts
  Checks,        \* slots for checks: the loop of main and requests
  MaxVersion,    \* bound: releases are numbered up to it
  MaxStarts,     \* bound: the processes started
  Environments   \* the sets of mishaps a behaviour may have to live with

\* "fetch":    GitHub does not answer a check, or has no usable release
\* "download": an install fails on the way
\* "corrupt":  the file that is downloaded is not the one that was released
\* "noSum":    releases without a checksum
\* "spawn":    the restart script cannot be started
\* "overlap":  an install while another, or its script, is under way
\* "crash":    the service dies
\* "boot":     the router restarts
\* "slow":     a ping that is not answered within a second
Mishaps == {"fetch", "download", "corrupt", "noSum", "spawn", "overlap",
            "crash", "boot", "slow"}

ASSUME UpdaterAssumption ==
  /\ {MaxVersion, MaxStarts} \subseteq Nat \ {0}
  /\ Environments \subseteq SUBSET Mishaps

VARIABLES
  may,       \* the mishaps of this behaviour, chosen once
  latest,    \* the latest release on GitHub
  procs,     \* the srouter processes: pid, version, and "up", "term" or "draining"
  nextPid,
  status,    \* the release in uc.status of the process that listens, or None
  fresh,     \* whether uc.status is less than five minutes old
  check,     \* where each check is, and the release it has been told
  job,       \* where each job is, the release it installs, the process it is of
  binary,    \* the release in /usr/local/bin/srouter, or None if it is corrupt
  marked,    \* whether OpenRC takes the service for started
  page       \* what the page that asked for an install waits for

vars == <<may, latest, procs, nextPid, status, fresh, check, job, binary, marked, page>>

None == 0
Versions == 1 .. MaxVersion

NoCheck == [at |-> "idle", info |-> None]
NoJob   == [at |-> "idle", v |-> None, good |-> TRUE, pid |-> 0]
NoPage  == [at |-> "idle", v |-> None, pid |-> 0]

Goroutine == {"download", "verify", "rename", "spawn"}
Script    == {"kill", "wait", "zap", "start"}

Serving == {p \in procs : p.st # "draining"}      \* those that listen

Active == {i \in Jobs : job[i].at # "idle"}

Init ==
  /\ may \in Environments
  /\ latest \in Versions
  /\ binary = 1
  /\ procs = {[pid |-> 1, v |-> 1, st |-> "up"]} /\ nextPid = 2
  /\ status = None /\ fresh = FALSE
  /\ check = [c \in Checks |-> NoCheck]
  /\ job = [i \in Jobs |-> NoJob]
  /\ marked = TRUE
  /\ page = NoPage

Publish ==
  /\ latest < MaxVersion
  /\ latest' = latest + 1
  /\ UNCHANGED <<may, procs, nextPid, status, fresh, check, job, binary, marked, page>>

-----------------------------------------------------------------------------
(* Checks.  A failed one is kept for five minutes too, and forgets the     *)
(* release that was known.                                                 *)

Expire ==
  /\ fresh /\ fresh' = FALSE
  /\ UNCHANGED <<may, latest, procs, nextPid, status, check, job, binary, marked, page>>

GoCheck(c, from, to, info) ==
  /\ check[c].at = from
  /\ check' = [check EXCEPT ![c] = [at |-> to, info |-> info]]

\* The cached status is read under the lock, which is then released.
Check(c) ==
  /\ Serving # {} /\ ~fresh
  /\ GoCheck(c, "idle", "fetch", None)
  /\ UNCHANGED <<may, latest, procs, nextPid, status, fresh, job, binary, marked, page>>

\* A bug: taking any release of the list.
FetchAnyRelease(c) ==
  /\ \E v \in 1 .. latest : GoCheck(c, "fetch", "store", v)
  /\ UNCHANGED <<may, latest, procs, nextPid, status, fresh, job, binary, marked, page>>

fetchLatestRelease(c) ==
  /\ \E info \in {latest} \cup (IF "fetch" \in may THEN {None} ELSE {}) :
       GoCheck(c, "fetch", "store", info)
  /\ UNCHANGED <<may, latest, procs, nextPid, status, fresh, job, binary, marked, page>>

StoreStatus(c) ==
  /\ GoCheck(c, "store", "idle", None)
  /\ status' = check[c].info /\ fresh' = TRUE
  /\ UNCHANGED <<may, latest, procs, nextPid, job, binary, marked, page>>

-----------------------------------------------------------------------------
(* Installs.                                                               *)

GoJob(i, from, to) ==
  /\ job[i].at = from
  /\ job' = [job EXCEPT ![i].at = to]

EndJob(i) == job' = [job EXCEPT ![i] = NoJob]

\* POST /system/update/install is answered at once; Install runs on, and ends
\* there if no release is known.
Install(i) ==
  /\ job[i].at = "idle"
  /\ "overlap" \in may \/ Active = {}
  /\ nextPid + Cardinality(Active) < MaxStarts    \* bound
  /\ \E p \in Serving :
       /\ job' = IF status = None THEN job
                 ELSE [job EXCEPT ![i] =
                         [at |-> "download", v |-> status, good |-> TRUE, pid |-> p.pid]]
       /\ page' \in {[at |-> "waiting", v |-> status, pid |-> p.pid]}
                    \cup (IF status = None THEN {} ELSE {page})    \* or from another page
  /\ page.at = "idle" \/ page' = page
  /\ UNCHANGED <<may, latest, procs, nextPid, status, fresh, check, binary, marked>>

Download(i) ==
  /\ GoJob(i, "download", "verify")
  /\ UNCHANGED <<may, latest, procs, nextPid, status, fresh, check, binary, marked, page>>

\* The transport did not notice that the contents are wrong.
DownloadCorrupt(i) ==
  /\ "corrupt" \in may /\ job[i].at = "download"
  /\ job' = [job EXCEPT ![i].at = "verify", ![i].good = FALSE]
  /\ UNCHANGED <<may, latest, procs, nextPid, status, fresh, check, binary, marked, page>>

\* verifySHA256, skipped for a release without a checksum.
Verify(i) ==
  /\ \/ (job[i].good \/ "noSum" \in may) /\ GoJob(i, "verify", "rename")
     \/ ~job[i].good /\ job[i].at = "verify" /\ EndJob(i)
  /\ UNCHANGED <<may, latest, procs, nextPid, status, fresh, check, binary, marked, page>>

Rename(i) ==
  /\ GoJob(i, "rename", "spawn")
  /\ binary' = IF job[i].good THEN job[i].v ELSE None
  /\ UNCHANGED <<may, latest, procs, nextPid, status, fresh, check, marked, page>>

Spawn(i) ==
  /\ \/ GoJob(i, "spawn", "kill")
     \/ "spawn" \in may /\ job[i].at = "spawn" /\ EndJob(i)
  /\ UNCHANGED <<may, latest, procs, nextPid, status, fresh, check, binary, marked, page>>

\* The temporary file is removed; the error goes to the log only.
InstallFails(i) ==
  /\ "download" \in may /\ job[i].at \in {"download", "verify", "rename"}
  /\ EndJob(i)
  /\ UNCHANGED <<may, latest, procs, nextPid, status, fresh, check, binary, marked, page>>

-----------------------------------------------------------------------------
(* The processes and the restart scripts.                                  *)

Forget ==
  /\ status' = None /\ fresh' = FALSE
  /\ check' = [c \in Checks |-> NoCheck]

\* A process that runs no program, or finds the port taken, ends at once.
StartProcess ==
  IF binary = None \/ Serving # {} THEN UNCHANGED <<procs, nextPid>>
  ELSE /\ procs' = procs \cup {[pid |-> nextPid, v |-> binary, st |-> "up"]}
       /\ nextPid' = nextPid + 1

Kill(i) ==
  /\ GoJob(i, "kill", "wait")
  /\ procs' = {IF p.pid = job[i].pid /\ p.st = "up" THEN [p EXCEPT !.st = "term"] ELSE p :
                 p \in procs}
  /\ UNCHANGED <<may, latest, nextPid, status, fresh, check, binary, marked, page>>

\* main wakes up; srv.Shutdown closes the listener first.
Shutdown(p) ==
  /\ p.st = "term"
  /\ procs' = (procs \ {p}) \cup {[p EXCEPT !.st = "draining"]}
  /\ Forget
  /\ UNCHANGED <<may, latest, nextPid, job, binary, marked, page>>

\* At the latest when the five seconds of srv.Shutdown are over.
Exit(p) ==
  /\ p.st = "draining"
  /\ procs' = procs \ {p}
  /\ job' = [i \in Jobs |-> IF job[i].at \in Goroutine /\ job[i].pid = p.pid
                            THEN NoJob ELSE job[i]]
  /\ UNCHANGED <<may, latest, nextPid, status, fresh, check, binary, marked, page>>

\* A bug: the script goes on before the process has gone.
WaitNot(i) ==
  /\ GoJob(i, "wait", "zap")
  /\ UNCHANGED <<may, latest, procs, nextPid, status, fresh, check, binary, marked, page>>

\* kill -0, for up to thirty seconds: longer than a shutdown takes.
Wait(i) ==
  /\ GoJob(i, "wait", "zap")
  /\ \A p \in procs : p.pid # job[i].pid
  /\ UNCHANGED <<may, latest, procs, nextPid, status, fresh, check, binary, marked, page>>

\* A bug: OpenRC keeps taking the service for started.
ZapNothing(i) ==
  /\ GoJob(i, "zap", "start")
  /\ UNCHANGED <<may, latest, procs, nextPid, status, fresh, check, binary, marked, page>>

Zap(i) ==
  /\ GoJob(i, "zap", "start")
  /\ marked' = FALSE
  /\ UNCHANGED <<may, latest, procs, nextPid, status, fresh, check, binary, page>>

\* A bug: the port is shared.
StartBeside(i) ==
  /\ job[i].at = "start" /\ EndJob(i)
  /\ marked' = TRUE
  /\ procs' = procs \cup {[pid |-> nextPid, v |-> binary, st |-> "up"]}
  /\ nextPid' = nextPid + 1
  /\ UNCHANGED <<may, latest, status, fresh, check, binary, page>>

\* rc-service start does nothing if the service is taken for started.
Start(i) ==
  /\ job[i].at = "start" /\ EndJob(i)
  /\ IF marked THEN UNCHANGED <<procs, nextPid>> ELSE StartProcess
  /\ marked' = (marked \/ binary # None)
  /\ UNCHANGED <<may, latest, status, fresh, check, binary, page>>

Crash ==
  /\ "crash" \in may
  /\ \E p \in procs :
       /\ procs' = procs \ {p}
       /\ job' = [i \in Jobs |-> IF job[i].at \in Goroutine /\ job[i].pid = p.pid
                                 THEN NoJob ELSE job[i]]
       /\ IF p.st = "draining" THEN UNCHANGED <<status, fresh, check>> ELSE Forget
  /\ UNCHANGED <<may, latest, nextPid, binary, marked, page>>

\* OpenRC starts the service when the router boots.
Boot ==
  /\ "boot" \in may /\ nextPid < MaxStarts    \* bound
  /\ job' = [i \in Jobs |-> NoJob]
  /\ procs' = IF binary = None THEN {} ELSE {[pid |-> nextPid, v |-> binary, st |-> "up"]}
  /\ nextPid' = nextPid + 1
  /\ marked' = (binary # None)
  /\ Forget
  /\ UNCHANGED <<may, latest, binary, page>>

-----------------------------------------------------------------------------
(* The page.                                                               *)

\* A bug: any answer counts as the service being back.
PollOnce ==
  /\ page.at \in {"waiting", "down"} /\ Serving # {}
  /\ page' = [page EXCEPT !.at = "done"]
  /\ UNCHANGED <<may, latest, procs, nextPid, status, fresh, check, job, binary, marked>>

\* /ping is answered after it once was not: the page reports success.
PollAnswered ==
  /\ page.at = "down" /\ Serving # {}
  /\ page' = [page EXCEPT !.at = "done"]
  /\ UNCHANGED <<may, latest, procs, nextPid, status, fresh, check, job, binary, marked>>

PollUnanswered ==
  /\ page.at = "waiting"
  /\ Serving = {} \/ "slow" \in may
  /\ page' = [page EXCEPT !.at = "down"]
  /\ UNCHANGED <<may, latest, procs, nextPid, status, fresh, check, job, binary, marked>>

\* The page is reloaded, by itself or by the user.
Reload ==
  /\ page.at # "idle" /\ Serving # {}
  /\ page' = NoPage
  /\ UNCHANGED <<may, latest, procs, nextPid, status, fresh, check, job, binary, marked>>

ScriptStep(i) == Spawn(i) \/ Kill(i) \/ Wait(i) \/ Zap(i) \/ Start(i)
Ending == \E p \in procs : Shutdown(p) \/ Exit(p)

Next ==
  \/ Publish
  \/ Expire
  \/ \E c \in Checks : Check(c)
  \/ \E c \in Checks : fetchLatestRelease(c)
  \/ \E c \in Checks : StoreStatus(c)
  \/ \E i \in Jobs : Install(i)
  \/ \E i \in Jobs : Download(i)
  \/ \E i \in Jobs : DownloadCorrupt(i)
  \/ \E i \in Jobs : Verify(i)
  \/ \E i \in Jobs : Rename(i)
  \/ \E i \in Jobs : InstallFails(i)
  \/ \E i \in Jobs : Spawn(i)
  \/ \E i \in Jobs : Kill(i)
  \/ \E i \in Jobs : Wait(i)
  \/ \E i \in Jobs : Zap(i)
  \/ \E i \in Jobs : Start(i)
  \/ \E p \in procs : Shutdown(p)
  \/ \E p \in procs : Exit(p)
  \/ Crash
  \/ Boot
  \/ PollAnswered
  \/ PollUnanswered
  \/ Reload

Spec == Init /\ [][Next]_vars

\* Scripts run on, and a process that was told to end does.
Fairness == WF_vars(Ending) /\ \A i \in Jobs : WF_vars(ScriptStep(i))

FairSpec == Spec /\ Fairness

-----------------------------------------------------------------------------
(* Properties.                                                             *)

TypeOK ==
  /\ may \in Environments
  /\ latest \in Versions
  /\ procs \subseteq [pid : 1 .. MaxStarts, v : Versions, st : {"up", "term", "draining"}]
  /\ nextPid \in 1 .. MaxStarts + 1 /\ \A p \in procs : p.pid < nextPid
  /\ Cardinality(Serving) <= 1
  /\ status \in {None} \cup Versions /\ fresh \in BOOLEAN
  /\ check \in [Checks -> [at : {"idle", "fetch", "store"}, info : {None} \cup Versions]]
  /\ job \in [Jobs -> [at : {"idle"} \cup Goroutine \cup Script, v : {None} \cup Versions,
                       good : BOOLEAN, pid : 0 .. MaxStarts]]
  /\ binary \in {None} \cup Versions
  /\ marked \in BOOLEAN
  /\ page \in [at : {"idle", "waiting", "down", "done"}, v : {None} \cup Versions,
               pid : 0 .. MaxStarts]

\* Checks may finish out of order and put an older release back in the status
\* (updater.go 84-95), but an install never carries one that is older than the
\* program that runs it: no process has been told of such a release.
InstallsNoOlder ==
  \A i \in Jobs, p \in procs :
    job[i].at \in Goroutine /\ job[i].pid = p.pid => job[i].v >= p.v

\* Once no install or script is under way, the program that runs is the one on
\* disk, through failed and corrupt downloads, crashes and boots, if the restart
\* script could be started and installs do not overlap.
RunsWhatIsInstalled ==
  may \cap {"spawn", "overlap"} = {} /\ Active = {} => \A p \in Serving : p.v = binary

\* The page reports success (app.js 172-178) only when another process serves
\* than when the user asked, if no ping was merely slow; and if nothing else goes
\* wrong either, one that runs the release he asked for, or a newer one.
SuccessMeansUpdated ==
  [][page.at # "done" /\ page'.at = "done" /\ "slow" \notin may =>
       \E p \in Serving :
         /\ p.pid > page.pid
         /\ may \subseteq {"fetch"} => p.v >= page.v]_vars

\* However many installs and scripts overlap, the service comes back after every
\* restart (updater.go 176-195), if it does not die by itself.
ServiceComesBack ==
  "crash" \notin may /\ "noSum" \notin may => []<>(Serving # {})
=============================================================================
