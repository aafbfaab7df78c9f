------------------------------- MODULE BcwJob -------------------------------
(***************************************************************************)
(* A strategy-selection run.  The panel starts the harness wz-bcw.sh in a  *)
(* process group of its own, keeps what it knows of the run in the job     *)
(* record state/bcw/bcw_job.json, and waits for the harness in a collector *)
(* thread.  The harness checks that NFQUEUE 200 is free, takes bcw.lock    *)
(* and runs the engine blockcheck.py, which runs blockcheckw: the scanner, *)
(* an external program that binds the queue.                               *)
(*                                                                         *)
(* The start and the cancellation of a run hold the panel's _BCW_LOCK; the *)
(* collectors and the overview (GET /api/bcw) read and write the record    *)
(* without it.  A pid is written as the number of the run it was given to. *)
(***************************************************************************)
EXTENDS Naturals

CONSTANTS
    MaxRuns,        \* bound on the runs that are started
    MaxSteps,       \* the scans and checks of a run, one blockcheckw each
    MaxCrashes      \* bound on the number of deaths of the container

ASSUME BoundsAssumption == MaxRuns \in Nat /\ MaxSteps \in Nat /\ MaxCrashes \in Nat

Runs == 1..MaxRuns

VARIABLES
    rec,        \* the job record
    last,       \* the run in bcw_last.json (0: none)
    bcwMutex,   \* _BCW_LOCK: "free", "start" or "cancel"
    pc,         \* the panel's thread that starts, then collects, each run
    proc,       \* the process group of each harness
    scanner,    \* the blockcheckw of each run
    steps,      \* how many of them the run has started
    bcwLock,    \* the runs whose harness holds bcw.lock
    result,     \* the result.json of each run
    overview,   \* the record an overview has read and not yet judged
    cancel,     \* the record a cancellation works on, and its next step
    foreign,    \* pids that belong to another process since the last crash
    crashes

panel == <<bcwMutex, pc, overview, cancel>>
harness == <<proc, scanner, steps, bcwLock, result>>
vars == <<rec, last, panel, harness, foreign, crashes>>

JobStates == {"none", "running", "cancelling", "lost", "done", "error"}
Records == [state: JobStates, run: 0..MaxRuns, pid: 0..MaxRuns]   \* pid 0: None
NoJob == [state |-> "none", run |-> 0, pid |-> 0]

Started == {i \in Runs : pc[i] # "none"}

\* pid_alive.  A harness that has exited has its pid until the panel waits for it.
\* (Alive_Recorded: a pid that was given out counts as alive.)
Alive_Recorded(p) == p # 0
Alive(p) == p # 0 /\ (p \in foreign \/ proc[p] \notin {"none", "reaped"})

QueueBusy == \E i \in Runs : scanner[i] \in {"bound", "cleaning"}

----------------------------------------------------------------------------
(* bcw_start_run.  The first save has no pid yet; a start that is refused  *)
(* changes nothing.                                                        *)

StartClaim(i) ==
    /\ bcwMutex = "free"
    /\ pc[i] = "none"
    /\ \A j \in Runs : j < i => j \in Started
    /\ ~(rec.state = "running" /\ Alive(rec.pid))
    /\ bcwMutex' = "start"
    /\ rec' = [state |-> "running", run |-> i, pid |-> 0]
    /\ pc' = [pc EXCEPT ![i] = "claimed"]
    /\ UNCHANGED <<last, overview, cancel, harness, foreign, crashes>>

\* Popen, which may fail.
StartSpawn(i) ==
    /\ pc[i] = "claimed"
    /\ \/ /\ proc' = [proc EXCEPT ![i] = "preflight"]
          /\ pc' = [pc EXCEPT ![i] = "spawned"]
          /\ UNCHANGED <<rec, bcwMutex>>
       \/ /\ rec' = [state |-> "error", run |-> i, pid |-> 0]
          /\ pc' = [pc EXCEPT ![i] = "ended"]
          /\ bcwMutex' = "free"
          /\ UNCHANGED proc
    /\ UNCHANGED <<last, overview, cancel, scanner, steps, bcwLock, result, foreign, crashes>>

StartPid(i) ==
    /\ pc[i] = "spawned"
    /\ rec' = [state |-> "running", run |-> i, pid |-> i]
    /\ pc' = [pc EXCEPT ![i] = "reading"]
    /\ bcwMutex' = "free"
    /\ UNCHANGED <<last, overview, cancel, harness, foreign, crashes>>

----------------------------------------------------------------------------
(* _bcw_collect, without the lock, with the record it was given            *)

\* The end of the harness's output, then wait.
CollectWait(i) ==
    /\ pc[i] = "reading"
    /\ proc[i] = "gone"
    /\ proc' = [proc EXCEPT ![i] = "reaped"]
    /\ pc' = [pc EXCEPT ![i] = "waited"]
    /\ UNCHANGED <<rec, last, bcwMutex, overview, cancel, scanner, steps, bcwLock, result,
                   foreign, crashes>>

\* The state it records, from the output or else from result.json.
\* (Outcome_Exited: done whatever the result.)
Outcome_Exited(i) == "done"
Outcome(i) == IF result[i] = "ok" THEN "done" ELSE "error"

CollectSave(i) ==
    /\ pc[i] = "waited"
    /\ rec' = [state |-> Outcome(i), run |-> i, pid |-> i]
    /\ pc' = [pc EXCEPT ![i] = "saved"]
    /\ UNCHANGED <<last, bcwMutex, overview, cancel, harness, foreign, crashes>>

\* bcw_last.json.  The automatic import that may follow raises an exception.
CollectLast(i) ==
    /\ pc[i] = "saved"
    /\ last' = IF result[i] = "ok" THEN i ELSE last
    /\ pc' = [pc EXCEPT ![i] = "ended"]
    /\ UNCHANGED <<rec, bcwMutex, overview, cancel, harness, foreign, crashes>>

PanelStep(i) ==
    \/ StartSpawn(i) \/ StartPid(i)
    \/ CollectWait(i) \/ CollectSave(i) \/ CollectLast(i)

----------------------------------------------------------------------------
(* bcw_overview, without the lock.  Once a process is gone it stays gone,  *)
(* so that the test and the save may be one step.                          *)

OverviewRead ==
    /\ overview = NoJob
    /\ rec.state = "running"
    /\ overview' = rec
    /\ UNCHANGED <<rec, last, bcwMutex, pc, cancel, harness, foreign, crashes>>

\* (OverviewSave_Refresh: it also writes a record back that is still running.)
OverviewSave_Refresh ==
    /\ overview # NoJob
    /\ overview' = NoJob
    /\ rec' = IF Alive(overview.pid) THEN overview ELSE [overview EXCEPT !.state = "lost"]
    /\ UNCHANGED <<last, bcwMutex, pc, cancel, harness, foreign, crashes>>

OverviewSave ==
    /\ overview # NoJob
    /\ overview' = NoJob
    /\ rec' = IF Alive(overview.pid) THEN rec ELSE [overview EXCEPT !.state = "lost"]
    /\ UNCHANGED <<last, bcwMutex, pc, cancel, harness, foreign, crashes>>

----------------------------------------------------------------------------
(* bcw_cancel                                                              *)

NoCancel == [step |-> "none", job |-> NoJob]

CancelCheck ==
    /\ bcwMutex = "free"
    /\ rec.state = "running"
    /\ Alive(rec.pid)
    /\ bcwMutex' = "cancel"
    /\ cancel' = [step |-> "kill", job |-> rec]
    /\ UNCHANGED <<rec, last, pc, overview, harness, foreign, crashes>>

\* What SIGTERM leaves of a harness's process group: the shell and the engine
\* die, and with them the lock and the pipe; a scanner that has bound the queue
\* cleans up first.  (Signalled_Child: only the engine dies, not the shell.)
Signalled_Child(i) == IF proc[i] = "engine" THEN "reporting" ELSE proc[i]
Signalled(i) == "gone"

CancelKill ==
    /\ cancel.step = "kill"
    /\ LET i == cancel.job.pid
       IN  \/ /\ proc[i] \notin {"none", "reaped"}
              /\ proc' = [proc EXCEPT ![i] = Signalled(i)]
              /\ scanner' = [scanner EXCEPT ![i] =
                                IF scanner[i] \in {"bound", "cleaning"} THEN "cleaning" ELSE "none"]
              /\ bcwLock' = bcwLock \ {i}
              /\ cancel' = [cancel EXCEPT !.step = "save"]
              /\ UNCHANGED <<bcwMutex, foreign>>
           \/ /\ i \in foreign
              /\ foreign' = foreign \ {i}
              /\ cancel' = [cancel EXCEPT !.step = "save"]
              /\ UNCHANGED <<bcwMutex, proc, scanner, bcwLock>>
           \/ /\ ~Alive(i)                  \* "process already gone"
              /\ cancel' = NoCancel
              /\ bcwMutex' = "free"
              /\ UNCHANGED <<proc, scanner, bcwLock, foreign>>
    /\ UNCHANGED <<rec, last, pc, overview, steps, result, crashes>>

CancelSave ==
    /\ cancel.step = "save"
    /\ rec' = [cancel.job EXCEPT !.state = "cancelling"]
    /\ cancel' = NoCancel
    /\ bcwMutex' = "free"
    /\ UNCHANGED <<last, pc, overview, harness, foreign, crashes>>

----------------------------------------------------------------------------
(* wz-bcw.sh and blockcheck.py                                             *)

\* The preflight may fail for other reasons than the queue.
Preflight(i) ==
    /\ proc[i] = "preflight"
    /\ \E next \in {"reporting"} \cup (IF QueueBusy THEN {} ELSE {"locking"}) :
          proc' = [proc EXCEPT ![i] = next]
    /\ UNCHANGED <<rec, last, panel, scanner, steps, bcwLock, result, foreign, crashes>>

\* flock -w 30
\* (TakeLock_Busy: a harness that goes on when flock fails.)
TakeLock_Busy(i) ==
    /\ proc[i] = "locking"
    /\ bcwLock' = bcwLock \cup {i}
    /\ proc' = [proc EXCEPT ![i] = "engine"]
    /\ UNCHANGED <<rec, last, panel, scanner, steps, result, foreign, crashes>>

TakeLock(i) ==
    /\ proc[i] = "locking"
    /\ bcwLock = {}
    /\ bcwLock' = {i}
    /\ proc' = [proc EXCEPT ![i] = "engine"]
    /\ UNCHANGED <<rec, last, panel, scanner, steps, result, foreign, crashes>>

LockBusy(i) ==
    /\ proc[i] = "locking"
    /\ bcwLock # {}
    /\ proc' = [proc EXCEPT ![i] = "reporting"]
    /\ UNCHANGED <<rec, last, panel, scanner, steps, bcwLock, result, foreign, crashes>>

\* _run_step starts a scan or a check of one domain ...
Scan(i) ==
    /\ proc[i] = "engine"
    /\ scanner[i] = "none"
    /\ steps[i] < MaxSteps
    /\ steps' = [steps EXCEPT ![i] = @ + 1]
    /\ scanner' = [scanner EXCEPT ![i] = "up"]
    /\ UNCHANGED <<rec, last, panel, proc, bcwLock, result, foreign, crashes>>

\* ... which binds the queue ...
Bind(i) ==
    /\ scanner[i] = "up"
    /\ scanner' = [scanner EXCEPT ![i] = "bound"]
    /\ UNCHANGED <<rec, last, panel, proc, steps, bcwLock, result, foreign, crashes>>

\* ... and ends, if only by the timeout of _run_step.
\* (ScanEnd_Never: a step without a timeout that hangs.)
ScanEnd_Never(i) == FALSE /\ UNCHANGED vars
ScanEnd(i) ==
    /\ scanner[i] \in {"up", "bound"}
    /\ scanner' = [scanner EXCEPT ![i] = "none"]
    /\ UNCHANGED <<rec, last, panel, proc, steps, bcwLock, result, foreign, crashes>>

\* The engine writes result.json, where ok says that some scan succeeded; a
\* failed scan skips its check, so any number of steps may have been taken.
WriteResult(i) ==
    /\ proc[i] = "engine"
    /\ scanner[i] = "none"
    /\ \E r \in {"failed"} \cup (IF steps[i] = 0 THEN {} ELSE {"ok"}) :
          result' = [result EXCEPT ![i] = r]
    /\ proc' = [proc EXCEPT ![i] = "reporting"]
    /\ bcwLock' = bcwLock \ {i}
    /\ UNCHANGED <<rec, last, panel, scanner, steps, foreign, crashes>>

\* The result or an error goes to the panel's pipe; the shell exits.
Report(i) ==
    /\ proc[i] = "reporting"
    /\ proc' = [proc EXCEPT ![i] = "gone"]
    /\ UNCHANGED <<rec, last, panel, scanner, steps, bcwLock, result, foreign, crashes>>

HarnessStep(i) ==
    \/ Preflight(i) \/ TakeLock(i) \/ LockBusy(i)
    \/ Scan(i) \/ WriteResult(i) \/ Report(i)

\* A scanner that was signalled lets go of the queue.
Cleaned(i) ==
    /\ scanner[i] = "cleaning"
    /\ scanner' = [scanner EXCEPT ![i] = "none"]
    /\ UNCHANGED <<rec, last, panel, proc, steps, bcwLock, result, foreign, crashes>>

----------------------------------------------------------------------------
\* The container restarts: every process and thread is gone, the state volume
\* stays, and pids are given out anew.
Crash ==
    /\ crashes < MaxCrashes
    /\ crashes' = crashes + 1
    /\ proc' = [i \in Runs |-> IF proc[i] = "none" THEN "none" ELSE "reaped"]
    /\ pc' = [i \in Runs |-> IF pc[i] = "none" THEN "none" ELSE "ended"]
    /\ scanner' = [i \in Runs |-> "none"]
    /\ bcwLock' = {}
    /\ bcwMutex' = "free"
    /\ overview' = NoJob
    /\ cancel' = NoCancel
    /\ foreign' \in SUBSET {i \in Runs : proc[i] # "none"}
    /\ UNCHANGED <<rec, last, steps, result>>

Init ==
    /\ rec = NoJob
    /\ last = 0
    /\ bcwMutex = "free"
    /\ pc = [i \in Runs |-> "none"]
    /\ proc = [i \in Runs |-> "none"]
    /\ scanner = [i \in Runs |-> "none"]
    /\ steps = [i \in Runs |-> 0]
    /\ bcwLock = {}
    /\ result = [i \in Runs |-> "none"]
    /\ overview = NoJob
    /\ cancel = NoCancel
    /\ foreign = {}
    /\ crashes = 0

Next ==
    \/ \E i \in Runs :
          StartClaim(i) \/ PanelStep(i) \/ HarnessStep(i) \/ Bind(i) \/ ScanEnd(i) \/ Cleaned(i)
    \/ OverviewRead \/ OverviewSave
    \/ CancelCheck \/ CancelKill \/ CancelSave
    \/ Crash

\* Threads and processes are scheduled, and their waits are bounded: flock -w,
\* the timeout of _run_step, the ends of the pipes they read.
Fairness ==
    /\ \A i \in Runs : WF_vars(PanelStep(i)) /\ WF_vars(HarnessStep(i)) /\ WF_vars(ScanEnd(i))
    /\ WF_vars(CancelKill \/ CancelSave)

Spec == Init /\ [][Next]_vars /\ Fairness

----------------------------------------------------------------------------
(* Properties                                                              *)

TypeOK ==
    /\ rec \in Records
    /\ last \in 0..MaxRuns
    /\ bcwMutex \in {"free", "start", "cancel"}
    /\ pc \in [Runs -> {"none", "claimed", "spawned", "reading", "waited", "saved", "ended"}]
    /\ proc \in [Runs -> {"none", "preflight", "locking", "engine", "reporting", "gone", "reaped"}]
    /\ scanner \in [Runs -> {"none", "up", "bound", "cleaning"}]
    /\ steps \in [Runs -> 0..MaxSteps]
    /\ bcwLock \subseteq Runs
    /\ result \in [Runs -> {"none", "failed", "ok"}]
    /\ overview \in Records
    /\ cancel \in [step: {"none", "kill", "save"}, job: Records]
    /\ foreign \subseteq Runs
    /\ crashes \in 0..MaxCrashes

\* Two scanners never run at once, unless one has been told to stop: bcw.lock
\* keeps the engines apart even when the record has lost one of them.
ScannersApart ==
    \A i, j \in Runs : i # j =>
        ~(scanner[i] \in {"up", "bound"} /\ scanner[j] \in {"up", "bound"})

\* A record that says "running" is the newest run's, however late a collector,
\* an overview or a cancellation of an older run writes: what Cancel signals
\* and what refuses a start is never a run of the past.
RunningIsNewest ==
    rec.state = "running" => \A j \in Started : j <= rec.run

\* A run that is recorded as done, and the run in bcw_last.json, has a result
\* in which a scan succeeded, whoever was killed or overwritten on the way.
OutcomeIsReal ==
    /\ rec.state = "done" => result[rec.run] = "ok"
    /\ last # 0 => result[last] = "ok"

\* When the record says "cancelling", nothing of that run's harness is left
\* that could still scan or report.
CancelledIsDead ==
    rec.state = "cancelling" => proc[rec.run] \in {"gone", "reaped"}

\* Every run that was started is collected: its thread ends and its process is
\* waited for, though scans hang, a cancellation strikes or the lock is busy.
EveryRunCollected ==
    \A i \in Runs : pc[i] # "none" ~> pc[i] = "ended" /\ proc[i] \in {"none", "reaped"}

\* A record never refuses starts for ever, the record of a container that died
\* mid-run included, unless its pid now belongs to another process.
Blocked == rec.state = "running" /\ Alive(rec.pid)
Unblocks == Blocked /\ rec.pid \notin foreign ~> ~Blocked \/ rec.pid \in foreign

----------------------------------------------------------------------------
(* What the documentation says and the code does not do                    *)

\* "POST /api/bcw/cancel - stop the running selection": a selection that runs
\* and was not told to stop is the one in the record, which Cancel looks at.
RunningIsVisible ==
    \A i \in Runs :
        pc[i] = "reading" /\ proc[i] = "engine" => rec.state = "running" /\ rec.pid = i
=============================================================================
