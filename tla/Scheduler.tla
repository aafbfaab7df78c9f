----------------------------- MODULE Scheduler -----------------------------
(***************************************************************************)
(* The panel's scheduler: a thread that wakes every few seconds, keeps the *)
(* next slot of the saved plan in bcw_schedule.json and starts a selection *)
(* run when that slot has come.  The plan is in the same file, and the     *)
(* handler of POST /api/bcw/schedule rewrites it in another thread: both   *)
(* read the whole file, change their part and write it back.               *)
(*                                                                         *)
(* Time is a number of ticks, Day of them a day; local time is without     *)
(* changes of the clock (TZ=UTC is the default).  One POST is in flight at *)
(* a time, and write_json's rename is atomic.                              *)
(***************************************************************************)
EXTENDS Integers, FiniteSets, FiniteSetsExt

CONSTANTS
    Day,        \* ticks of a day
    Steps,      \* the values of interval_min, in ticks
    Ats,        \* the values of `at`, in ticks after midnight
    DaySets,    \* the values of `days`: sets of 0..6
    MaxTime,    \* bound on the clock
    MaxPosts,   \* bound on the plans that are saved
    MaxCrashes  \* bound on the deaths of the panel

ASSUME TimeAssumption ==
    /\ Day \in Nat \ {0} /\ MaxTime \in Nat /\ MaxPosts \in Nat /\ MaxCrashes \in Nat
    /\ Steps \subseteq Nat \ {0} /\ Ats \subseteq 0..(Day - 1)
    /\ DaySets \subseteq (SUBSET (0..6) \ {{}})

None == -1

Modes ==
    [mode: {"off"}] \cup [mode: {"interval"}, step: Steps, onStart: BOOLEAN]
    \cup [mode: {"daily"}, at: Ats] \cup [mode: {"weekly"}, at: Ats, days: DaySets]

\* Times of slots.
Slots == {None} \cup Nat
Files == [plan: Modes, next: Slots, last: Slots]

Off == [mode |-> "off"]
Blank == [plan |-> Off, next |-> None, last |-> None]

VARIABLES
    now,
    file,       \* bcw_schedule.json: the plan, next_run and last_run
    sched,      \* what the scheduler does
    plan,       \* its `schedule`
    state,      \* its `state`
    taken,      \* the slot it took for a run, and when
    fired,      \* when it decided on the run that it started last
    post,       \* what the POST handler does
    posted,     \* the plan it was sent
    copy,       \* what it read of the file
    posts,      \* the POSTs so far
    stale,      \* some write has put back what another thread had changed
    torn,       \* the panel died between the two writes of a POST
    crashes

scheduler == <<sched, plan, state, taken, fired>>
handler == <<post, posted, copy, posts>>
vars == <<now, file, scheduler, handler, stale, torn, crashes>>

----------------------------------------------------------------------------
(* next_run_at and schedule_due                                            *)

\* last_run plus as many steps as it takes to get past now.
\* (AfterStep_CatchUp: plus one step.)
AfterStep_CatchUp(step, last) == last + step
AfterStep(step, last) == last + step * Max({1, (now - last) \div step + 1})

\* The first `at` after the anchor, today or in the eight days that follow.
AtOf(d, at) == d * Day + at
FirstAt(at, days, anchor) ==
    LET ahead == {AtOf(anchor \div Day + k, at) : k \in 0..8}
        good == {t \in ahead : t > anchor /\ (t \div Day) % 7 \in days}
    IN  IF good = {} THEN None ELSE Min(good)

NextRunAt(p, last) ==
    IF p.mode = "daily" THEN FirstAt(p.at, 0..6, Max({now, last}))
    ELSE IF p.mode = "weekly" THEN FirstAt(p.at, p.days, Max({now, last}))
    ELSE IF p.mode = "off" THEN None
    ELSE IF last # None THEN AfterStep(p.step, last)
    ELSE IF p.onStart THEN now ELSE now + p.step

Due(p, next) == p.mode # "off" /\ next # None /\ now >= next

----------------------------------------------------------------------------
(* _bcw_scheduler                                                          *)

\* A turn ends and its variables are gone.
EndTurn == sched' = "sleep" /\ plan' = Off /\ state' = Blank

LoadSchedule ==
    /\ sched = "sleep"
    /\ plan' = file.plan
    /\ sched' = "read"
    /\ UNCHANGED <<now, file, state, taken, fired, handler, stale, torn, crashes>>

\* The file is read again for next_run and last_run.
ReadState ==
    /\ sched = "read"
    /\ state' = file
    /\ sched' = "decide"
    /\ UNCHANGED <<now, file, plan, taken, fired, handler, stale, torn, crashes>>

\* write_json of what was read, with other slots.
Write(next, last) ==
    /\ file' = [state EXCEPT !.next = next, !.last = last]
    /\ stale' = (stale \/ state # file \/ plan # file.plan)

Disarm ==
    /\ sched = "decide" /\ plan.mode = "off"
    /\ IF state.next = None THEN UNCHANGED <<file, stale>> ELSE Write(None, state.last)
    /\ EndTurn
    /\ UNCHANGED <<now, taken, fired, handler, torn, crashes>>

Arm ==
    /\ sched = "decide" /\ plan.mode # "off" /\ state.next = None
    /\ Write(NextRunAt(plan, state.last), state.last)
    /\ EndTurn
    /\ UNCHANGED <<now, taken, fired, handler, torn, crashes>>

NotYet ==
    /\ sched = "decide" /\ plan.mode # "off" /\ state.next # None
    /\ ~Due(plan, state.next)
    /\ EndTurn
    /\ UNCHANGED <<now, file, taken, fired, handler, stale, torn, crashes>>

\* The slot has come: it is written off before the run is started.
\* (Advance_Keep: last_run is set and next_run is not.)
Advance_Keep ==
    /\ sched = "decide" /\ Due(plan, state.next)
    /\ Write(state.next, state.next)
    /\ taken' = [slot |-> state.next, at |-> now]
    /\ sched' = "fire"
    /\ UNCHANGED <<now, plan, state, fired, handler, torn, crashes>>
Advance ==
    /\ sched = "decide" /\ Due(plan, state.next)
    /\ Write(NextRunAt(plan, state.next), state.next)
    /\ taken' = [slot |-> state.next, at |-> now]
    /\ sched' = "fire"
    /\ UNCHANGED <<now, plan, state, fired, handler, torn, crashes>>

\* bcw_start_run, which may refuse: then the slot has passed without a run.
Fire ==
    /\ sched = "fire"
    /\ fired' = taken.at
    /\ taken' = [slot |-> None, at |-> None]
    /\ EndTurn
    /\ UNCHANGED <<now, file, handler, stale, torn, crashes>>

SchedulerStep ==
    LoadSchedule \/ ReadState \/ Disarm \/ Arm \/ NotYet \/ Advance \/ Fire

----------------------------------------------------------------------------
(* POST /api/bcw/schedule, with a plan that normalize_schedule accepts     *)

EndPost == post' = "idle" /\ posted' = Off /\ copy' = Blank

PostRead ==
    /\ post = "idle" /\ posts < MaxPosts
    /\ posts' = posts + 1
    /\ posted' \in Modes
    /\ copy' = file
    /\ post' = "save"
    /\ UNCHANGED <<now, file, scheduler, stale, torn, crashes>>

PostSave ==
    /\ post = "save"
    /\ file' = [copy EXCEPT !.plan = posted]
    /\ stale' = (stale \/ copy # file)
    /\ post' = "read again" /\ posted' = Off /\ copy' = Blank
    /\ UNCHANGED <<now, scheduler, posts, torn, crashes>>

PostReadAgain ==
    /\ post = "read again"
    /\ copy' = file
    /\ post' = "rearm"
    /\ UNCHANGED <<now, file, posted, posts, scheduler, stale, torn, crashes>>

\* next_run is dropped, for the next tick to compute it.
\* (PostRearm_Keep: it is left.)
PostRearm_Keep ==
    /\ post = "rearm"
    /\ EndPost
    /\ UNCHANGED <<now, file, scheduler, posts, stale, torn, crashes>>
PostRearm ==
    /\ post = "rearm"
    /\ file' = [copy EXCEPT !.next = None]
    /\ stale' = (stale \/ copy # file)
    /\ torn' = FALSE
    /\ EndPost
    /\ UNCHANGED <<now, scheduler, posts, crashes>>

----------------------------------------------------------------------------

Tick ==
    /\ now < MaxTime
    /\ now' = now + 1
    /\ UNCHANGED <<file, scheduler, handler, stale, torn, crashes>>

\* The panel dies and is restarted; the file is all that it keeps.
Crash ==
    /\ crashes < MaxCrashes
    /\ crashes' = crashes + 1
    /\ EndTurn /\ EndPost
    /\ taken' = [slot |-> None, at |-> None]
    /\ torn' = (torn \/ post \in {"read again", "rearm"})
    /\ UNCHANGED <<now, file, fired, posts, stale>>

Init ==
    /\ now = 0
    /\ file = Blank
    /\ sched = "sleep" /\ plan = Off /\ state = Blank
    /\ post = "idle" /\ posted = Off /\ copy = Blank /\ posts = 0
    /\ taken = [slot |-> None, at |-> None] /\ fired = None
    /\ stale = FALSE /\ torn = FALSE /\ crashes = 0

Next ==
    \/ SchedulerStep
    \/ PostRead \/ PostSave \/ PostReadAgain \/ PostRearm
    \/ Tick \/ Crash

\* The scheduler's thread is never stopped: an exception ends only its turn.
Spec == Init /\ [][Next]_vars /\ WF_vars(SchedulerStep)

----------------------------------------------------------------------------
(* What the scheduler promises                                             *)

TypeOK ==
    /\ now \in 0..MaxTime
    /\ file \in Files /\ state \in Files /\ copy \in Files
    /\ plan \in Modes /\ posted \in Modes
    /\ sched \in {"sleep", "read", "decide", "fire"}
    /\ post \in {"idle", "save", "read again", "rearm"} /\ posts \in 0..MaxPosts
    /\ taken \in [slot: Slots, at: Slots] /\ fired \in Slots
    /\ stale \in BOOLEAN /\ torn \in BOOLEAN /\ crashes \in 0..MaxCrashes

\* "A long outage never produces a burst of catch-up runs" (blockcheck.py:409):
\* as long as no write was lost, a run is started for a slot that came after
\* the previous run was decided on.  So no slot is run twice, also when the
\* plan is changed or the panel dies between its write and its run.
NoBurst ==
    [][Fire => stale \/ taken.slot > fired]_vars

\* The slot in the file is one of the plan in the file: of its hour, of its
\* days, a whole number of steps after the last run, and none when it is off -
\* as long as no write was lost and no POST is half done (panel.py:1253-1258).
OnPlan(p, next, last) ==
    /\ p.mode # "off"
    /\ p.mode \in {"daily", "weekly"} => next % Day = p.at
    /\ p.mode = "weekly" => (next \div Day) % 7 \in p.days
    /\ p.mode = "interval" => last = None \/ (next - last) % p.step = 0
ArmedForPlan ==
    ~stale /\ ~torn /\ post \in {"idle", "save"} /\ file.next # None =>
        OnPlan(file.plan, file.next, file.last)

\* A slot that has come does not stay: it is run, or dropped with its plan
\* (panel.py:1020-1029), however often the plan is rewritten meanwhile.
DueMoves == \A s \in 0..MaxTime : (file.next = s /\ now >= s) ~> (file.next # s)

=============================================================================
