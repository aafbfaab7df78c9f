---------------------------- MODULE SchedulerProofs ---------------------------
(***************************************************************************)
(* Proofs about Scheduler: the slot in the file is one of the plan in the  *)
(* file, and no slot is run after a run that came later.                   *)
(***************************************************************************)
EXTENDS Scheduler, TLAPS

-----------------------------------------------------------------------------
(* Arithmetic of slots                                                     *)

\* Quotient and remainder.
LEMMA Division ==
    ASSUME NEW a \in Int, NEW b \in Nat \ {0}
    PROVE  /\ a \div b \in Int /\ a % b \in 0..(b - 1)
           /\ a = b * (a \div b) + (a % b)
OBVIOUS

\* A number is divided in one way only.
LEMMA Unique ==
    ASSUME NEW b \in Nat \ {0}, NEW q \in Int, NEW r \in 0..(b - 1)
    PROVE  (b * q + r) % b = r /\ (b * q + r) \div b = q
<1> DEFINE a == b * q + r
<1>1. a \in Int OBVIOUS
<1>2. a \div b \in Int /\ a % b \in 0..(b-1) /\ a = b * (a \div b) + (a % b) BY <1>1, Division
<1> DEFINE d == a \div b
<1>3. b * (d - q) = r - (a % b) BY <1>1, <1>2
<1>4. d - q <= 0
  <2>1. SUFFICES ASSUME d - q >= 1 PROVE FALSE BY <1>2
  <2>2. b * (d - q) >= b BY <1>2, <2>1
  <2> QED BY <1>2, <1>3, <2>2
<1>5. d - q >= 0
  <2>1. SUFFICES ASSUME d - q <= -1 PROVE FALSE BY <1>2
  <2>2. b * (d - q) <= -b BY <1>2, <2>1
  <2> QED BY <1>2, <1>3, <2>2
<1> QED BY <1>2, <1>4, <1>5

\* The greater of two.
LEMMA MaxOfTwo ==
    ASSUME NEW a \in Int, NEW b \in Int
    PROVE  Max({a, b}) \in {a, b} /\ Max({a, b}) >= a /\ Max({a, b}) >= b
BY DEF Max

\* Of some of the days ahead there is a first.
LEMMA FirstOf ==
    ASSUME NEW K \in SUBSET (0..8), K # {}
    PROVE  \E k \in K : \A j \in K : k <= j
<1>1. \A k \in K : k \in {0, 1, 2, 3, 4, 5, 6, 7, 8}
      OBVIOUS
<1>2. CASE 0 \in K
      BY <1>1, <1>2
<1>3. CASE 0 \notin K /\ 1 \in K
      BY <1>1, <1>3
<1>4. CASE {0, 1} \cap K = {} /\ 2 \in K
      BY <1>1, <1>4
<1>5. CASE {0, 1, 2} \cap K = {} /\ 3 \in K
      BY <1>1, <1>5
<1>6. CASE {0, 1, 2, 3} \cap K = {} /\ 4 \in K
      BY <1>1, <1>6
<1>7. CASE {0, 1, 2, 3, 4} \cap K = {} /\ 5 \in K
      BY <1>1, <1>7
<1>8. CASE {0, 1, 2, 3, 4, 5} \cap K = {} /\ 6 \in K
      BY <1>1, <1>8
<1>9. CASE {0, 1, 2, 3, 4, 5, 6} \cap K = {}
  <2>1. \A k \in K : k \in {7, 8}
        BY <1>1, <1>9
  <2>2. CASE 7 \in K
        BY <2>1, <2>2
  <2>3. CASE 7 \notin K
    <3>1. \A k \in K : k = 8
          BY <2>1, <2>3
    <3>2. PICK k \in K : k = 8
          BY <3>1
    <3> QED BY <3>1, <3>2
  <2> QED BY <2>2, <2>3
<1> QED BY <1>2, <1>3, <1>4, <1>5, <1>6, <1>7, <1>8, <1>9

\* A whole number of steps after the last run, and past now.
LEMMA StepIsPast ==
    ASSUME now \in Nat, NEW step \in Nat \ {0}, NEW last \in Nat
    PROVE  /\ AfterStep(step, last) \in Nat /\ AfterStep(step, last) > now
           /\ (AfterStep(step, last) - last) % step = 0
<1> DEFINE q == (now - last) \div step
           k == Max({1, q + 1})
<1>1. q \in Int /\ now - last < step * q + step
  <2>1. now - last \in Int
        OBVIOUS
  <2>2. /\ q \in Int /\ (now - last) % step \in 0..(step - 1)
        /\ now - last = step * q + ((now - last) % step)
        BY <2>1, Division
  <2> HIDE DEF q
  <2> QED BY <2>2
<1> HIDE DEF q
<1>2. k \in Int /\ k >= 1 /\ k >= q + 1
      BY <1>1, MaxOfTwo
<1> HIDE DEF k
<1>3. step * k \in Nat /\ step * k >= step * (q + 1) /\ step * (q + 1) = step * q + step
      BY <1>1, <1>2
<1>4. AfterStep(step, last) = last + step * k
      BY DEF AfterStep, k, q
<1>5. (step * k + 0) % step = 0
      BY <1>2, Unique
<1>6. AfterStep(step, last) - last = step * k + 0
      BY <1>3, <1>4
<1>7. AfterStep(step, last) \in Nat /\ AfterStep(step, last) > now
      BY <1>1, <1>3, <1>4
<1> QED BY <1>5, <1>6, <1>7

\* The hour and the day of a slot.
LEMMA FirstIsThen ==
    ASSUME NEW at \in 0..(Day - 1), NEW days, NEW anchor \in Nat, FirstAt(at, days, anchor) # None
    PROVE  /\ FirstAt(at, days, anchor) \in Nat /\ FirstAt(at, days, anchor) > anchor
           /\ FirstAt(at, days, anchor) % Day = at
           /\ (FirstAt(at, days, anchor) \div Day) % 7 \in days
<1> DEFINE d == anchor \div Day
           ahead == {AtOf(d + k, at) : k \in 0..8}
           good == {t \in ahead : t > anchor /\ (t \div Day) % 7 \in days}
           K == {k \in 0..8 : AtOf(d + k, at) \in good}
<1>1. Day \in Nat \ {0} /\ d \in Int
      BY TimeAssumption, Division
<1> HIDE DEF d
<1>2. \A j \in Int : AtOf(d + j, at) \in Int /\ AtOf(d + j, at) % Day = at
  <2> TAKE j \in Int
  <2>1. (Day * (d + j) + at) % Day = at
        BY <1>1, Unique
  <2>2. AtOf(d + j, at) = Day * (d + j) + at /\ AtOf(d + j, at) \in Int
        BY <1>1 DEF AtOf
  <2> QED BY <2>1, <2>2
<1>3. \A k, j \in 0..8 : k <= j => AtOf(d + k, at) <= AtOf(d + j, at)
  <2> SUFFICES ASSUME NEW k \in 0..8, NEW j \in 0..8, k <= j
               PROVE  AtOf(d + k, at) <= AtOf(d + j, at)
      OBVIOUS
  <2>1. (d + j) * Day = (d + k) * Day + (j - k) * Day /\ (j - k) * Day >= 0
        BY <1>1
  <2> QED BY <1>1, <2>1 DEF AtOf
<1>4. good # {} /\ FirstAt(at, days, anchor) = Min(good)
      BY DEF FirstAt, d
<1>5. \E x \in good : \A y \in good : x <= y
  <2>1. K # {} /\ K \in SUBSET (0..8)
        BY <1>4
  <2>2. PICK k \in K : \A j \in K : k <= j
        BY <2>1, FirstOf
  <2>3. AtOf(d + k, at) \in good
        OBVIOUS
  <2>4. ASSUME NEW y \in good PROVE AtOf(d + k, at) <= y
    <3>1. PICK j \in 0..8 : y = AtOf(d + j, at)
          OBVIOUS
    <3>2. j \in K
          BY <2>4, <3>1
    <3> HIDE DEF good, ahead
    <3> QED BY <1>3, <2>2, <3>1, <3>2
  <2> QED BY <2>3, <2>4
<1>6. Min(good) \in good
      BY <1>5 DEF Min
<1>7. Min(good) \in ahead /\ Min(good) > anchor /\ (Min(good) \div Day) % 7 \in days
      BY <1>6
<1> HIDE DEF good
<1>8. Min(good) \in Int /\ Min(good) % Day = at
      BY <1>2, <1>7
<1> QED BY <1>4, <1>7, <1>8

\* What a plan holds.
LEMMA PlanType ==
    ASSUME NEW p \in Modes
    PROVE  /\ p.mode \in {"off", "interval", "daily", "weekly"}
           /\ p.mode = "interval" => p.step \in Steps
           /\ p.mode \in {"daily", "weekly"} => p.at \in Ats
           /\ p.mode = "weekly" => p.days \in DaySets
BY DEF Modes

\* The next slot lies past now, or is now if there was no run yet, and is one of the plan.
LEMMA NextIsOnPlan ==
    ASSUME now \in Nat, NEW p \in Modes, NEW last \in Slots, NextRunAt(p, last) # None
    PROVE  /\ NextRunAt(p, last) \in Nat
           /\ NextRunAt(p, last) > now \/ (last = None /\ NextRunAt(p, last) >= now)
           /\ OnPlan(p, NextRunAt(p, last), last)
<1>0. /\ p.mode \in {"off", "interval", "daily", "weekly"}
      /\ Max({now, last}) \in Nat /\ Max({now, last}) >= now
  <2>1. now \in Int /\ last \in Int
        BY DEF Slots, None
  <2>2. Max({now, last}) \in {now, last} /\ Max({now, last}) >= now
        BY <2>1, MaxOfTwo
  <2> QED BY <2>1, <2>2, PlanType
<1>1. CASE p.mode = "off"
      BY <1>1 DEF NextRunAt
<1>2. CASE p.mode = "daily"
  <2>1. p.at \in 0..(Day - 1)
        BY <1>2, PlanType, TimeAssumption
  <2>2. NextRunAt(p, last) = FirstAt(p.at, 0..6, Max({now, last}))
        BY <1>2 DEF NextRunAt
  <2>3. /\ NextRunAt(p, last) \in Nat /\ NextRunAt(p, last) > Max({now, last})
        /\ NextRunAt(p, last) % Day = p.at
        BY <1>0, <2>1, <2>2, FirstIsThen
  <2> QED BY <1>0, <1>2, <2>3 DEF OnPlan
<1>3. CASE p.mode = "weekly"
  <2>1. p.at \in 0..(Day - 1)
        BY <1>3, PlanType, TimeAssumption
  <2>2. NextRunAt(p, last) = FirstAt(p.at, p.days, Max({now, last}))
        BY <1>3 DEF NextRunAt
  <2>3. /\ NextRunAt(p, last) \in Nat /\ NextRunAt(p, last) > Max({now, last})
        /\ NextRunAt(p, last) % Day = p.at
        /\ (NextRunAt(p, last) \div Day) % 7 \in p.days
        BY <1>0, <2>1, <2>2, FirstIsThen
  <2> QED BY <1>0, <1>3, <2>3 DEF OnPlan
<1>4. CASE p.mode = "interval"
  <2>1. p.step \in Nat \ {0}
        BY <1>4, PlanType, TimeAssumption
  <2>2. CASE last # None
    <3>1. last \in Nat /\ NextRunAt(p, last) = AfterStep(p.step, last)
          BY <1>4, <2>2 DEF NextRunAt, Slots
    <3>2. /\ NextRunAt(p, last) \in Nat /\ NextRunAt(p, last) > now
          /\ (NextRunAt(p, last) - last) % p.step = 0
          BY <2>1, <3>1, StepIsPast
    <3> QED BY <1>4, <3>2 DEF OnPlan
  <2>3. CASE last = None
        BY <1>4, <2>1, <2>3 DEF NextRunAt, OnPlan
  <2> QED BY <2>2, <2>3
<1> QED BY <1>0, <1>1, <1>2, <1>3, <1>4

-----------------------------------------------------------------------------
(* The invariant                                                           *)

NoSlot == [slot |-> None, at |-> None]

\* A slot lies after the run that was decided on before it, as long as no
\* write was lost.
Timely ==
    /\ sched # "fire" => taken = NoSlot
    /\ fired <= now /\ taken.at <= now
    /\ ~stale =>
          /\ file.last = None => fired = None /\ taken.at = None
          /\ file.next # None => file.next > fired /\ file.next > taken.at
          /\ sched = "fire" => taken.slot > fired

Safe == TypeOK /\ Timely /\ ArmedForPlan

LEMMA BlankType == Off \in Modes /\ Blank \in Files /\ None \in Slots
BY DEF Off, Blank, Files, Modes, Slots

\* What the parts of a state are.
LEMMA Parts ==
    ASSUME TypeOK
    PROVE  /\ now \in Nat /\ now \in Slots /\ plan \in Modes /\ MaxTime \in Nat
           /\ state.next \in Slots /\ state.last \in Slots
           /\ file.next \in Slots /\ file.last \in Slots
           /\ fired \in Int /\ taken.at \in Int /\ taken.slot \in Int
<1>1. MaxTime \in Nat /\ now \in Nat
  <2>1. MaxTime \in Nat
        BY TimeAssumption
  <2>2. now \in 0..MaxTime
        BY DEF TypeOK
  <2> QED BY <2>1, <2>2
<1>2. /\ state.next \in Slots /\ state.last \in Slots
      /\ file.next \in Slots /\ file.last \in Slots /\ plan \in Modes
      BY DEF TypeOK, Files
<1>3. fired \in Slots /\ taken.at \in Slots /\ taken.slot \in Slots
      BY DEF TypeOK
<1> QED BY <1>1, <1>2, <1>3 DEF Slots, None

LEMMA SafeInit == Init => Safe
<1> SUFFICES ASSUME Init PROVE Safe
    OBVIOUS
<1>1. TypeOK
  <2>1. [slot |-> None, at |-> None] \in [slot: Slots, at: Slots]
        BY BlankType
  <2>2. 0 \in 0..MaxTime /\ 0 \in 0..MaxPosts /\ 0 \in 0..MaxCrashes
        BY TimeAssumption
  <2> QED BY <2>1, <2>2, BlankType DEF Init, TypeOK
<1>2. Timely /\ ArmedForPlan
      BY DEF Init, Timely, ArmedForPlan, Blank, NoSlot, None
<1> QED BY <1>1, <1>2 DEF Safe

\* The type is kept.
LEMMA TypeStep ==
    ASSUME TypeOK, [Next]_vars
    PROVE  TypeOK'
<1>1. CASE LoadSchedule
  <2>1. plan' \in Modes
        BY <1>1 DEF LoadSchedule, TypeOK, Files
  <2> QED BY <1>1, <2>1 DEF LoadSchedule, handler, TypeOK
<1>2. CASE ReadState
      BY <1>2, BlankType, TimeAssumption DEF ReadState, handler, scheduler, TypeOK
<1>3. CASE Disarm
  <2>1. file' \in Files
        BY <1>3, BlankType DEF Disarm, Write, TypeOK, Files
  <2> QED BY <1>3, <2>1, BlankType DEF Disarm, Write, EndTurn, handler, TypeOK
<1>4. CASE Arm
  <2>1. NextRunAt(plan, state.last) \in Slots /\ state.last \in Slots
        BY Parts, NextIsOnPlan DEF Slots
  <2>2. file' \in Files
        BY <1>4, <2>1 DEF Arm, Write, TypeOK, Files
  <2> QED BY <1>4, <2>2, BlankType DEF Arm, Write, EndTurn, handler, TypeOK
<1>5. CASE NotYet
      BY <1>5, BlankType, TimeAssumption DEF NotYet, handler, scheduler, EndTurn,
          TypeOK
<1>6. CASE Advance
  <2>1. NextRunAt(plan, state.next) \in Slots /\ state.next \in Slots /\ now \in Slots
        BY Parts, NextIsOnPlan DEF Slots
  <2>2. file' \in Files /\ taken' \in [slot: Slots, at: Slots]
        BY <1>6, <2>1 DEF Advance, Write, TypeOK, Files
  <2> QED BY <1>6, <2>2 DEF Advance, Write, handler, TypeOK
<1>7. CASE Fire
      BY <1>7, BlankType, TimeAssumption DEF Fire, handler, scheduler, EndTurn, TypeOK
<1>8. CASE PostRead
      BY <1>8, BlankType, TimeAssumption DEF PostRead, handler, scheduler, TypeOK
<1>9. CASE PostSave
  <2>1. file' \in Files
        BY <1>9 DEF PostSave, TypeOK, Files
  <2> QED BY <1>9, <2>1, BlankType DEF PostSave, scheduler, TypeOK
<1>10. CASE PostReadAgain
      BY <1>10, BlankType, TimeAssumption DEF PostReadAgain, handler, scheduler,
          TypeOK
<1>11. CASE PostRearm
  <2>1. file' \in Files
        BY <1>11, BlankType DEF PostRearm, TypeOK, Files
  <2> QED BY <1>11, <2>1, BlankType DEF PostRearm, EndPost, scheduler, TypeOK
<1>12. CASE Tick
  <2>1. now' \in 0..MaxTime
        BY <1>12, Parts DEF Tick
  <2> QED BY <1>12, <2>1 DEF Tick, scheduler, handler, TypeOK
<1>13. CASE Crash
  <2>1. crashes' \in 0..MaxCrashes
    <3>1. MaxCrashes \in Nat
          BY TimeAssumption
    <3>2. crashes \in 0..MaxCrashes /\ crashes < MaxCrashes /\ crashes' = crashes + 1
          BY <1>13 DEF Crash, TypeOK
    <3> QED BY <3>1, <3>2
  <2>2. taken' \in [slot: Slots, at: Slots]
        BY <1>13, BlankType DEF Crash
  <2>3. torn' \in BOOLEAN
        BY <1>13 DEF Crash, TypeOK
  <2> QED BY <1>13, <2>1, <2>2, <2>3, BlankType DEF Crash, EndTurn, EndPost, TypeOK
<1>14. CASE UNCHANGED vars
      BY <1>14, BlankType, TimeAssumption DEF vars, scheduler, handler, TypeOK
<1> QED BY <1>1, <1>2, <1>3, <1>4, <1>5, <1>6, <1>7, <1>8, <1>9, <1>10, <1>11,
           <1>12, <1>13, <1>14
        DEF Next, SchedulerStep

\* A slot that is taken, or written down, is later than all before it.
LEMMA TimelyStep ==
    ASSUME TypeOK, Timely, [Next]_vars
    PROVE  Timely'
<1>1. CASE LoadSchedule
      BY <1>1 DEF LoadSchedule, handler, scheduler, Timely, TypeOK, NoSlot, None
<1>2. CASE ReadState
      BY <1>2 DEF ReadState, handler, scheduler, Timely, TypeOK, NoSlot, None
<1>3. CASE Disarm
  <2>1. \/ file' = file /\ UNCHANGED stale
        \/ file'.next = None /\ (~stale' => ~stale /\ file'.last = file.last)
        BY <1>3 DEF Disarm, Write, TypeOK, Files
  <2> QED BY <1>3, <2>1 DEF Disarm, EndTurn, Timely
<1>4. CASE Arm
  <2>1. taken = NoSlot
        BY <1>4 DEF Arm, Timely
  <2>2. /\ file'.next = NextRunAt(plan, state.last) /\ file'.last = state.last
        /\ UNCHANGED <<now, taken, fired>> /\ sched' = "sleep"
        /\ ~stale' => ~stale /\ state = file
        BY <1>4 DEF Arm, Write, EndTurn, TypeOK, Files
  <2>3. ~stale' /\ file'.next # None => file'.next > fired /\ file'.next > None
    <3> SUFFICES ASSUME ~stale', NextRunAt(plan, state.last) # None
                 PROVE  NextRunAt(plan, state.last) > fired /\ NextRunAt(plan, state.last) > None
        BY <2>2
    <3>1. /\ NextRunAt(plan, state.last) \in Nat
          /\ \/ NextRunAt(plan, state.last) > now
             \/ state.last = None /\ NextRunAt(plan, state.last) >= now
          BY Parts, NextIsOnPlan
    <3>2. state.last = None => fired = None
          BY <2>2 DEF Timely
    <3>3. fired <= now
          BY DEF Timely
    <3> QED BY <3>1, <3>2, <3>3, Parts DEF None
  <2> QED BY <2>1, <2>2, <2>3 DEF Timely, NoSlot
<1>5. CASE NotYet
      BY <1>5 DEF NotYet, handler, scheduler, EndTurn, Timely, TypeOK, NoSlot, None
<1>6. CASE Advance
  <2>1. state.next # None
        BY <1>6 DEF Advance, Due
  <2>2. /\ file'.next = NextRunAt(plan, state.next) /\ file'.last = state.next
        /\ taken'.slot = state.next /\ taken'.at = now
        /\ UNCHANGED <<now, fired>> /\ sched' = "fire"
        /\ ~stale' => ~stale /\ state = file
        BY <1>6 DEF Advance, Write, TypeOK, Files
  <2>3. file'.next # None => file'.next > now
        BY <2>1, <2>2, Parts, NextIsOnPlan
  <2>4. ~stale' => state.next > fired
        BY <2>1, <2>2 DEF Timely
  <2>5. ~stale' /\ file'.next # None => file'.next > fired /\ file'.next > now
    <3>1. fired <= now /\ (file'.next # None => file'.next \in Int)
          BY <2>2, Parts, NextIsOnPlan DEF Timely
    <3> QED BY <2>3, <3>1, Parts
  <2>6. fired <= now /\ now <= now
        BY Parts DEF Timely
  <2> QED BY <2>1, <2>2, <2>4, <2>5, <2>6 DEF Timely
<1>7. CASE Fire
  <2>1. /\ fired' = taken.at /\ taken' = NoSlot /\ sched' = "sleep"
        /\ UNCHANGED <<now, file, stale>>
        BY <1>7 DEF Fire, EndTurn, NoSlot
  <2>2. taken'.at = None /\ taken'.slot = None /\ None <= now
        BY <2>1, Parts DEF NoSlot, None
  <2>3. file.next \in Nat \/ file.next = None
        BY Parts DEF Slots
  <2> QED BY <2>1, <2>2, <2>3 DEF Timely, None
<1>8. CASE PostRead
      BY <1>8 DEF PostRead, handler, scheduler, Timely, TypeOK, NoSlot, None
<1>9. CASE PostSave
  <2>1. ~stale' => ~stale /\ file'.next = file.next /\ file'.last = file.last
        BY <1>9 DEF PostSave, TypeOK, Files
  <2> QED BY <1>9, <2>1 DEF PostSave, scheduler, Timely
<1>10. CASE PostReadAgain
      BY <1>10 DEF PostReadAgain, handler, scheduler, Timely, TypeOK, NoSlot, None
<1>11. CASE PostRearm
  <2>1. file'.next = None /\ (~stale' => ~stale /\ file'.last = file.last)
        BY <1>11 DEF PostRearm, TypeOK, Files
  <2> QED BY <1>11, <2>1 DEF PostRearm, scheduler, Timely
<1>12. CASE Tick
  <2>1. now' = now + 1 /\ UNCHANGED <<file, sched, taken, fired, stale>>
        BY <1>12 DEF Tick, scheduler
  <2>2. fired <= now' /\ taken.at <= now'
        BY <2>1, Parts DEF Timely
  <2> QED BY <2>1, <2>2 DEF Timely
<1>13. CASE Crash
  <2>1. /\ taken' = NoSlot /\ sched' = "sleep"
        /\ UNCHANGED <<now, file, fired, stale>>
        BY <1>13 DEF Crash, EndTurn, NoSlot
  <2>2. taken'.at = None /\ taken'.slot = None /\ None <= now
        BY <2>1, Parts DEF NoSlot, None
  <2>3. file.next \in Nat \/ file.next = None
        BY Parts DEF Slots
  <2> QED BY <2>1, <2>2, <2>3 DEF Timely, None
<1>14. CASE UNCHANGED vars
      BY <1>14 DEF vars, scheduler, handler, Timely, TypeOK, NoSlot, None
<1> QED BY <1>1, <1>2, <1>3, <1>4, <1>5, <1>6, <1>7, <1>8, <1>9, <1>10, <1>11,
           <1>12, <1>13, <1>14
        DEF Next, SchedulerStep

\* Plan and slot change together, or the slot goes first.
LEMMA ArmedStep ==
    ASSUME TypeOK, ArmedForPlan, [Next]_vars
    PROVE  ArmedForPlan'
<1>1. CASE LoadSchedule
      BY <1>1 DEF LoadSchedule, handler, scheduler, ArmedForPlan, TypeOK
<1>2. CASE ReadState
      BY <1>2 DEF ReadState, handler, scheduler, ArmedForPlan, TypeOK
<1>3. CASE Disarm
  <2>1. (file' = file /\ UNCHANGED stale) \/ file'.next = None
        BY <1>3 DEF Disarm, Write, TypeOK, Files
  <2> QED BY <1>3, <2>1 DEF Disarm, handler, ArmedForPlan
<1>4. CASE Arm
  <2>1. NextRunAt(plan, state.last) # None
        => OnPlan(plan, NextRunAt(plan, state.last), state.last)
        BY Parts, NextIsOnPlan
  <2>2. /\ file'.next = NextRunAt(plan, state.last) /\ file'.last = state.last
        /\ ~stale' => file'.plan = plan
        BY <1>4 DEF Arm, Write, TypeOK, Files
  <2> QED BY <2>1, <2>2 DEF ArmedForPlan
<1>5. CASE NotYet
      BY <1>5 DEF NotYet, handler, scheduler, EndTurn, ArmedForPlan, TypeOK
<1>6. CASE Advance
  <2>1. NextRunAt(plan, state.next) # None
        => OnPlan(plan, NextRunAt(plan, state.next), state.next)
        BY Parts, NextIsOnPlan
  <2>2. /\ file'.next = NextRunAt(plan, state.next) /\ file'.last = state.next
        /\ ~stale' => file'.plan = plan
        BY <1>6 DEF Advance, Write, TypeOK, Files
  <2> QED BY <2>1, <2>2 DEF ArmedForPlan
<1>7. CASE Fire
      BY <1>7 DEF Fire, handler, scheduler, EndTurn, ArmedForPlan, TypeOK
<1>8. CASE PostRead
      BY <1>8 DEF PostRead, handler, scheduler, ArmedForPlan, TypeOK
<1>9. CASE PostSave
      BY <1>9 DEF PostSave, ArmedForPlan
<1>10. CASE PostReadAgain
      BY <1>10 DEF PostReadAgain, handler, scheduler, ArmedForPlan, TypeOK
<1>11. CASE PostRearm
  <2>1. file'.next = None
        BY <1>11 DEF PostRearm, TypeOK, Files
  <2> QED BY <2>1 DEF ArmedForPlan
<1>12. CASE Tick
      BY <1>12 DEF Tick, handler, scheduler, ArmedForPlan, TypeOK
<1>13. CASE Crash
      BY <1>13 DEF Crash, handler, scheduler, EndTurn, EndPost, ArmedForPlan, TypeOK
<1>14. CASE UNCHANGED vars
      BY <1>14 DEF vars, scheduler, handler, ArmedForPlan, TypeOK
<1> QED BY <1>1, <1>2, <1>3, <1>4, <1>5, <1>6, <1>7, <1>8, <1>9, <1>10, <1>11,
           <1>12, <1>13, <1>14
        DEF Next, SchedulerStep

LEMMA SafeStep == Safe /\ [Next]_vars => Safe'
BY TypeStep, TimelyStep, ArmedStep DEF Safe

-----------------------------------------------------------------------------
(* The theorems                                                            *)

\* The file, the scheduler and the handler have their types, for any plans,
\* length of the day and bounds.
THEOREM TypeCorrect == Spec => []TypeOK
<1>1. Safe => TypeOK
      BY DEF Safe
<1> QED BY <1>1, SafeInit, SafeStep, PTL DEF Spec

\* The slot in the file is one of the plan in the file.
THEOREM SlotsAreOfThePlan == Spec => []ArmedForPlan
<1>1. Safe => ArmedForPlan
      BY DEF Safe
<1> QED BY <1>1, SafeInit, SafeStep, PTL DEF Spec

\* No outage, crash or change of the plan leads to a run for a slot that lies
\* before the run that was decided on last.
THEOREM NoCatchUp == Spec => NoBurst
<1>1. Safe /\ [Next]_vars => [Fire => stale \/ taken.slot > fired]_vars
      BY DEF Safe, Timely, Fire
<1> QED BY <1>1, SafeInit, SafeStep, PTL DEF Spec, NoBurst
=============================================================================
