--------------------------- MODULE GatewayProofs ---------------------------
(***************************************************************************)
(* What holds of Gateway for every set of requests and strategies, however *)
(* the services fail and however often the container dies.                 *)
(***************************************************************************)
EXTENDS Gateway, TLAPS

USE DEF Modes, AccessLayer, ExitLayer, Services, Flows, Locked, PCs, Changes,
        BootStages, NoChange

\* What a start of a service runs it with is a value of svc.
LEMMA WantedType ==
    ASSUME TypeOK, NEW s \in Services
    PROVE  Wanted(s) \in Strategies \cup Modes \cup {"on", "down"}
BY StrategiesAssumption DEF TypeOK, Wanted

\* A start ends with the service running as asked, or down.
LEMMA SpawnedIs ==
    ASSUME NEW s \in Services, NEW c, NEW d \in Spawned(s, c)
    PROVE  d = c \/ d = "down"
BY DEF Spawned

\* The firewall script writes a firewall.
LEMMA FirewallStartType ==
    ASSUME TypeOK
    PROVE  /\ FirewallStart \in [nfq: SUBSET Flows, redirect: BOOLEAN, rule: BOOLEAN,
                                 route: BOOLEAN]
           /\ FirewallStart.nfq = IF strategy = "none" THEN {} ELSE FlowsOf(exitMode)
BY ServicesAssumption DEF TypeOK, FirewallStart, FlowsOf

\* Losing the route changes nothing else.
LEMMA WithoutRouteType ==
    ASSUME TypeOK, NEW s \in Services
    PROVE  /\ WithoutRoute(s) \in [nfq: SUBSET Flows, redirect: BOOLEAN, rule: BOOLEAN,
                                   route: BOOLEAN]
           /\ WithoutRoute(s).nfq = fw.nfq
BY DEF TypeOK, WithoutRoute

-----------------------------------------------------------------------------
\* The initial state has its type.
LEMMA InitType == Init => TypeOK
BY StrategiesAssumption, ServicesAssumption DEF Init, TypeOK, NoFirewall, All

\* A step of wz-apply.sh keeps the types.
LEMMA ApplyType ==
    ASSUME TypeOK, NEW r \in Requests, ApplyStep(r)
    PROVE  TypeOK'
<1> USE DEF TypeOK, Proceed, ProceedLeaking, Return, EndAs, persistent, live, jobs
<1>1. CASE Acquire(r)
      BY <1>1 DEF Acquire
<1>2. CASE GiveUp(r)
      BY <1>2, StrategiesAssumption DEF GiveUp
<1>3. CASE Check(r)
      BY <1>3 DEF Check
<1>4. CASE Persist(r)
      BY <1>4 DEF Persist
<1>5. CASE Render(r)
      BY <1>5 DEF Render, Rendered
<1>6. CASE Stop(r)
      BY <1>6, WithoutRouteType DEF Stop
<1>7. CASE StartExit(r)
      BY <1>7, WantedType, SpawnedIs DEF StartExit, Inherits
<1>8. CASE ResolveNfqws(r)
      BY <1>8, StrategiesAssumption DEF ResolveNfqws, AfterNfqws
<1>9. CASE SpawnNfqws(r)
      BY <1>9, SpawnedIs DEF SpawnNfqws, AfterNfqws, Inherits
<1>10. CASE ReloadFirewall(r)
      BY <1>10, FirewallStartType DEF ReloadFirewall
<1>11. CASE Undo(r)
      BY <1>11 DEF Undo
<1>12. CASE Finish(r)
      BY <1>12, StrategiesAssumption DEF Finish
<1>13. CASE Die(r)
      BY <1>13, StrategiesAssumption DEF Die
<1> QED BY <1>1, <1>2, <1>3, <1>4, <1>5, <1>6, <1>7, <1>8, <1>9, <1>10, <1>11, <1>12,
           <1>13 DEF ApplyStep

\* So does the death of the container,
LEMMA WipedType ==
    ASSUME TypeOK, Wiped, UNCHANGED persistent, crashes' \in 0..MaxCrashes
    PROVE  TypeOK'
BY StrategiesAssumption DEF TypeOK, Wiped, All, persistent, NoFirewall

\* and a step of the entrypoint,
LEMMA BootType ==
    ASSUME TypeOK, BootStep
    PROVE  TypeOK'
<1> USE DEF TypeOK, persistent, live, jobs
<1>1. CASE BootUp
      BY <1>1 DEF BootUp
<1>2. CASE BootSeed
      BY <1>2, StrategiesAssumption DEF BootSeed, Rendered
<1>3. CASE BootFirewall
      BY <1>3, FirewallStartType DEF BootFirewall, NextStage
<1>4. ASSUME NEW s \in Services, BootStart(s)
      PROVE  TypeOK'
      BY <1>4, WithoutRouteType, WantedType DEF BootStart, NextStage
<1>5. ASSUME NEW s \in Services, BootStartFails(s)
      PROVE  TypeOK'
  <2>1. PICK failed \in SUBSET {t \in Services : "down" \in Spawned(t, Wanted(t))} :
            IF Fatal(s, failed)
            THEN Wiped
            ELSE /\ svc' = [t \in Services |-> IF t \in failed THEN "down" ELSE Wanted(t)]
                 /\ fw' = IF Wanted("udprelay") = "down" THEN fw
                          ELSE WithoutRoute("udprelay")
                 /\ boot' = NextStage[s]
                 /\ UNCHANGED <<lock, jobs, doomed>>
        BY <1>5 DEF BootStartFails
  <2>2. CASE Fatal(s, failed)
        BY <1>5, <2>1, <2>2, WipedType DEF BootStartFails
  <2>3. CASE ~Fatal(s, failed)
        BY <1>5, <2>1, <2>3, WantedType, WithoutRouteType DEF BootStartFails, NextStage
  <2> QED BY <2>2, <2>3
<1> QED BY <1>1, <1>2, <1>3, <1>4, <1>5 DEF BootStep

\* and hence every step.
LEMMA StepType ==
    ASSUME TypeOK, [Next]_vars
    PROVE  TypeOK'
<1>1. ASSUME NEW r \in Requests, ApplyStep(r)
      PROVE  TypeOK'
      BY <1>1, ApplyType
<1>2. ASSUME NEW r \in Requests, PanelTimeout(r)
      PROVE  TypeOK'
      BY <1>2 DEF PanelTimeout, TypeOK, persistent, live
<1>3. ASSUME NEW r \in Requests, NEW q \in Changes, Submit(r, q)
      PROVE  TypeOK'
      BY <1>3 DEF Submit, TypeOK, persistent, live
<1>4. ASSUME NEW s \in Strategies, DeleteCheck(s)
      PROVE  TypeOK'
      BY <1>4 DEF DeleteCheck, TypeOK, persistent, live, jobs
<1>5. CASE DeleteWrite
      BY <1>5, StrategiesAssumption DEF DeleteWrite, TypeOK, live, jobs
<1>6. ASSUME NEW s \in Services, ServiceDies(s)
      PROVE  TypeOK'
      BY <1>6, WithoutRouteType DEF ServiceDies, TypeOK, persistent, jobs
<1>7. CASE Crash
      BY <1>7, WipedType, ServicesAssumption DEF Crash, TypeOK
<1>8. CASE BootStep
      BY <1>8, BootType
<1>9. CASE UNCHANGED vars
      BY <1>9 DEF vars, TypeOK, persistent, live, jobs
<1> QED BY <1>1, <1>2, <1>3, <1>4, <1>5, <1>6, <1>7, <1>8, <1>9 DEF Next

\* Every variable keeps its type; in particular the state file never names
\* anything but a strategy and the lock is only ever held by change scripts.
THEOREM TypeCorrect == Spec => []TypeOK
<1>1. Init => TypeOK
      BY InitType
<1>2. TypeOK /\ [Next]_vars => TypeOK'
      BY StepType
<1> QED BY <1>1, <1>2, PTL DEF Spec
-----------------------------------------------------------------------------
(* The lock.  A script past flock holds it alone, whoever holds it is past *)
(* flock, and while the container boots there is no script.                *)

LockInv ==
    /\ \A r \in Requests : pc[r] \in Locked => lock = {r}
    /\ \A r \in lock : pc[r] \in Locked
    /\ boot # "ready" => \A r \in Requests : pc[r] = "idle"

\* Initially no script runs.
LEMMA InitLock == Init => LockInv
BY DEF Init, LockInv, All

\* Every step keeps the lock with the one script past flock.
LEMMA StepLock ==
    ASSUME TypeOK, LockInv, [Next]_vars
    PROVE  LockInv'
<1> USE RequestsAssumption DEF LockInv, Proceed, ProceedLeaking, Return, EndAs, TypeOK
<1>1. ASSUME NEW r \in Requests, ApplyStep(r)
      PROVE  LockInv'
  <2>1. CASE Acquire(r)
        BY <2>1 DEF Acquire
  <2>2. CASE GiveUp(r)
        BY <2>2 DEF GiveUp
  <2>3. CASE Check(r) \/ Persist(r) \/ Render(r) \/ Stop(r) \/ ReloadFirewall(r) \/ Undo(r)
        BY <2>3 DEF Check, Persist, Render, Stop, ReloadFirewall, Undo
  <2>4. CASE StartExit(r) \/ ResolveNfqws(r) \/ SpawnNfqws(r)
        BY <2>4 DEF StartExit, ResolveNfqws, SpawnNfqws, AfterNfqws, Inherits
  <2>5. CASE Finish(r) \/ Die(r)
        BY <2>5 DEF Finish, Die
  <2> QED BY <1>1, <2>1, <2>2, <2>3, <2>4, <2>5 DEF ApplyStep
<1>2. ASSUME NEW r \in Requests, PanelTimeout(r)
      PROVE  LockInv'
      BY <1>2 DEF PanelTimeout
<1>3. ASSUME NEW r \in Requests, NEW q \in Changes, Submit(r, q)
      PROVE  LockInv'
      BY <1>3 DEF Submit
<1>4. CASE DeleteWrite \/ \E s \in Strategies : DeleteCheck(s)
      BY <1>4 DEF DeleteWrite, DeleteCheck, jobs
<1>5. ASSUME NEW s \in Services, ServiceDies(s)
      PROVE  LockInv'
      BY <1>5 DEF ServiceDies, jobs
<1>6. CASE Crash
      BY <1>6 DEF Crash, Wiped, All
<1>7. CASE BootStep
      BY <1>7 DEF BootStep, BootUp, BootSeed, BootFirewall, BootStart, BootStartFails, jobs,
                  Wiped, All
<1>8. CASE UNCHANGED vars
      BY <1>8 DEF vars, jobs
<1> QED BY <1>1, <1>2, <1>3, <1>4, <1>5, <1>6, <1>7, <1>8 DEF Next

\* with_lock serialises the changes: two scripts are never both past flock.
THEOREM OneScriptAtATime == Spec => []SingleWriter
<1>1. Init => TypeOK /\ LockInv
      BY InitType, InitLock
<1>2. TypeOK /\ LockInv /\ [Next]_vars => TypeOK' /\ LockInv'
      BY StepType, StepLock
<1>3. LockInv => SingleWriter
  <2> SUFFICES ASSUME LockInv, NEW r \in Requests, pc[r] \in Locked
               PROVE  lock = {r} /\ \A t \in Requests : pc[t] \in Locked => t = r
      BY DEF SingleWriter
  <2>1. lock = {r}
        BY DEF LockInv
  <2>2. \A t \in Requests : pc[t] \in Locked => lock = {t}
        BY DEF LockInv
  <2> QED BY <2>1, <2>2
<1> QED BY <1>1, <1>2, <1>3, PTL DEF Spec

-----------------------------------------------------------------------------
(* The agreement of what runs with the state files.  LiveMatchesState is   *)
(* not inductive: it says nothing while a script holds the lock, so the    *)
(* invariant says what is left of the agreement at each step of a script,  *)
(* and at each stage of the boot that leads to the first quiet state.      *)

AllDown == \A s \in Services : svc[s] = "down"
Agreement == NfqwsAgrees /\ RulesAgree /\ ExitAgrees

\* The rules were those of the strategy that do_strategy may have to restore.
OldRulesAgree(r) == old[r] # "none" => fw.nfq = FlowsOf(exitMode)

StrategyScript(r) ==
    /\ ExitAgrees
    /\ pc[r] \in {"check", "persist", "done"} => NfqwsAgrees /\ RulesAgree
    /\ pc[r] = "persist" => old[r] = strategy
    /\ pc[r] \in {"check", "persist", "firewall", "undo"} => rc[r] # 3
    /\ pc[r] \in {"start", "spawn", "undo"} => svc["nfqws"] = "down"
    /\ pc[r] \in {"stop", "start", "spawn", "undo"} => cur[r] = "nfqws"
    /\ pc[r] \in {"stop", "start", "spawn"} =>
            IF rc[r] = 3 THEN RulesAgree ELSE OldRulesAgree(r)
    /\ pc[r] = "undo" => OldRulesAgree(r)
    /\ pc[r] = "firewall" => NfqwsAgrees
    /\ pc[r] # "render"

ExitScript(r) ==
    /\ pc[r] \in {"check", "persist", "done"} => Agreement
    /\ pc[r] \in {"render", "stop", "firewall"} => NfqwsAgrees
    /\ pc[r] \in {"stop", "start"} /\ cur[r] \in {"ss-local", "udprelay", "nfqws"} =>
            svc["redsocks"] \in {Wanted("redsocks"), "down"}
    /\ pc[r] \in {"stop", "start"} /\ cur[r] \in {"udprelay", "nfqws"} =>
            svc["ss-local"] \in {Wanted("ss-local"), "down"}
    /\ pc[r] = "start" => NfqwsAgrees /\ svc[cur[r]] = "down"
    /\ pc[r] \in {"stop", "start"} /\ cur[r] = "nfqws" => RulesAgree /\ ExitAgrees
    /\ pc[r] = "firewall" => ExitAgrees
    /\ pc[r] = "spawn" => svc["nfqws"] = "down" /\ RulesAgree /\ ExitAgrees
    /\ pc[r] # "undo"

\* A script whose caller has gone is about to break the agreement for good.
ScriptInv(r) ==
    pc[r] \in Locked \ {"dying"} =>
        IF change[r].kind = "strategy" THEN StrategyScript(r) ELSE ExitScript(r)

BootInv ==
    /\ boot \in {"down", "seed"} => AllDown
    /\ boot \in Services \cup {"firewall"} => NfqwsAgrees /\ ExitAgrees
    /\ boot = "nfqws" => RulesAgree

StateInv ==
    /\ boot # "ready" => BootInv
    /\ Intact /\ boot = "ready" =>
            /\ \A r \in Requests : ScriptInv(r)
            /\ lock = {} => Agreement
    /\ \A r \in Requests : pc[r] \in {"idle", "flock"} => rc[r] = 0

\* Initially nothing runs, as before any boot.
LEMMA InitState == Init => StateInv
BY DEF Init, StateInv, BootInv, AllDown, All

\* The steps of a script that stays past flock keep its own claim.
LEMMA ScriptStep ==
    ASSUME TypeOK, NEW r \in Requests, ApplyStep(r), ScriptInv(r), pc[r] \in Locked,
           pc'[r] \in Locked \ {"dying"}
    PROVE  ScriptInv(r)'
<1> USE DEF TypeOK, Proceed, ProceedLeaking, Return, ScriptInv
<1>1. CASE Check(r)
      BY <1>1 DEF Check, StrategyScript, ExitScript, Agreement, NfqwsAgrees, RulesAgree,
                  ExitAgrees, Wanted, persistent, live
<1>2. CASE Persist(r)
      BY <1>2 DEF Persist, StrategyScript, ExitScript, Agreement, NfqwsAgrees, RulesAgree,
                  ExitAgrees, OldRulesAgree, Wanted, live
<1>3. CASE Render(r)
      BY <1>3 DEF Render, StrategyScript, ExitScript, NfqwsAgrees, live
<1>4. CASE Stop(r)
      BY <1>4, WithoutRouteType DEF Stop, StrategyScript, ExitScript, NfqwsAgrees, RulesAgree,
                  ExitAgrees, OldRulesAgree, Wanted, persistent
<1>5. CASE StartExit(r)
      BY <1>5, SpawnedIs DEF StartExit, StrategyScript, ExitScript, NfqwsAgrees, RulesAgree,
                  ExitAgrees, Wanted, persistent
<1>6. CASE ResolveNfqws(r)
      BY <1>6 DEF ResolveNfqws, AfterNfqws, StrategyScript, ExitScript, Agreement,
                  NfqwsAgrees, RulesAgree, ExitAgrees, OldRulesAgree, Wanted
<1>7. CASE SpawnNfqws(r)
      BY <1>7, SpawnedIs DEF SpawnNfqws, AfterNfqws, StrategyScript, ExitScript, Agreement,
                  NfqwsAgrees, RulesAgree, ExitAgrees, OldRulesAgree, Wanted, persistent
<1>8. CASE ReloadFirewall(r)
      BY <1>8, FirewallStartType DEF ReloadFirewall, StrategyScript, ExitScript, Agreement,
                  NfqwsAgrees, RulesAgree, ExitAgrees, Wanted, persistent
<1>9. CASE Undo(r)
      BY <1>9 DEF Undo, StrategyScript, ExitScript, NfqwsAgrees, RulesAgree, ExitAgrees,
                  OldRulesAgree, Wanted, live
<1>10. CASE Acquire(r) \/ GiveUp(r) \/ Finish(r) \/ Die(r)
      BY <1>10 DEF Acquire, GiveUp, Finish, Die, EndAs
<1> QED BY <1>1, <1>2, <1>3, <1>4, <1>5, <1>6, <1>7, <1>8, <1>9, <1>10 DEF ApplyStep

\* What the claims are about is left alone, or only loses services.
SameOrDown ==
    /\ strategy' = strategy
    /\ exitMode' = exitMode
    /\ conf' = conf
    /\ fw'.nfq = fw.nfq
    /\ \A s \in Services : svc'[s] \in {svc[s], "down"}

\* Agreement survives a service that stops.
LEMMA SameAgreement ==
    ASSUME SameOrDown, Agreement
    PROVE  Agreement'
BY DEF SameOrDown, Agreement, NfqwsAgrees, RulesAgree, ExitAgrees, Wanted

\* So does the claim of a script that does not move.
LEMMA SameScript ==
    ASSUME TypeOK, SameOrDown, NEW r \in Requests, ScriptInv(r), pc'[r] = pc[r],
           cur'[r] = cur[r], change'[r] = change[r], old'[r] = old[r], rc'[r] = rc[r]
    PROVE  ScriptInv(r)'
<1> SUFFICES ASSUME pc[r] \in Locked \ {"dying"}
             PROVE  IF change[r].kind = "strategy" THEN StrategyScript(r)'
                                                   ELSE ExitScript(r)'
    BY DEF ScriptInv
<1>1. CASE change[r].kind = "strategy"
      BY <1>1 DEF ScriptInv, StrategyScript, SameOrDown, NfqwsAgrees, RulesAgree,
                  ExitAgrees, OldRulesAgree, Wanted
<1>2. CASE change[r].kind # "strategy"
      BY <1>2 DEF ScriptInv, ExitScript, SameOrDown, Agreement, NfqwsAgrees, RulesAgree,
                  ExitAgrees, Wanted, TypeOK
<1> QED BY <1>1, <1>2

\* A step of a script keeps its own claim and the others'.
LEMMA StepApplyState ==
    ASSUME TypeOK, LockInv, StateInv, NEW r \in Requests, ApplyStep(r)
    PROVE  StateInv'
<1>1. boot = "ready" /\ boot' = "ready"
      BY DEF ApplyStep, LockInv, Acquire, GiveUp, Check, Persist, Render, Stop, StartExit,
             ResolveNfqws, SpawnNfqws, ReloadFirewall, Undo, Finish, Die
<1>2. \A t \in Requests : t # r =>
          /\ pc'[t] = pc[t] /\ cur'[t] = cur[t] /\ change'[t] = change[t]
          /\ old'[t] = old[t] /\ rc'[t] = rc[t]
      BY DEF ApplyStep, TypeOK, Acquire, GiveUp, Check, Persist, Render, Stop, StartExit,
             ResolveNfqws, SpawnNfqws, ReloadFirewall, Undo, Finish, Die, EndAs, Return,
             Proceed, ProceedLeaking, AfterNfqws
<1>3. \A t \in Requests : pc'[t] \in {"idle", "flock"} => rc'[t] = 0
  <2>1. pc'[r] # "flock" /\ (pc'[r] = "idle" => rc'[r] = 0)
        BY DEF ApplyStep, TypeOK, Acquire, GiveUp, Check, Persist, Render, Stop, StartExit,
               ResolveNfqws, SpawnNfqws, ReloadFirewall, Undo, Finish, Die, EndAs, Return,
               Proceed, ProceedLeaking, AfterNfqws
  <2> QED BY <1>2, <2>1 DEF StateInv
<1>4. ASSUME Intact'
      PROVE  /\ \A t \in Requests : ScriptInv(t)'
             /\ lock' = {} => Agreement'
  <2>1. Intact
        BY <1>2, <1>4 DEF Intact, ApplyStep, Acquire, GiveUp, Check, Persist, Render, Stop,
             StartExit, ResolveNfqws, SpawnNfqws, ReloadFirewall, Undo, Finish, Die
  <2>2. /\ \A t \in Requests : ScriptInv(t)
        /\ lock = {} => Agreement
        BY <1>1, <2>1 DEF StateInv
  <2>3. CASE pc[r] \in Locked
    <3>1. \A t \in Requests : pc[t] \in Locked => t = r
          BY <2>3 DEF LockInv
    <3>2. \A t \in Requests : t # r => ScriptInv(t)'
          BY <1>2, <3>1 DEF ScriptInv
    <3>3. CASE pc'[r] \in Locked
      <4>1. ScriptInv(r)'
            BY <2>2, <2>3, <3>3, ScriptStep DEF ScriptInv
      <4>2. lock' # {}
            BY <1>1, <3>3, StepLock DEF LockInv, Next
      <4> QED BY <3>2, <4>1, <4>2
    <3>4. CASE pc'[r] \notin Locked
      <4>1. Finish(r) \/ Die(r)
            BY <2>3, <3>4 DEF ApplyStep, TypeOK, Acquire, GiveUp, Check, Persist, Render,
               Stop, StartExit, ResolveNfqws, SpawnNfqws, ReloadFirewall, Undo, Return,
               Proceed, ProceedLeaking, AfterNfqws
      <4>2. Finish(r)
            BY <4>1, <1>4 DEF Die, EndAs, Intact, TypeOK
      <4>3. Agreement
            BY <2>2, <4>2 DEF Finish, ScriptInv, StrategyScript, ExitScript, Agreement
      <4>4. SameOrDown
            BY <4>2 DEF Finish, SameOrDown, persistent, live
      <4> QED BY <3>2, <3>4, <4>3, <4>4, SameAgreement DEF ScriptInv
    <3> QED BY <3>3, <3>4
  <2>4. CASE pc[r] \notin Locked
    <3>1. Acquire(r) \/ GiveUp(r)
          BY <2>4 DEF ApplyStep, Check, Persist, Render, Stop, StartExit, ResolveNfqws,
                      SpawnNfqws, ReloadFirewall, Undo, Finish, Die
    <3>2. SameOrDown
          BY <3>1 DEF Acquire, GiveUp, SameOrDown, persistent, live
    <3>3. \A t \in Requests : t # r => ScriptInv(t)'
          BY <1>2, <2>2, <3>2, SameScript
    <3>4. CASE Acquire(r)
      <4>1. Agreement'
            BY <2>2, <3>2, <3>4, SameAgreement DEF Acquire
      <4>2. pc'[r] = "check" /\ rc'[r] = 0
            BY <3>4 DEF Acquire, StateInv, TypeOK
      <4>3. ScriptInv(r)'
            BY <4>1, <4>2 DEF ScriptInv, StrategyScript, ExitScript, Agreement
      <4>4. lock' # {}
            BY <3>4 DEF Acquire
      <4> QED BY <3>3, <4>3, <4>4
    <3>5. CASE GiveUp(r)
      <4>1. pc'[r] = "idle" /\ lock' = lock \ {r}
            BY <3>5 DEF GiveUp, EndAs, TypeOK
      <4>2. lock' = lock
            BY <4>1, <2>4 DEF LockInv
      <4> QED BY <2>2, <3>2, <3>3, <4>1, <4>2, SameAgreement DEF ScriptInv
    <3> QED BY <3>1, <3>4, <3>5
  <2> QED BY <2>3, <2>4
<1> QED BY <1>1, <1>3, <1>4 DEF StateInv

\* A dead container claims nothing.
LEMMA WipedState ==
    ASSUME TypeOK, Wiped
    PROVE  StateInv'
BY DEF Wiped, StateInv, BootInv, AllDown, All

\* While the container boots there is no script: only BootInv matters, and
\* what the last stage leaves behind.
LEMMA StepBootState ==
    ASSUME TypeOK, LockInv, StateInv, BootStep
    PROVE  StateInv'
<1> USE DEF persistent, live, jobs
<1>1. boot # "ready" /\ BootInv /\ \A r \in Requests : pc[r] = "idle"
      BY DEF BootStep, BootUp, BootSeed, BootFirewall, BootStart, BootStartFails, LockInv,
             StateInv
<1>2. ASSUME UNCHANGED jobs, boot' # "ready" => BootInv', boot' = "ready" => Agreement'
      PROVE  StateInv'
      BY <1>1, <1>2 DEF StateInv, ScriptInv
<1>3. CASE BootUp
  <2>1. BootInv'
        BY <1>1, <1>3 DEF BootUp, BootInv, AllDown
  <2> QED BY <1>2, <1>3, <2>1 DEF BootUp
<1>4. CASE BootSeed
  <2>1. AllDown'
        BY <1>1, <1>4 DEF BootSeed, BootInv, AllDown
  <2>2. BootInv'
        BY <1>4, <2>1 DEF BootSeed, BootInv, AllDown, NfqwsAgrees, ExitAgrees
  <2> QED BY <1>2, <1>4, <2>2 DEF BootSeed
<1>5. CASE BootFirewall
  <2>1. NfqwsAgrees' /\ ExitAgrees' /\ RulesAgree'
        BY <1>1, <1>5, FirewallStartType DEF BootFirewall, BootInv, NfqwsAgrees, ExitAgrees,
           RulesAgree, Wanted
  <2> QED BY <1>2, <1>5, <2>1 DEF BootFirewall, NextStage, BootInv
<1>6. ASSUME NEW s \in Services,
             svc' \in [Services -> Strategies \cup Modes \cup {"on", "down"}],
             \A t \in Services : svc'[t] \in {svc[t], Wanted(t), "down"},
             fw'.nfq = fw.nfq, boot = s, boot' = NextStage[s], UNCHANGED <<persistent, jobs>>
      PROVE  StateInv'
  <2>1. NfqwsAgrees' /\ ExitAgrees'
        BY <1>1, <1>6 DEF BootInv, NfqwsAgrees, ExitAgrees, Wanted
  <2>2. s = "nfqws" => RulesAgree'
        BY <1>1, <1>6 DEF BootInv, RulesAgree
  <2>3. boot' # "ready" => BootInv'
        BY <1>6, <2>1 DEF NextStage, BootInv
  <2>4. boot' = "ready" => Agreement'
        BY <1>6, <2>1, <2>2 DEF NextStage, Agreement
  <2> QED BY <1>2, <1>6, <2>3, <2>4
<1>7. ASSUME NEW s \in Services, BootStart(s)
      PROVE  StateInv'
      BY <1>6, <1>7, WantedType, WithoutRouteType DEF BootStart, TypeOK
<1>8. ASSUME NEW s \in Services, BootStartFails(s)
      PROVE  StateInv'
  <2>1. PICK failed \in SUBSET {t \in Services : "down" \in Spawned(t, Wanted(t))} :
            IF Fatal(s, failed)
            THEN Wiped
            ELSE /\ svc' = [t \in Services |-> IF t \in failed THEN "down" ELSE Wanted(t)]
                 /\ fw' = IF Wanted("udprelay") = "down" THEN fw
                          ELSE WithoutRoute("udprelay")
                 /\ boot' = NextStage[s]
                 /\ UNCHANGED <<lock, jobs, doomed>>
        BY <1>8 DEF BootStartFails
  <2>2. CASE Fatal(s, failed)
        BY <2>1, <2>2, WipedState
  <2>3. CASE ~Fatal(s, failed)
        BY <1>6, <1>8, <2>1, <2>3, WantedType, WithoutRouteType DEF BootStartFails
  <2> QED BY <2>2, <2>3
<1> QED BY <1>3, <1>4, <1>5, <1>7, <1>8 DEF BootStep

\* Every step keeps the claims of scripts and boot stages.
LEMMA StepState ==
    ASSUME TypeOK, LockInv, StateInv, [Next]_vars
    PROVE  StateInv'
<1>1. ASSUME NEW r \in Requests, ApplyStep(r)
      PROVE  StateInv'
      BY <1>1, StepApplyState
<1>2. ASSUME SameOrDown, UNCHANGED <<boot, lock, pc, cur, change, old, rc>>
      PROVE  StateInv'
  <2>1. boot # "ready" => BootInv'
        BY <1>2 DEF StateInv, BootInv, AllDown, SameOrDown, NfqwsAgrees, ExitAgrees,
                    RulesAgree, Wanted
  <2>2. Intact /\ boot = "ready" => \A r \in Requests : ScriptInv(r)'
        BY <1>2, SameScript DEF StateInv
  <2>3. Intact /\ boot = "ready" /\ lock = {} => Agreement'
        BY <1>2, SameAgreement DEF StateInv
  <2> QED BY <1>2, <2>1, <2>2, <2>3 DEF StateInv, Intact
<1>3. ASSUME NEW r \in Requests, PanelTimeout(r)
      PROVE  StateInv'
      BY <1>2, <1>3 DEF PanelTimeout, SameOrDown, persistent, live
<1>4. ASSUME NEW r \in Requests, NEW q \in Changes, Submit(r, q)
      PROVE  StateInv'
  <2>1. boot = "ready" /\ boot' = "ready" /\ SameOrDown /\ lock' = lock
        BY <1>4 DEF Submit, SameOrDown, persistent, live
  <2>2. \A t \in Requests : t # r => pc'[t] = pc[t] /\ change'[t] = change[t]
        BY <1>4 DEF Submit, TypeOK
  <2>3. pc'[r] = "flock" /\ pc[r] = "idle" /\ UNCHANGED <<cur, old, rc>>
        BY <1>4 DEF Submit, TypeOK
  <2>4. Intact' => Intact
        BY <2>2, <2>3 DEF Intact
  <2>5. ASSUME Intact', NEW t \in Requests
        PROVE  ScriptInv(t)'
    <3>1. ScriptInv(t)
          BY <2>1, <2>4, <2>5 DEF StateInv
    <3>2. CASE t = r
          BY <2>3, <3>2 DEF ScriptInv
    <3>3. CASE t # r
          BY <2>1, <2>2, <2>3, <3>1, <3>3, SameScript
    <3> QED BY <3>2, <3>3
  <2>6. Intact' /\ lock' = {} => Agreement'
        BY <2>1, <2>4, SameAgreement DEF StateInv
  <2> QED BY <2>1, <2>2, <2>3, <2>5, <2>6 DEF StateInv
<1>5. CASE DeleteWrite \/ \E s \in Strategies : DeleteCheck(s)
      BY <1>2, <1>5 DEF DeleteWrite, DeleteCheck, SameOrDown, persistent, live, jobs
<1>6. ASSUME NEW s \in Services, ServiceDies(s)
      PROVE  StateInv'
  <2>1. SameOrDown
        BY <1>6, WithoutRouteType DEF ServiceDies, SameOrDown, TypeOK, persistent
  <2>2. lock' = lock
        BY <1>6, RequestsAssumption DEF ServiceDies, TypeOK
  <2> QED BY <1>2, <1>6, <2>1, <2>2 DEF ServiceDies, jobs
<1>7. CASE Crash
      BY <1>7, WipedState DEF Crash
<1>8. CASE BootStep
      BY <1>8, StepBootState
<1>9. CASE UNCHANGED vars
      BY <1>2, <1>9 DEF vars, SameOrDown, persistent, live, jobs
<1> QED BY <1>1, <1>3, <1>4, <1>5, <1>6, <1>7, <1>8, <1>9 DEF Next

\* Whatever changes were applied, failed, undone or refused, between changes
\* the services and the rules are those of the state files.
THEOREM AgreementWhenQuiet == Spec => []LiveMatchesState
<1>1. Init => TypeOK /\ LockInv /\ StateInv
      BY InitType, InitLock, InitState
<1>2. TypeOK /\ LockInv /\ StateInv /\ [Next]_vars => TypeOK' /\ LockInv' /\ StateInv'
      BY StepType, StepLock, StepState
<1>3. StateInv => LiveMatchesState
      BY DEF StateInv, LiveMatchesState, Quiet, Agreement
<1> QED BY <1>1, <1>2, <1>3, PTL DEF Spec

-----------------------------------------------------------------------------
(* What a script reports.  The strategy it wrote stays in the state file   *)
(* until it ends, unless nfqws falls back to "none"; so does the exit mode.*)
(* This needs the lock, and not the agreement above.                       *)

\* The state file holds strategy s, or "none" because s was deleted.
Holds(s) == strategy = s \/ (strategy = "none" /\ s \notin catalog)

Outcome(r) ==
    pc[r] \in Locked \ {"dying"} =>
        /\ pc[r] \in {"check", "persist", "firewall", "undo"} => rc[r] = 0
        /\ pc[r] \in {"stop", "start", "spawn"} => rc[r] \in {0, 3}
        /\ change[r].kind = "strategy" =>
            /\ pc[r] \in {"stop", "start", "spawn", "firewall", "done"} =>
                  /\ rc[r] = 0 => Holds(change[r].to)
                  /\ rc[r] = 3 => Holds(old[r])
            /\ pc[r] \in {"stop", "start", "spawn", "undo"} => cur[r] = "nfqws"
            /\ pc[r] \in {"start", "spawn"} => svc["nfqws"] = "down"
            /\ pc[r] = "done" /\ rc[r] = 3 => NfqwsAgrees
            /\ pc[r] # "render"
        /\ change[r].kind = "exit" =>
            /\ pc[r] \notin {"check", "persist"} => exitMode = change[r].to
            /\ pc[r] # "undo" /\ rc[r] = 0

OutcomeInv ==
    /\ \A r \in Requests : Outcome(r)
    /\ \A r \in Requests : pc[r] \in {"idle", "flock"} => rc[r] = 0

\* Initially no change has ended.
LEMMA InitOutcome == Init => OutcomeInv
BY DEF Init, OutcomeInv, Outcome, All

\* A step of a script keeps what it claims of its outcome.
LEMMA OutcomeStep ==
    ASSUME TypeOK, OutcomeInv, NEW r \in Requests, ApplyStep(r)
    PROVE  Outcome(r)' /\ (pc'[r] \in {"idle", "flock"} => rc'[r] = 0)
<1> USE DEF TypeOK, Proceed, ProceedLeaking, Return, Outcome, OutcomeInv, Holds
<1>1. CASE Check(r)
      BY <1>1 DEF Check, persistent
<1>2. CASE Persist(r)
      BY <1>2 DEF Persist
<1>3. CASE Render(r) \/ Stop(r)
      BY <1>3 DEF Render, Stop, persistent
<1>4. CASE StartExit(r)
      BY <1>4 DEF StartExit, persistent
<1>5. CASE ResolveNfqws(r)
      BY <1>5 DEF ResolveNfqws, AfterNfqws, NfqwsAgrees
<1>6. CASE SpawnNfqws(r)
      BY <1>6, SpawnedIs DEF SpawnNfqws, AfterNfqws, NfqwsAgrees, persistent
<1>7. CASE ReloadFirewall(r) \/ Undo(r)
      BY <1>7 DEF ReloadFirewall, Undo, persistent
<1>8. CASE Acquire(r) \/ GiveUp(r) \/ Finish(r) \/ Die(r)
      BY <1>8 DEF Acquire, GiveUp, Finish, Die, EndAs, persistent
<1> QED BY <1>1, <1>2, <1>3, <1>4, <1>5, <1>6, <1>7, <1>8 DEF ApplyStep

\* Every step keeps the claims about outcomes.
LEMMA StepOutcome ==
    ASSUME TypeOK, LockInv, OutcomeInv, [Next]_vars
    PROVE  OutcomeInv'
<1>1. ASSUME NEW r \in Requests, ApplyStep(r)
      PROVE  OutcomeInv'
  <2>1. Outcome(r)' /\ (pc'[r] \in {"idle", "flock"} => rc'[r] = 0)
        BY <1>1, OutcomeStep
  <2>2. ASSUME NEW t \in Requests, t # r
        PROVE  Outcome(t)' /\ (pc'[t] \in {"idle", "flock"} => rc'[t] = 0)
    <3>1. /\ pc'[t] = pc[t] /\ cur'[t] = cur[t] /\ change'[t] = change[t]
          /\ old'[t] = old[t] /\ rc'[t] = rc[t]
          BY <1>1, <2>2 DEF ApplyStep, TypeOK, Acquire, GiveUp, Check, Persist, Render, Stop,
             StartExit, ResolveNfqws, SpawnNfqws, ReloadFirewall, Undo, Finish, Die, EndAs,
             Return, Proceed, ProceedLeaking, AfterNfqws
    <3>2. CASE pc[t] \notin Locked
          BY <3>1, <3>2 DEF OutcomeInv, Outcome
    <3>3. CASE pc[t] \in Locked
      <4>1. pc[r] \notin Locked
            BY <2>2, <3>3 DEF LockInv
      <4>2. Acquire(r) \/ GiveUp(r)
            BY <1>1, <4>1 DEF ApplyStep, Check, Persist, Render, Stop, StartExit,
               ResolveNfqws, SpawnNfqws, ReloadFirewall, Undo, Finish, Die
      <4>3. UNCHANGED <<strategy, catalog, exitMode, svc>>
            BY <4>2 DEF Acquire, GiveUp, persistent, live
      <4> QED BY <3>1, <4>3 DEF OutcomeInv, Outcome, Holds, NfqwsAgrees
    <3> QED BY <3>2, <3>3
  <2> QED BY <2>1, <2>2 DEF OutcomeInv
<1>2. ASSUME NEW r \in Requests, PanelTimeout(r)
      PROVE  OutcomeInv'
      BY <1>2 DEF PanelTimeout, OutcomeInv, Outcome, Holds, NfqwsAgrees, persistent, live
<1>3. ASSUME NEW r \in Requests, NEW q \in Changes, Submit(r, q)
      PROVE  OutcomeInv'
      BY <1>3 DEF Submit, OutcomeInv, Outcome, Holds, NfqwsAgrees, persistent, live, TypeOK
<1>4. CASE DeleteWrite \/ \E s \in Strategies : DeleteCheck(s)
      BY <1>4 DEF DeleteWrite, DeleteCheck, OutcomeInv, Outcome, Holds, NfqwsAgrees,
                  persistent, live, jobs
<1>5. ASSUME NEW s \in Services, ServiceDies(s)
      PROVE  OutcomeInv'
      BY <1>5 DEF ServiceDies, OutcomeInv, Outcome, Holds, NfqwsAgrees, persistent, jobs,
                  TypeOK
<1>6. CASE Crash
      BY <1>6 DEF Crash, Wiped, OutcomeInv, Outcome, All
<1>7. CASE BootStep
  <2>1. \A r \in Requests : pc[r] = "idle"
        BY <1>7 DEF BootStep, BootUp, BootSeed, BootFirewall, BootStart, BootStartFails,
                    LockInv
  <2>2. \A r \in Requests : pc'[r] = "idle" /\ rc'[r] = 0
        BY <1>7, <2>1 DEF BootStep, BootUp, BootSeed, BootFirewall, BootStart,
           BootStartFails, Wiped, All, jobs, OutcomeInv
  <2> QED BY <2>2 DEF OutcomeInv, Outcome
<1>8. CASE UNCHANGED vars
      BY <1>8 DEF vars, OutcomeInv, Outcome, Holds, NfqwsAgrees, persistent, live, jobs
<1> QED BY <1>1, <1>2, <1>3, <1>4, <1>5, <1>6, <1>7, <1>8 DEF Next

\* A change reported as done was done, or its strategy was deleted under it.
THEOREM SuccessIsReal == Spec => []SuccessApplies
<1>1. Init => TypeOK /\ LockInv /\ OutcomeInv
      BY InitType, InitLock, InitOutcome
<1>2. TypeOK /\ LockInv /\ OutcomeInv /\ [Next]_vars => TypeOK' /\ LockInv' /\ OutcomeInv'
      BY StepType, StepLock, StepOutcome
<1>3. TypeOK /\ OutcomeInv => SuccessApplies
      BY DEF TypeOK, OutcomeInv, Outcome, SuccessApplies, Holds
<1> QED BY <1>1, <1>2, <1>3, PTL DEF Spec

\* A strategy that does not start leaves the one before it in place.
THEOREM FailureIsUndone == Spec => []FailureRestores
<1>1. Init => TypeOK /\ LockInv /\ OutcomeInv
      BY InitType, InitLock, InitOutcome
<1>2. TypeOK /\ LockInv /\ OutcomeInv /\ [Next]_vars => TypeOK' /\ LockInv' /\ OutcomeInv'
      BY StepType, StepLock, StepOutcome
<1>3. TypeOK /\ OutcomeInv => FailureRestores
      BY DEF TypeOK, OutcomeInv, Outcome, FailureRestores, Holds
<1> QED BY <1>1, <1>2, <1>3, PTL DEF Spec

-----------------------------------------------------------------------------
(* The route of the clients' UDP.  A relay that runs has its route, except *)
(* between its restart by do_exit and the firewall that follows: only the  *)
(* script that restarted it may be there, and if that script dies instead  *)
(* it takes Intact with it.  The agreement above is needed once: a relay   *)
(* that runs when the firewall is written was started for an upstream mode.*)

Routed == svc["udprelay"] # "down" => fw.rule /\ fw.route

\* Script r has restarted the relay and not yet written the firewall, or dies.
Routing(r) == pc[r] = "dying" \/ (pc[r] = "firewall" /\ change[r].kind = "exit")

RouteInv ==
    /\ boot = "nfqws" => Routed
    /\ boot = "ready" /\ Intact => Routed \/ \E r \in Requests : Routing(r)

\* Initially there is no relay.
LEMMA InitRoute == Init => RouteInv
BY DEF Init, RouteInv

\* Losing the route of another service loses no route.
LEMMA OtherService ==
    ASSUME NEW s \in Services, s # "udprelay"
    PROVE  WithoutRoute(s) = fw
BY DEF WithoutRoute

\* The firewall script routes a relay that was started for the exit mode, and
\* never takes a route away.
LEMMA FirewallRoutes ==
    ASSUME TypeOK, ExitAgrees \/ Routed, fw' = FirewallStart, svc' = svc
    PROVE  Routed'
<1> SUFFICES ASSUME svc["udprelay"] # "down"
             PROVE  fw'.rule /\ fw'.route
    BY DEF Routed
<1>1. CASE Routed
      BY <1>1 DEF Routed, FirewallStart
<1>2. CASE ExitAgrees
  <2>1. svc["udprelay"] = Wanted("udprelay")
        BY <1>2 DEF ExitAgrees
  <2>2. exitMode # "direct" /\ UdpRelay
        BY <2>1 DEF Wanted
  <2> QED BY <2>2 DEF FirewallStart
<1> QED BY <1>1, <1>2

\* A script that is past flock leaves a relay routed, or is to route it.
LEMMA LockedRoute ==
    ASSUME TypeOK, NEW r \in Requests, ScriptInv(r), ApplyStep(r), pc[r] \in Locked,
           Routed \/ Routing(r), pc'[r] # "broken"
    PROVE  Routed' \/ Routing(r)'
<1> USE DEF TypeOK, Proceed, ProceedLeaking, Return, EndAs, Routing
<1>1. CASE Check(r) \/ Persist(r) \/ Render(r) \/ Undo(r) \/ Finish(r)
      BY <1>1 DEF Check, Persist, Render, Undo, Finish, Routed, live
<1>2. CASE Stop(r)
      BY <1>2 DEF Stop, Routed, WithoutRoute
<1>3. CASE StartExit(r)
  <2>1. CASE cur[r] = "udprelay"
    <3>1. change[r].kind = "exit" /\ change'[r] = change[r]
          BY <1>3, <2>1 DEF StartExit, ScriptInv, StrategyScript
    <3>2. pc'[r] \in {"firewall", "dying"}
          BY <1>3, <2>1 DEF StartExit
    <3> QED BY <3>1, <3>2
  <2>2. CASE cur[r] # "udprelay"
        BY <1>3, <2>2 DEF StartExit, Routed
  <2> QED BY <2>1, <2>2
<1>4. CASE ResolveNfqws(r) \/ SpawnNfqws(r)
      BY <1>4 DEF ResolveNfqws, SpawnNfqws, AfterNfqws, Routed
<1>5. CASE ReloadFirewall(r)
  <2>1. ExitAgrees \/ Routed
        BY <1>5 DEF ReloadFirewall, ScriptInv, StrategyScript, ExitScript
  <2>2. fw' = FirewallStart /\ svc' = svc
        BY <1>5 DEF ReloadFirewall
  <2> QED BY <2>1, <2>2, FirewallRoutes
<1>6. CASE Acquire(r) \/ GiveUp(r) \/ Die(r)
      BY <1>6 DEF Acquire, GiveUp, Die
<1> QED BY <1>1, <1>2, <1>3, <1>4, <1>5, <1>6 DEF ApplyStep

\* A script leaves the services and the rules alone until it holds the lock.
LEMMA WaitingScript ==
    ASSUME NEW r \in Requests, ApplyStep(r), pc[r] \notin Locked
    PROVE  (Acquire(r) \/ GiveUp(r)) /\ UNCHANGED live
<1>1. Acquire(r) \/ GiveUp(r)
      BY DEF ApplyStep, Check, Persist, Render, Stop, StartExit, ResolveNfqws,
             SpawnNfqws, ReloadFirewall, Undo, Finish, Die
<1> QED BY <1>1 DEF Acquire, GiveUp

\* Hence a step of a script keeps the route or the script that restores it.
LEMMA ApplyRoute ==
    ASSUME TypeOK, LockInv, StateInv, RouteInv, NEW r \in Requests, ApplyStep(r)
    PROVE  RouteInv'
<1>1. boot = "ready" /\ boot' = "ready"
      BY DEF ApplyStep, LockInv, Acquire, GiveUp, Check, Persist, Render, Stop, StartExit,
             ResolveNfqws, SpawnNfqws, ReloadFirewall, Undo, Finish, Die
<1>2. \A t \in Requests : t # r => pc'[t] = pc[t] /\ change'[t] = change[t]
      BY DEF ApplyStep, TypeOK, Acquire, GiveUp, Check, Persist, Render, Stop,
             StartExit, ResolveNfqws, SpawnNfqws, ReloadFirewall, Undo, Finish, Die, EndAs,
             Return, Proceed, ProceedLeaking, AfterNfqws
<1> SUFFICES ASSUME Intact'
             PROVE  Routed' \/ \E t \in Requests : Routing(t)'
    BY <1>1 DEF RouteInv
<1>3. pc'[r] # "broken"
      BY DEF Intact
<1>4. pc[r] # "broken"
      BY DEF ApplyStep, Acquire, GiveUp, Check, Persist, Render, Stop, StartExit,
             ResolveNfqws, SpawnNfqws, ReloadFirewall, Undo, Finish, Die
<1>5. Intact
      BY <1>2, <1>4 DEF Intact
<1>6. ScriptInv(r)
      BY <1>1, <1>5 DEF StateInv
<1>7. ASSUME NEW t \in Requests, t # r, Routing(t)
      PROVE  Routing(t)'
      BY <1>2, <1>7 DEF Routing
<1>8. CASE pc[r] \in Locked
      BY <1>1, <1>3, <1>5, <1>6, <1>7, <1>8, LockedRoute DEF RouteInv
<1>9. CASE pc[r] \notin Locked
      BY <1>1, <1>5, <1>7, <1>9, WaitingScript DEF RouteInv, Routed, Routing, live
<1> QED BY <1>8, <1>9

\* The boot writes the firewall after it has started the relay and then starts
\* nfqws alone: it cannot fail and go on, unless nfqws is flaky.
LEMMA BootRoute ==
    ASSUME TypeOK, LockInv, StateInv, RouteInv, BootStep, "nfqws" \notin Flaky
    PROVE  RouteInv'
<1>1. boot # "ready" /\ BootInv
      BY DEF BootStep, BootUp, BootSeed, BootFirewall, BootStart, BootStartFails, StateInv
<1>2. CASE BootUp \/ BootSeed
      BY <1>2 DEF BootUp, BootSeed, RouteInv
<1>3. CASE BootFirewall
  <2>1. Routed'
        BY <1>1, <1>3, FirewallRoutes DEF BootFirewall, BootInv
  <2> QED BY <2>1 DEF RouteInv
<1>4. ASSUME NEW s \in Services, BootStart(s)
      PROVE  RouteInv'
  <2>1. CASE s = "nfqws"
    <3>1. Routed'
          BY <1>4, <2>1, OtherService DEF BootStart, RouteInv, Routed, TypeOK
    <3> QED BY <3>1 DEF RouteInv
  <2>2. CASE s # "nfqws"
    <3>1. boot' \notin {"nfqws", "ready"}
          BY <1>4, <2>2 DEF BootStart, NextStage
    <3> QED BY <3>1 DEF RouteInv
  <2> QED BY <2>1, <2>2
<1>5. ASSUME NEW s \in Services, BootStartFails(s)
      PROVE  RouteInv'
  <2>1. PICK failed \in SUBSET {t \in Services : "down" \in Spawned(t, Wanted(t))} :
            /\ \A t \in Services \ failed : Wanted(t) \in Spawned(t, Wanted(t))
            /\ IF Fatal(s, failed)
               THEN Wiped
               ELSE /\ svc' = [t \in Services |-> IF t \in failed THEN "down" ELSE Wanted(t)]
                    /\ fw' = IF Wanted("udprelay") = "down" THEN fw
                             ELSE WithoutRoute("udprelay")
                    /\ boot' = NextStage[s]
                    /\ UNCHANGED <<lock, jobs, doomed>>
        BY <1>5 DEF BootStartFails
  <2>2. CASE Fatal(s, failed)
        BY <2>1, <2>2 DEF Wiped, RouteInv
  <2>3. CASE ~Fatal(s, failed) /\ s = "nfqws"
    <3>1. Wanted("nfqws") # "down" /\ "down" \in Spawned("nfqws", Wanted("nfqws"))
          BY <1>5, <2>3 DEF BootStartFails
    <3>2. Spawned("nfqws", Wanted("nfqws")) = {"down"}
          BY <3>1 DEF Spawned
    <3>3. "nfqws" \in failed
          BY <2>1, <3>1, <3>2
    <3>4. strategy # "none"
          BY <3>1 DEF Wanted
    <3> QED BY <2>3, <3>3, <3>4 DEF Fatal
  <2>4. CASE ~Fatal(s, failed) /\ s # "nfqws"
    <3>1. boot' \notin {"nfqws", "ready"}
          BY <2>1, <2>4 DEF NextStage
    <3> QED BY <3>1 DEF RouteInv
  <2> QED BY <2>2, <2>3, <2>4
<1> QED BY <1>2, <1>3, <1>4, <1>5 DEF BootStep

\* So does every step.
LEMMA StepRoute ==
    ASSUME TypeOK, LockInv, StateInv, RouteInv, [Next]_vars, "nfqws" \notin Flaky
    PROVE  RouteInv'
<1>1. ASSUME NEW r \in Requests, ApplyStep(r)
      PROVE  RouteInv'
      BY <1>1, ApplyRoute
<1>2. ASSUME UNCHANGED <<boot, live, pc, change>>
      PROVE  RouteInv'
      BY <1>2 DEF RouteInv, Routed, Routing, Intact, live
<1>3. CASE DeleteWrite \/ (\E s \in Strategies : DeleteCheck(s)) \/ UNCHANGED vars
      BY <1>2, <1>3 DEF DeleteWrite, DeleteCheck, vars, live, jobs
<1>4. ASSUME NEW r \in Requests, PanelTimeout(r)
      PROVE  RouteInv'
      BY <1>2, <1>4 DEF PanelTimeout
<1>5. ASSUME NEW r \in Requests, NEW q \in Changes, Submit(r, q)
      PROVE  RouteInv'
  <2>1. UNCHANGED <<boot, live>> /\ boot = "ready"
        BY <1>5 DEF Submit
  <2>2. \A t \in Requests : t # r => pc'[t] = pc[t] /\ change'[t] = change[t]
        BY <1>5 DEF Submit, TypeOK
  <2>3. pc[r] = "idle"
        BY <1>5 DEF Submit
  <2>4. Intact' => Intact
        BY <2>2, <2>3 DEF Intact
  <2>5. \A t \in Requests : Routing(t) => Routing(t)'
        BY <2>2, <2>3 DEF Routing
  <2> QED BY <2>1, <2>4, <2>5 DEF RouteInv, Routed, live
<1>6. ASSUME NEW s \in Services, ServiceDies(s)
      PROVE  RouteInv'
  <2>1. UNCHANGED <<boot, pc, change>>
        BY <1>6 DEF ServiceDies, jobs
  <2>2. Routed => Routed'
        BY <1>6, OtherService DEF ServiceDies, Routed, TypeOK
  <2> QED BY <2>1, <2>2 DEF RouteInv, Routing, Intact
<1>7. CASE Crash
      BY <1>7 DEF Crash, Wiped, RouteInv
<1>8. CASE BootStep
      BY <1>8, BootRoute
<1> QED BY <1>1, <1>3, <1>4, <1>5, <1>6, <1>7, <1>8 DEF Next

\* Whenever nothing is in flight a UDP relay that runs has its rule and its
\* route, whatever restarted it last (do_exit, entrypoint.sh), unless nfqws may
\* fail to start with a strategy that it can run: the dispatcher of wz-svc.sh
\* then starts the relay again behind the firewall's back.
THEOREM RelayIsRouted ==
    ASSUME "nfqws" \notin Flaky
    PROVE  Spec => []RelayRouted
<1>1. Init => TypeOK /\ LockInv /\ StateInv /\ RouteInv
      BY InitType, InitLock, InitState, InitRoute
<1>2. /\ TypeOK /\ LockInv /\ StateInv /\ RouteInv /\ [Next]_vars
      => TypeOK' /\ LockInv' /\ StateInv' /\ RouteInv'
      BY StepType, StepLock, StepState, StepRoute
<1>3. LockInv /\ RouteInv => RelayRouted
  <2> SUFFICES ASSUME LockInv, RouteInv, Quiet, Intact
               PROVE  Routed
      BY DEF RelayRouted, Routed
  <2>1. \A r \in Requests : pc[r] \notin Locked
        BY DEF LockInv, Quiet
  <2> QED BY <2>1 DEF RouteInv, Routing, Quiet
<1> QED BY <1>1, <1>2, <1>3, PTL DEF Spec
=============================================================================
