------------------------------ MODULE Gateway ------------------------------
(***************************************************************************)
(* The control plane of the container: entrypoint.sh boots it, wz-apply.sh *)
(* changes the strategy or the exit mode under the apply lock, wz-svc.sh   *)
(* starts and stops the services, wz-fw.sh writes the firewall, and the    *)
(* panel submits the changes, waits 90 s for their answer and edits the    *)
(* strategy catalogue without the lock.                                    *)
(*                                                                         *)
(* A change is a shell script that takes many steps.  Other changes, edits *)
(* of the catalogue, a dying service, the panel's timeout and the death of *)
(* the container fall between any two of them.                             *)
(***************************************************************************)
EXTENDS Naturals, FiniteSets

CONSTANTS
    Requests,       \* the HTTP handler threads of the panel that apply changes
    Strategies,     \* strategy ids, "none" among them
    Broken,         \* the strategies nfqws2 exits on: it is dead after 0.3 s
    Flaky,          \* services whose start may fail whatever they start with
    Mortal,         \* services that may die while they run
    UdpRelay,       \* UDP_PROXY = relay (otherwise UDP exits directly)
    MaxCrashes      \* bound on the number of deaths of the container

Modes == {"direct", "socks5", "ss"}
AccessLayer == {"ss-server", "sockd"}
ExitLayer == {"redsocks", "ss-local", "udprelay"}
Services == AccessLayer \cup ExitLayer \cup {"nfqws"}

ASSUME StrategiesAssumption == /\ "none" \in Strategies
                               /\ "down" \notin Strategies
                               /\ Broken \subseteq Strategies \ {"none"}
ASSUME ServicesAssumption == /\ Flaky \subseteq Services
                             /\ Mortal \subseteq Services
                             /\ UdpRelay \in BOOLEAN
                             /\ MaxCrashes \in Nat
ASSUME RequestsAssumption == Requests \cap Services = {}

VARIABLES
    strategy,   \* state/strategy, in the docker volume
    exitMode,   \* state/exit_mode, in the docker volume
    catalog,    \* the ids in config/strategies.json
    conf,       \* the exit mode redsocks.conf was last rendered for
    svc,        \* what each service runs with, or "down"
    fw,         \* the firewall and the policy route (see Firewall below)
    boot,       \* where entrypoint.sh is: "down", ..., "ready"
    crashes,
    lock,       \* the processes that hold the apply lock's file open
    pc,         \* the next step of each wz-apply.sh
    cur,        \* the service each wz-apply.sh is restarting
    change,     \* what each wz-apply.sh was asked to do
    old,        \* do_strategy's local `new`: the strategy it found
    rc,         \* the exit status each wz-apply.sh is heading for
    caller,     \* the panel's thread that waits for each wz-apply.sh
    doomed      \* the strategy a delete request has checked ("none": no request)

persistent == <<strategy, exitMode, catalog, conf>>
live == <<svc, fw>>
jobs == <<pc, cur, change, old, rc, caller>>
vars == <<persistent, live, boot, crashes, lock, jobs, doomed>>

Changes == [kind: {"strategy"}, to: Strategies] \cup [kind: {"exit"}, to: Modes]
BootStages == {"down", "seed", "firewall", "ready"} \cup Services

NoChange == [kind |-> "strategy", to |-> "none"]
All(value) == [r \in Requests |-> value]

\* The steps of wz-apply.sh once it holds the lock.
Locked == {"check", "persist", "render", "stop", "start", "spawn", "firewall",
           "undo", "done", "dying"}
PCs == {"idle", "flock", "broken"} \cup Locked

----------------------------------------------------------------------------
(* wz-fw.sh.  The firewall is the set of flows sent to NFQUEUE, the nat    *)
(* redirect of the clients' TCP into redsocks, the ip rule for their UDP,  *)
(* and the route of that rule into utun.                                   *)

NoFirewall == [nfq |-> {}, redirect |-> FALSE, rule |-> FALSE, route |-> FALSE]
Flows == {"proxy-tcp", "proxy-udp", "exit-tcp", "exit-udp"}

\* The flows that mode desyncs.
FlowsOf(mode) ==
    IF mode = "direct" THEN {"proxy-tcp", "proxy-udp"}
    ELSE {"exit-tcp", "exit-udp"} \cup (IF UdpRelay THEN {} ELSE {"proxy-udp"})

\* (FirewallStart_Adds: the chain is not flushed before the rules are added.)
FirewallStart_Adds ==
    LET upstream == exitMode # "direct"
        routed == upstream /\ UdpRelay
    IN  [nfq      |-> fw.nfq \cup (IF strategy = "none" THEN {} ELSE FlowsOf(exitMode)),
         redirect |-> fw.redirect \/ upstream,
         rule     |-> fw.rule \/ routed,
         route    |-> fw.route \/ (routed /\ svc["udprelay"] # "down")]

\* wz-fw.sh start, in terms of the state files as they are now.  The NFQUEUE
\* rules are rebuilt; the redirect, the rule and the route are only ever added.
\* `ip route add` fails, and nobody looks, unless udprelay has created utun.
FirewallStart ==
    LET upstream == exitMode # "direct"
        routed == upstream /\ UdpRelay
    IN  [nfq      |-> IF strategy = "none" THEN {} ELSE FlowsOf(exitMode),
         redirect |-> fw.redirect \/ upstream,
         rule     |-> fw.rule \/ routed,
         route    |-> fw.route \/ (routed /\ svc["udprelay"] # "down")]

----------------------------------------------------------------------------
(* wz-svc.sh                                                               *)

\* What start_<s> would start s with; "down": it returns 0 and starts nothing.
\* redsocks reads the configuration file that was rendered last.
Wanted(s) ==
    IF s \in AccessLayer THEN "on"
    ELSE IF s = "nfqws" THEN (IF strategy = "none" THEN "down" ELSE strategy)
    ELSE IF exitMode = "direct" THEN "down"
    ELSE IF s = "redsocks" THEN conf
    ELSE IF s = "ss-local" THEN (IF exitMode = "ss" THEN "ss" ELSE "down")
    ELSE IF UdpRelay THEN exitMode ELSE "down"

\* The possible results of spawn_svc for a start of s with c: c, or "down".
Spawned(s, c) ==
    IF s = "nfqws" /\ c \in Broken THEN {"down"}
    ELSE IF s \in Flaky THEN {c, "down"}
    ELSE {c}

\* render_all: redsocks.conf is written in the upstream modes only.
Rendered == IF exitMode = "direct" THEN conf ELSE exitMode

\* The kernel drops the route with utun, which lives as long as udprelay does.
WithoutRoute(s) == IF s = "udprelay" THEN [fw EXCEPT !.route = FALSE] ELSE fw

\* The services that inherit fd 9, the apply lock, from the script that starts
\* them: none, wz-svc.sh closes it before it starts anything.
\* (Inherits_Lock: it does not.)
Inherits_Lock(s) == {s}
Inherits(s) == {}

----------------------------------------------------------------------------
(* wz-apply.sh.  A script whose caller has timed out has lost the reader   *)
(* of its output: the next line it logs kills it with SIGPIPE and frees    *)
(* the lock.  It finishes at most the step it is in.                       *)

Orphan(r) == caller[r] = "gone"

\* The script goes on to step p; `leaked` are the services that keep fd 9.
ProceedLeaking(r, p, leaked) ==
    /\ pc' = [pc EXCEPT ![r] = IF Orphan(r) THEN "dying" ELSE p]
    /\ lock' = lock \cup leaked

Proceed(r, p) == ProceedLeaking(r, p, {})

\* The script ends at `end`, which closes its fd 9 and drops its variables.
EndAs(r, end) ==
    /\ pc' = [pc EXCEPT ![r] = end]
    /\ cur' = [cur EXCEPT ![r] = "nfqws"]
    /\ change' = [change EXCEPT ![r] = NoChange]
    /\ old' = [old EXCEPT ![r] = "none"]
    /\ rc' = [rc EXCEPT ![r] = 0]
    /\ caller' = [caller EXCEPT ![r] = "none"]
    /\ lock' = lock \ {r}

Return(r, status) ==
    /\ rc' = [rc EXCEPT ![r] = status]
    /\ Proceed(r, "done")

\* flock -w 30: the lock is free when no process has its file open any more.
\* (Acquire_Busy: a script that goes on when flock fails.)
Acquire_Busy(r) ==
    /\ pc[r] = "flock"
    /\ lock' = lock \cup {r}
    /\ pc' = [pc EXCEPT ![r] = "check"]
    /\ UNCHANGED <<persistent, live, boot, crashes, cur, change, old, rc, caller, doomed>>

Acquire(r) ==
    /\ pc[r] = "flock"
    /\ lock = {}
    /\ lock' = {r}
    /\ pc' = [pc EXCEPT ![r] = "check"]
    /\ UNCHANGED <<persistent, live, boot, crashes, cur, change, old, rc, caller, doomed>>

\* 30 s went by and the lock was held all along.
\* (GiveUp_Never: flock without -w.)
GiveUp_Never(r) == FALSE /\ UNCHANGED vars
GiveUp(r) ==
    /\ pc[r] = "flock"
    /\ lock # {}
    /\ EndAs(r, "idle")
    /\ UNCHANGED <<persistent, live, boot, crashes, doomed>>

\* The early returns of do_strategy and do_exit.
Check(r) ==
    /\ pc[r] = "check"
    /\ LET q == change[r]
           active == IF q.kind = "strategy" THEN strategy ELSE exitMode
       IN  \/ /\ q.kind = "strategy" /\ q.to \notin catalog
              /\ Return(r, 2)
              /\ UNCHANGED old
           \/ /\ q.kind = "strategy" => q.to \in catalog
              /\ q.to = active
              /\ Return(r, 0)
              /\ UNCHANGED old
           \/ /\ q.kind = "strategy" => q.to \in catalog
              /\ q.to # active
              /\ old' = [old EXCEPT ![r] = strategy]
              /\ Proceed(r, "persist")
              /\ UNCHANGED rc
    /\ UNCHANGED <<persistent, live, boot, crashes, cur, change, caller, doomed>>

\* state_write replaces the file with mv.
Persist(r) ==
    /\ pc[r] = "persist"
    /\ IF change[r].kind = "strategy"
       THEN /\ strategy' = change[r].to
            /\ cur' = [cur EXCEPT ![r] = "nfqws"]
            /\ Proceed(r, "stop")
            /\ UNCHANGED exitMode
       ELSE /\ exitMode' = change[r].to
            /\ Proceed(r, "render")
            /\ UNCHANGED <<strategy, cur>>
    /\ UNCHANGED <<catalog, conf, live, boot, crashes, change, old, rc, caller, doomed>>

\* wz-svc.sh render
Render(r) ==
    /\ pc[r] = "render"
    /\ conf' = Rendered
    /\ cur' = [cur EXCEPT ![r] = "redsocks"]
    /\ Proceed(r, "stop")
    /\ UNCHANGED <<strategy, exitMode, catalog, live, boot, crashes, change, old, rc,
                   caller, doomed>>

\* wz-svc.sh restart <svc>, first half: stop_svc.
Stop(r) ==
    /\ pc[r] = "stop"
    /\ svc' = [svc EXCEPT ![cur[r]] = "down"]
    /\ fw' = WithoutRoute(cur[r])
    /\ Proceed(r, "start")
    /\ UNCHANGED <<persistent, boot, crashes, cur, change, old, rc, caller, doomed>>

\* Second half, for a service of the exit layer.  do_exit goes on to the next
\* one whatever the result, and to the firewall after the last.
StartExit(r) ==
    /\ pc[r] = "start" /\ cur[r] # "nfqws"
    /\ \E c \in Spawned(cur[r], Wanted(cur[r])) :
          svc' = [svc EXCEPT ![cur[r]] = c]
    /\ \/ /\ cur[r] = "udprelay"
          /\ ProceedLeaking(r, "firewall", Inherits(cur[r]))
          /\ UNCHANGED cur
       \/ \E next \in ExitLayer :
          /\ <<cur[r], next>> \in {<<"redsocks", "ss-local">>, <<"ss-local", "udprelay">>}
          /\ cur' = [cur EXCEPT ![r] = next]
          /\ ProceedLeaking(r, "stop", Inherits(cur[r]))
    /\ UNCHANGED <<persistent, fw, boot, crashes, change, old, rc, caller, doomed>>

\* What follows a restart of nfqws, by its exit status.  do_exit ignores it.
\* do_strategy reloads the firewall or undoes the change; after the undo,
\* where rc is 3 already, it ignores it too.
AfterNfqws(r, ok, leaked) ==
    IF change[r].kind = "exit"
    THEN rc' = [rc EXCEPT ![r] = 0] /\ ProceedLeaking(r, "done", leaked)
    ELSE /\ UNCHANGED rc
         /\ ProceedLeaking(r, IF rc[r] = 3 THEN "done"
                               ELSE IF ok THEN "firewall" ELSE "undo", leaked)

\* Second half, for nfqws: start_nfqws up to strategy.py.  An id that the
\* catalogue lacks is replaced by "none" in the state file.
ResolveNfqws(r) ==
    /\ pc[r] = "start" /\ cur[r] = "nfqws"
    /\ IF strategy \in catalog /\ strategy # "none"
       THEN Proceed(r, "spawn") /\ UNCHANGED <<strategy, svc, rc>>
       ELSE /\ strategy' = "none"
            /\ svc' = [svc EXCEPT !["nfqws"] = "down"]
            /\ AfterNfqws(r, TRUE, {})
    /\ UNCHANGED <<exitMode, catalog, conf, fw, boot, crashes, cur, change, old, caller,
                   doomed>>

\* strategy.py looks the id up once more and fails if it is gone; spawn_svc.
SpawnNfqws(r) ==
    /\ pc[r] = "spawn"
    /\ \E c \in IF strategy \in catalog THEN Spawned("nfqws", strategy) ELSE {"down"} :
          /\ svc' = [svc EXCEPT !["nfqws"] = c]
          /\ AfterNfqws(r, c # "down", IF c = "down" THEN {} ELSE Inherits("nfqws"))
    /\ UNCHANGED <<persistent, fw, boot, crashes, cur, change, old, caller, doomed>>

\* wz-fw.sh start, which always exits 0.
ReloadFirewall(r) ==
    /\ pc[r] = "firewall"
    /\ fw' = FirewallStart
    /\ IF change[r].kind = "strategy"
       THEN Return(r, 0) /\ UNCHANGED cur
       ELSE /\ cur' = [cur EXCEPT ![r] = "nfqws"]
            /\ Proceed(r, "stop")
            /\ UNCHANGED rc
    /\ UNCHANGED <<persistent, svc, boot, crashes, change, old, caller, doomed>>

\* do_strategy could not start nfqws: it writes the old id back.
\* (Undo_Forgotten: it restarts nfqws without writing the old id back.
\* Undo_AsSuccess: it goes on as if the change had succeeded.)
Undo_Forgotten(r) ==
    /\ pc[r] = "undo"
    /\ rc' = [rc EXCEPT ![r] = 3]
    /\ Proceed(r, "stop")
    /\ UNCHANGED <<persistent, live, boot, crashes, cur, change, old, caller, doomed>>

Undo_AsSuccess(r) ==
    /\ pc[r] = "undo"
    /\ strategy' = old[r]
    /\ Proceed(r, "stop")
    /\ UNCHANGED <<exitMode, catalog, conf, live, boot, crashes, cur, change, old, rc,
                   caller, doomed>>

Undo(r) ==
    /\ pc[r] = "undo"
    /\ strategy' = old[r]
    /\ rc' = [rc EXCEPT ![r] = 3]
    /\ Proceed(r, "stop")
    /\ UNCHANGED <<exitMode, catalog, conf, live, boot, crashes, cur, change, old, caller,
                   doomed>>

\* The script ends, which frees the lock; apply() passes its status on.
Finish(r) ==
    /\ pc[r] = "done"
    /\ EndAs(r, "idle")
    /\ UNCHANGED <<persistent, live, boot, crashes, doomed>>

\* The next line an orphan logs kills it.
Die(r) ==
    /\ pc[r] \in Locked
    /\ Orphan(r)
    /\ EndAs(r, "broken")
    /\ UNCHANGED <<persistent, live, boot, crashes, doomed>>

ApplyStep(r) ==
    \/ Acquire(r) \/ GiveUp(r) \/ Check(r) \/ Persist(r) \/ Render(r)
    \/ Stop(r) \/ StartExit(r) \/ ResolveNfqws(r) \/ SpawnNfqws(r)
    \/ ReloadFirewall(r) \/ Undo(r) \/ Finish(r) \/ Die(r)

----------------------------------------------------------------------------
(* The panel                                                               *)

\* POST /api/strategy and POST /api/exit start wz-apply.sh; the former checks
\* the id first.
Submit(r, q) ==
    /\ boot = "ready"
    /\ pc[r] = "idle"
    /\ q.kind = "strategy" => q.to \in catalog
    /\ pc' = [pc EXCEPT ![r] = "flock"]
    /\ change' = [change EXCEPT ![r] = q]
    /\ caller' = [caller EXCEPT ![r] = "waiting"]
    /\ UNCHANGED <<persistent, live, boot, crashes, lock, cur, old, rc, doomed>>

\* subprocess.run gives up after 90 s, longer than flock's 30 s: it kills the
\* outer shell and closes the pipe, which leaves the script that holds the lock
\* an orphan.
PanelTimeout(r) ==
    /\ pc[r] \in Locked
    /\ caller[r] = "waiting"
    /\ caller' = [caller EXCEPT ![r] = "gone"]
    /\ UNCHANGED <<persistent, live, boot, crashes, lock, pc, cur, change, old, rc, doomed>>

\* delete_strategy: the checks, and later the new catalogue.
DeleteCheck(s) ==
    /\ boot = "ready"
    /\ doomed = "none"
    /\ s \in catalog \ {"none", strategy}
    /\ doomed' = s
    /\ UNCHANGED <<persistent, live, boot, crashes, lock, jobs>>

DeleteWrite ==
    /\ doomed # "none"
    /\ catalog' = catalog \ {doomed}
    /\ doomed' = "none"
    /\ UNCHANGED <<strategy, exitMode, conf, live, boot, crashes, lock, jobs>>

----------------------------------------------------------------------------
(* entrypoint.sh and the life of the container                             *)

\* Every process of the container and its network namespace are gone; the
\* state volume, the catalogue and the rendered configuration stay.
Wiped ==
    /\ svc' = [s \in Services |-> "down"]
    /\ fw' = NoFirewall
    /\ boot' = "down"
    /\ lock' = {}
    /\ pc' = All("idle")
    /\ cur' = All("nfqws")
    /\ change' = All(NoChange)
    /\ old' = All("none")
    /\ rc' = All(0)
    /\ caller' = All("none")
    /\ doomed' = "none"

\* The container dies, or is stopped: cleanup() undoes what Wiped undoes.
Crash ==
    /\ boot # "down"
    /\ crashes < MaxCrashes
    /\ crashes' = crashes + 1
    /\ Wiped
    /\ UNCHANGED persistent

\* restart: unless-stopped
BootUp ==
    /\ boot = "down"
    /\ boot' = "seed"
    /\ UNCHANGED <<persistent, live, crashes, lock, jobs, doomed>>

\* An id the catalogue lacks is replaced by "none"; the configs are rendered.
BootSeed ==
    /\ boot = "seed"
    /\ strategy' = IF strategy \in catalog THEN strategy ELSE "none"
    /\ conf' = Rendered
    /\ boot' = "ss-server"
    /\ UNCHANGED <<exitMode, catalog, live, crashes, lock, jobs, doomed>>

\* (NextStage_FirewallFirst: the firewall is installed before utun exists.)
NextStage_FirewallFirst ==
    [s \in Services \cup {"firewall"} |->
        IF s = "ss-server" THEN "sockd"
        ELSE IF s = "sockd" THEN "redsocks"
        ELSE IF s = "redsocks" THEN "ss-local"
        ELSE IF s = "ss-local" THEN "firewall"
        ELSE IF s = "firewall" THEN "udprelay"
        ELSE IF s = "udprelay" THEN "nfqws"
        ELSE "ready"]

NextStage ==
    [s \in Services \cup {"firewall"} |->
        IF s = "ss-server" THEN "sockd"
        ELSE IF s = "sockd" THEN "redsocks"
        ELSE IF s = "redsocks" THEN "ss-local"
        ELSE IF s = "ss-local" THEN "udprelay"
        ELSE IF s = "udprelay" THEN "firewall"
        ELSE IF s = "firewall" THEN "nfqws"
        ELSE "ready"]

\* wz-svc.sh start <s>.
BootStart(s) ==
    /\ boot = s
    /\ Wanted(s) \in Spawned(s, Wanted(s))
    /\ svc' = [svc EXCEPT ![s] = Wanted(s)]
    /\ fw' = WithoutRoute(s)
    /\ boot' = NextStage[s]
    /\ UNCHANGED <<persistent, crashes, lock, jobs, doomed>>

\* entrypoint.sh exits when the start of s fails for ss-server, sockd and nfqws.
\* The exit status is that of nfqws, whatever s (see BootStartFails).
\* (Fatal_Always: without the `|| true` of the other services.)
Fatal_Always(s, failed) == s \in failed
Fatal(s, failed) ==
    /\ s \in AccessLayer \cup {"nfqws"}
    /\ "nfqws" \in failed /\ strategy # "none"

\* When the start of s fails, the || of the dispatcher starts every service
\* instead, s included, and the exit status is that of nfqws, the last one.
BootStartFails(s) ==
    /\ boot = s
    /\ Wanted(s) # "down"
    /\ "down" \in Spawned(s, Wanted(s))
    /\ \E failed \in SUBSET {t \in Services : "down" \in Spawned(t, Wanted(t))} :
          /\ \A t \in Services \ failed : Wanted(t) \in Spawned(t, Wanted(t))
          /\ IF Fatal(s, failed)
             THEN Wiped
             ELSE /\ svc' = [t \in Services |-> IF t \in failed THEN "down" ELSE Wanted(t)]
                  /\ fw' = IF Wanted("udprelay") = "down" THEN fw ELSE WithoutRoute("udprelay")
                  /\ boot' = NextStage[s]
                  /\ UNCHANGED <<lock, jobs, doomed>>
    /\ UNCHANGED <<persistent, crashes>>

BootFirewall ==
    /\ boot = "firewall"
    /\ fw' = FirewallStart
    /\ boot' = NextStage["firewall"]
    /\ UNCHANGED <<persistent, svc, crashes, lock, jobs, doomed>>

BootStep ==
    \/ BootUp \/ BootSeed \/ BootFirewall
    \/ \E s \in Services : BootStart(s) \/ BootStartFails(s)

\* A service dies and nothing restarts it.
ServiceDies(s) ==
    /\ s \in Mortal
    /\ svc[s] # "down"
    /\ svc' = [svc EXCEPT ![s] = "down"]
    /\ fw' = WithoutRoute(s)
    /\ lock' = lock \ {s}
    /\ UNCHANGED <<persistent, boot, crashes, jobs, doomed>>

----------------------------------------------------------------------------
\* The first start: the state files are seeded from STRATEGY and EXIT_MODE.
Init ==
    /\ strategy \in Strategies
    /\ exitMode \in Modes
    /\ catalog = Strategies
    /\ conf = "none"
    /\ svc = [s \in Services |-> "down"]
    /\ fw = NoFirewall
    /\ boot = "down"
    /\ crashes = 0
    /\ lock = {}
    /\ pc = All("idle")
    /\ cur = All("nfqws")
    /\ change = All(NoChange)
    /\ old = All("none")
    /\ rc = All(0)
    /\ caller = All("none")
    /\ doomed = "none"

Next ==
    \/ \E r \in Requests : ApplyStep(r) \/ PanelTimeout(r)
    \/ \E r \in Requests, q \in Changes : Submit(r, q)
    \/ \E s \in Strategies : DeleteCheck(s)
    \/ DeleteWrite
    \/ \E s \in Services : ServiceDies(s)
    \/ Crash
    \/ BootStep

\* The scripts run: each is a process the kernel schedules, its waits are
\* bounded (flock -w 30, sleep), and Docker restarts a container that exits.
\* Nothing is assumed of the users, of failures, or of the panel's delete.
Fairness ==
    /\ \A r \in Requests : WF_vars(ApplyStep(r))
    /\ WF_vars(BootStep)

Spec == Init /\ [][Next]_vars /\ Fairness

----------------------------------------------------------------------------
(* Properties                                                              *)

TypeOK ==
    /\ strategy \in Strategies
    /\ exitMode \in Modes
    /\ catalog \subseteq Strategies
    /\ "none" \in catalog
    /\ conf \in (Modes \ {"direct"}) \cup {"none"}
    /\ svc \in [Services -> Strategies \cup Modes \cup {"on", "down"}]
    /\ fw \in [nfq: SUBSET Flows, redirect: BOOLEAN, rule: BOOLEAN, route: BOOLEAN]
    /\ boot \in BootStages
    /\ crashes \in 0..MaxCrashes
    /\ lock \subseteq Requests
    /\ pc \in [Requests -> PCs]
    /\ cur \in [Requests -> ExitLayer \cup {"nfqws"}]
    /\ change \in [Requests -> Changes]
    /\ old \in [Requests -> Strategies]
    /\ rc \in [Requests -> 0..3]
    /\ caller \in [Requests -> {"none", "waiting", "gone"}]
    /\ doomed \in Strategies

\* wz-apply.sh serialises the changes (with_lock): two scripts are never both
\* past flock, and the one that is holds the lock alone.
SingleWriter ==
    \A r \in Requests : pc[r] \in Locked =>
        /\ lock = {r}
        /\ \A t \in Requests : pc[t] \in Locked => t = r

\* Nothing is in flight: the panel serves and no script holds the lock.
Quiet == boot = "ready" /\ lock = {}

\* No script was killed by its caller's timeout since the container booted.
Intact == \A r \in Requests : pc[r] # "broken"

\* Between changes, whatever the changes were, whichever failed halfway and was
\* undone, and whatever the users deleted meanwhile: nfqws runs the strategy of
\* the state file or not at all; if that is not "none" exactly the flows of the
\* exit mode go to NFQUEUE; and a service of the exit layer that runs was
\* started for the exit mode of the state file (do_strategy, do_exit).
NfqwsAgrees == svc["nfqws"] \in {strategy, "down"}
RulesAgree == strategy # "none" => fw.nfq = FlowsOf(exitMode)
ExitAgrees == \A s \in ExitLayer : svc[s] \in {Wanted(s), "down"}
LiveMatchesState == Quiet /\ Intact => NfqwsAgrees /\ RulesAgree /\ ExitAgrees

\* A change that succeeds took effect: the state file holds what was asked for,
\* unless that strategy was deleted between its validation and the start of
\* nfqws, which then falls back to "none".
SuccessApplies ==
    \A r \in Requests : pc[r] = "done" /\ rc[r] = 0 =>
        IF change[r].kind = "exit" THEN exitMode = change[r].to
        ELSE \/ strategy = change[r].to
             \/ strategy = "none" /\ change[r].to \notin catalog

\* A strategy that could not be started leaves the strategy it was to replace
\* in the state file, and nfqws running that one or stopped (do_strategy's
\* rollback); a strategy deleted meanwhile is replaced by "none".
FailureRestores ==
    \A r \in Requests : pc[r] = "done" /\ rc[r] = 3 =>
        /\ \/ strategy = old[r]
           \/ strategy = "none" /\ old[r] \notin catalog
        /\ NfqwsAgrees

\* In an upstream mode with a running UDP relay, the clients' UDP is routed
\* into it: udprelay creates utun before wz-fw.sh adds the route
\* (entrypoint.sh, do_exit).  Not when nfqws is Flaky: if its start fails once
\* at boot, wz-svc.sh:326 starts the relay again, after the firewall.
RelayRouted ==
    Quiet /\ Intact /\ svc["udprelay"] # "down" => fw.rule /\ fw.route

\* The apply lock never wedges: no service keeps it open, and a script whose
\* caller has gone lets go of it.
LockFreed == lock # {} ~> lock = {}

\* Every change that is submitted is answered, unless the container dies.
EveryChangeAnswered ==
    \A r \in Requests : caller[r] = "waiting" ~> caller[r] # "waiting"

\* A container that dies comes back unless it finds a strategy that nfqws
\* cannot run (entrypoint.sh exits then, and is started again).
ComesBack == boot = "down" /\ strategy \notin Broken ~> boot = "ready"

----------------------------------------------------------------------------
(* What the documentation says and the code does not do                    *)

\* "transactional single-writer apply": also when the panel gives up waiting.
TimeoutKeepsAgreement == Quiet => NfqwsAgrees
=============================================================================
