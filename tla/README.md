# web_zapret2 in TLA+

web_zapret2 is a container that relays its clients' Shadowsocks and SOCKS5
traffic through nfqws2, which desynchronises deep packet inspection. A strategy
(the options of nfqws2) and an exit mode (direct, or an upstream SOCKS5 or
Shadowsocks server) can be changed from a web panel while it runs. These modules
model what the repository's own code does: the shell scripts that change a
running container, the panel's job control, the UDP relay, the selection engine.
The programs it starts (nfqws2, ss-server, dante, redsocks, blockcheckw, yt-dlp)
are modelled from how it uses them.

## 1. The system

| Component | State | Operations | Hard parts |
|---|---|---|---|
| Entrypoint, `src/entrypoint.sh` | state files, boot stage | seed, render, start services, firewall, nfqws, panel | a container that dies anywhere and is restarted; fatal and tolerated failures |
| Apply, `src/wz-apply.sh` | `state/strategy`, `state/exit_mode`, `wz-apply.lock` | change strategy (with rollback), change exit mode | several changes at once; a step that fails; a caller that stops waiting |
| Supervisor, `src/wz-svc.sh`, `src/wz-common.sh` | pidfiles, rendered configs | render, start, stop, restart each service | services that die; inherited lock descriptors; order of starts |
| Firewall, `src/wz-fw.sh` | iptables chains, ip rule, route into utun | start (rebuild), stop | rules of the previous mode; a route that dies with utun |
| Panel, `src/panel/panel.py` | catalogue, job record, schedule | HTTP handlers, collector and scheduler threads | read-modify-write without locks; checks that are stale when used |
| Selection harness, `src/wz-bcw.sh` | `bcw.lock`, NFQUEUE 200 | preflight, lock, run the engine, report | cancellation and overlap of runs |
| Selection engine, `src/blockcheck.py` | settings, schedule, reports, catalogue entries | normalise, plan, parse, rank, select, import, next slot | boundaries of numbers and times; ranking and filters |
| Strategy renderer, `src/strategy.py` | none | options of a strategy to those of nfqws2 | profiles and options that get lost |
| Test harness, `src/wz-test.sh` | test nfqws, `WZTEST` chain, probe files | set up, probe, clean up | a harness that is killed; leftovers of the last one |
| UDP relay, `src/wz-udprelay/wz-udprelay.c` | session list, queues, descriptors | TUN reader, session workers, reaper | threads that share sessions; limits; idle timeouts |

The parts meet in few places. The panel runs `wz-apply.sh`, `wz-test.sh` and
`wz-bcw.sh` as child processes and reads their output; the scripts share the
state volume (`strategy`, `exit_mode`), the pidfiles and locks in
`/run/webzapret`, and the kernel's firewall. The panel's threads share JSON
files and, for the selection job only, a mutex. The entrypoint calls the same
supervisor and firewall scripts as the apply script, once, before the panel is
up. The relay shares nothing with the rest but the interface utun: it goes when
the relay goes, and the policy route goes with it.

What makes each component correct:

* **Apply, supervisor, firewall, entrypoint.** One change at a time. Between
  changes, what runs agrees with what the state files say: nfqws with the
  strategy, the NFQUEUE rules and the exit layer with the exit mode. A change
  that is answered with success took effect, one that fails is undone. The lock
  is always given back, and a dead container comes back.
* **Selection job and harness.** Two selections never scan at once; the record
  names the newest run; what is recorded as done was done; cancelling leaves
  nothing behind; every run ends and is collected; nothing blocks new runs for
  ever.
* **Scheduler.** The slot that is armed belongs to the saved plan, is run at most
  once and does not stay when it has come; an outage is not made up for run by
  run.
* **Test harness.** A probe sees its own rules, nfqws and files only, passes only
  on data of its own, leaves nothing behind and gives the lock back.
* **UDP relay.** The count is the length of the list and never above the limit;
  a flow has one session; nothing that was unlisted stays open; datagrams leave
  in order, on the session of their flow.
* **Selection engine.** Every domain is reported, from its own reports; the job's
  time is overrun by no more than the least time of each step; ranking and filter
  lose no row; the newest runs keep their files; what is saved as settings can be
  loaded, and a run works with the settings that were judged.
* **Catalogue.** An id names one strategy; a handler that writes alone leaves a
  whole file, its change made in one step or not at all; an import replaces and
  doubles nothing.
* **Renderer.** What is rendered is native, keeps its profiles and modes, and what
  the import lets in can be rendered.

## 2. The modules

A definition `Name_Suffix` right before a definition `Name` is a variant of it
with one plausible error in it; the comment above `Name` says which. The variants
are never used by a specification: put in the place of `Name`, each makes TLC
report the property that it is paired with in `PROJECT.json`, which shows that
the property depends on that piece of the code. `PROJECT.json` also maps every
definition to the lines that it models, and lists the hazards in the code with
the properties that cover them.

### Gateway - `wz-apply.sh`, `wz-svc.sh`, `wz-fw.sh`, `entrypoint.sh`, parts of `panel.py`

One process per request of the panel runs `wz-apply.sh`; its program counter
`pc` goes through the steps of `do_strategy` or `do_exit`: flock, check, persist,
render, stop / start of each service, firewall, undo. `boot` is the stage of the
entrypoint, which is the same services and the same firewall in its own order.
`svc` records what each service was started with (a strategy, an exit mode), so
that agreement with the state files can be stated; `fw` has the flows sent to
NFQUEUE, the redirect, the ip rule and the route. `lock` is the set of processes
that hold the lock's file open, as flock has it.

The environment: services that die (`Mortal`) or fail to start (`Flaky`),
strategies on which nfqws exits (`Broken`), deletions from the catalogue with
their check and their write apart (`DeleteCheck`, `DeleteWrite`), the panel's
90 s (`PanelTimeout`: the script goes on and dies at its next line of output) and
the death of the container (`Crash`: state files stay, all else goes).

Abstracted: a pidfile names its own service; UDP ports are configured; `cleanup`
of the entrypoint is part of the crash; the catalogue only shrinks; a slot of the
panel whose script was killed is not used again (`pc = "broken"`), and properties
that such a script breaks are stated with `Intact`.

### BcwJob - the job control of `panel.py`, `wz-bcw.sh`, the steps of `blockcheck.py`

`rec` is the job record on disk, `pc` the thread that starts and collects a run,
`proc` the harness (preflight, lock, engine, report), `scanner` its blockcheckw.
An overview and a cancellation read the record in one step and write it in
another. A pid is the number of its run, and after a death of the container a pid
in the record may be another process's (`foreign`). There is one thread for
overviews and one for cancellations; run ids are distinct; writes of JSON are
atomic; pids are not reused while the container lives.

### Scheduler - `_bcw_scheduler`, `POST /api/bcw/schedule`, `next_run_at`

The file `bcw_schedule.json` holds the plan, `next_run` and `last_run`. The
scheduler reads it twice (`LoadSchedule`, `ReadState`) and writes all of it, the
handler does two reads and writes. `stale` is a ghost: some write put back what
another thread had changed. `NextRunAt` is the code's algorithm over ticks, `Day`
of them a day.

### StrategyTest - `wz-test.sh`, `test_strategy`

One program counter per test, and what tests share: the processes `ytdlp` and
`nfqws`, the `pidfile`, the `chain`, the `files`. Who holds the lock is not a
variable: it is whoever has the descriptor open (`Holders`), the harness past
flock and the yt-dlp that inherits it. The panel's timeout kills a harness and
nothing else.

### UdpRelay - `wz-udprelay.c`

The reader (`Read`, `Find`, `Connect`, `Associate`, `Insert`, `Check`, `Put`), a
worker per session (`Drain`, `Send`, `Poll`, `Recv`) and the reaper, which holds
the mutex over several steps. The list is a set of session numbers, since the
reader alone adds to its head. Any send or receive may fail. `RelayPort` is 1028,
whose two bytes are equal in either order, since the code takes the port of the
server's answer without htons (`SinPort`): with another port no reply comes.

### Catalog, CatalogEntries, AtomicCatalog - the writers of `strategies.json`

`CatalogEntries` says what an import and a deletion make of the catalogue, a set
of entries of an id and arguments. `Catalog` is the handlers that do it: read,
then `write_json`, which opens `strategies.json.tmp` (the same for all), dumps and
renames. `fd` is what the file that a handler opened is called by now, since a
file that is open stays the same file when it is renamed; `solo` and `lastSolo`
are ghosts for "no other handler was at work". A reader of a file that is not
whole gets an empty catalogue, as `read_json` does. `AtomicCatalog` is the
abstract specification: a request that is served alone changes the catalogue in
one step or not at all. `AtomicChanges` is the refinement, with `file.entries` for
the catalogue. Bodies that an import refuses change nothing and are left out; a row
is its rate, latency and arguments.

### Lists - what the others use of Python's lists

`StableSort` is `sorted`, as the one order of the rows in which what neither comes
before the other stays as it was; `Where` is a list comprehension with a condition,
as a recursive function, so that it can be proved about.

### Settings - `.env`, `bcw_settings.json`, `normalize`, `save_settings`, `bcw_start_run`

`file` holds overrides as they were posted, `env` what the container was created
with. Handlers save (`SaveRead`, `SaveWrite`, `SaveFails`), reset and start runs
(`StartSave`, `Start`, `Load`); only starters exclude each other. Keys are one or
two of each kind: bounded numbers, texts that may be empty, lists, a choice. The
steps of `write_json` are those of Catalog, here in what they leave: of two that
write at once one may rename what the other wrote or has yet to write (`Written`),
and the other writes into the file itself (`late`). `posted` is a ghost.

### Selection, ImportPlan - `run`, `rank`, `filter_reason`, `prune_runs`, `plan_import`

`Selection` goes through the domains of a run: scan, then check, each with what is
left of the job's time, each of which may fail, run out of time, be silent or
leave garbage. `scans` and `checks` are the reports at the names that domains
have (`Slug`), with who wrote them; a report is a list of rows (`ReportsAssumption`). `dirs` is the run directories that the
collectors prune, maybe while a new run works. `ImportPlan` says what the result
would add to the catalogue, over the same states: `PlanImport` goes through the
candidates one by one; the catalogue is finite and `max_import` a number
(`ImportAssumption`).

### StrategyText - `strategy.py`, `validate_args`

A text is a sequence of options, an option a name and the parts of its value. A
state is an entry of the catalogue; `Write` appends an option, so that TLC visits
all texts up to `MaxLength`. `NativeOptions`, `Raises`, `StrategyArgs` and
`Validated` are the code's functions, those that go through a list (`Profiles`,
`Joined`) as recursive functions. `WellFormed` (`TextAssumption`) says that values
are lists, as `split` makes them.

### The proof modules

`GatewayProofs`, `BcwJobProofs`, `UdpRelayProofs`, `StrategyTestProofs`,
`SchedulerProofs`, `CatalogProofs`, `SettingsProofs` and `SelectionProofs` extend
the module that they are named for. `SelectionProofs` extends ImportPlan, and with
it Selection, and StrategyText, since what is proved about texts rests on the same
lemmas about lists; hence the names `TextInit`, `TextNext` and `TextSpec` there.

## 3. Plan

Done, in this order: Gateway with its proofs, BcwJob, UdpRelay with its proofs,
StrategyTest, Scheduler; then Catalog with its refinement and proofs, Settings and
Selection with theirs, ImportPlan, StrategyText, and the proofs of StrategyTest,
BcwJob and Scheduler; last the proofs by induction over lists (ranking, import,
texts) and of the relay's route.

What would come next, and why it is not here:

1. **The relay's descriptors**: `session_close` runs in three threads. It needs
   descriptor numbers that the kernel gives out anew, beside the list's own states;
   a module of its own would be right.
2. **Pidfiles**: pids that are reused, for `wz-svc.sh` and `wz-test.sh`.
3. **An atomic gateway**: a strategy and a mode, each changed in one step or not
   at all. `LiveMatchesState`, `SuccessApplies` and `FailureRestores` say the same
   of the states between changes, and are proved.

## 4. The runs

| Run | Question | Result |
|---|---|---|
| `gateway` | Do state files and live system agree between changes, do success and failure mean what they say? | they do |
| `gateway_live` | Is the lock always freed, each change answered, does a dead container come back? | yes |
| `gateway_timeout` | Does a change that the panel gave up on stay whole? | no |
| `bcw_job` | Are selections apart, records true, cancellations complete, all runs collected? | yes |
| `bcw_visible` | Is a selection that runs always one that the panel can cancel? | no |
| `udp_relay` | Are list, count, closing and order right for all interleavings? | yes |
| `strategy_test` | Are probes isolated and verdicts their own, is everything cleaned up and the lock freed? | yes |
| `scheduler` | Are slots of the plan, run once, and never left? | yes |
| `catalog` | Are ids unique and files whole, are changes made alone atomic? | yes |
| `settings` | Can what is saved be loaded, does a run work with what was judged, does .env give the rest? | yes |
| `selection` | Is each domain reported from its own reports, in time, with every row, and would what is imported be new? | yes |
| `strategy_text` | Is what is rendered native, with its profiles, and does what is let in render? | yes |

Type invariants are proved for every module that has proofs and need no run.

Bounds, and why they are enough:

* `gateway`: two requests, since a third waits for the lock as the second does;
  `none`, a strategy that works and one that does not; one crash (a second
  starts from the same persistent state); a relay that fails and dies. Every
  change and every mode can be asked for any number of times.
  `gateway_live` has fewer failures so that liveness can be checked: two
  strategies, a flaky redsocks, UDP that is not relayed.
* `bcw_job`: two runs (an old and a new one), two steps each (the second may
  start after a cancellation of the first), one crash.
* `scheduler`: days of two ticks, plans off, every two ticks with and without
  run_on_start, daily, weekly on the second day; two POSTs, so that one plan
  replaces another; five instants, enough for a slot to be missed by a whole
  step and for the weekly slot to come; one death of the panel.
* `strategy_test`: a strategy and the baseline, two formats (the loop is entered
  again once), one crash. Tests are asked for again without bound.
* `udp_relay`: two flows of one client, a list of two sessions, three sessions
  ever (so one is evicted or reaped and its flow comes back), queues of two,
  three datagrams, two instants with an idle timeout of nothing.
* `catalog`: two handlers (a third meets the temporary file as the second does),
  a batch whose rows are not in the order of their rank and a smaller one of the
  same domain and day, two shipped entries, crashes and failing writes without
  bound.
* `settings`: two handlers; three .env files (empty, contradictory, with garbage)
  that a new container may exchange; six bodies that are fine alone and
  contradict each other or the .env. Handlers are symmetric.
* `selection`: three domains, two with one slug; three reports with equal ranks,
  missing shares, mirages and refused arguments; a job's time of two steps of the
  least time, so that the third domain has none left; three runs of which one is
  kept, so that one is pruned while another works.
* `strategy_text`: texts of four options of thirteen, one of each kind that the
  code tells apart: enough for two profiles with a filter and a desync, or for a
  filter, a mode and two of its parameters.

Fairness, and why the code justifies it. In Gateway the steps of the scripts and
of the entrypoint are weakly fair: they are processes that the kernel runs, every
wait in them is bounded, and Docker restarts the container. In BcwJob the panel's
collectors, the harnesses and the end of each scan: `_run_step` has a timeout. In
StrategyTest the harness's steps and the end of yt-dlp, which `timeout
--kill-after` bounds. In Scheduler the scheduler's thread, whose loop catches
every exception. In UdpRelay the workers. Users, failures, crashes, HTTP handlers
(except a cancellation under way) and remote servers are never assumed to act.

Deadlock is checked in Scheduler, StrategyTest, Catalog and Settings, which never
stop. It is not in Gateway, BcwJob and UdpRelay, where the system may really come
to rest (a service is idle, all bounded inputs are used up), in Selection, which
is bounded in its runs, and in StrategyText, which is bounded in its text.

### Where the code differs from its documentation

Shown by a run:

* A change that outlasts the panel's 90 s is cut off at the next line of output,
  with the state file ahead of nfqws (`gateway_timeout`).
* A GET of the overview can write the record of a running selection back as
  `lost` (`panel.py:791`); it then runs unseen and cannot be cancelled
  (`bcw_visible`).

Seen while modelling, without a run of their own:

* `direct` leaves the nat redirect into the stopped redsocks (`wz-fw.sh:88-91`),
  so the clients' TCP goes nowhere after a change from an upstream mode.
* The active strategy can be deleted when it is activated between the check and
  the write (`panel.py:669`).
* A start of nfqws that fails once at boot makes `wz-svc.sh:326` start the relay a
  second time, after the firewall, and the route is lost (set `Flaky = {"nfqws"}`
  and check `RelayRouted`).
* The scheduler can bring back a plan that was just replaced, an enabled one that
  was just switched off included (`panel.py:1013`); a save of settings that was
  under way undoes a reset likewise (`blockcheck.py:361`).
* The relay's workers block in recv after the first reply (`wz-udprelay.c:373`);
  `LeavesUntilReply` therefore ends there.
* `bcw_import` raises whenever there is something to import (`panel.py:943`), so
  that auto_import never happens; auto_apply looks for a key that it would not
  return (`panel.py:903`).
* `_needs_no_reasm` lost its last two lines (`blockcheck.py:697`, `788`). The panel's
  own import judges the text before `strategy.py` adds a filter, so that a text
  without one gets no `no_reasm` (`panel.py:573`).
* The two lists of forbidden options differ: twelve for the import
  (`blockcheck.py:669`, said to be the same), eight in `strategy.py:89`. The
  import's is the longer one, which is the safe way round (`ValidatedRenders`).
* A profile of a legacy text that is nothing but desync options is dropped without
  a word, a legacy text gets no filter of its protocol, and a text of both kinds
  keeps its legacy options (`strategy.py:30-50`).
* An import that is smaller than the last one of its domain and day leaves the
  rest of the older batch in place (`panel.py:602` says the batch is replaced).
* `plan_import` uses up `max_import` domain by domain, so that the first domain may
  take all of it.
* A choice that is none falls back to the built-in default, not to the one of .env.
* `prune_runs` never removes a directory, since each has a `home`
  (`blockcheck.py:836`, `875`).
* An attempt of yt-dlp that had to be killed (exit code 137) and left part of a
  file counts as a download, since only 124 is taken for a timeout
  (`wz-test.sh:212-216`, `--no-part`).
* README.md:170 gives 202 as the test queue, the code 212 (`wz-common.sh`).
* A stale `test-nfqws.pid` may make the next test kill a live service.

## 5. The proofs

All theorems hold for every value of the constants, under the ASSUMEs of the
module. Each is the last step of the usual argument: an invariant that holds
initially, is preserved by every step, and implies the property.

**GatewayProofs.** `TypeCorrect` is by cases on Next. `OneScriptAtATime`
(`SingleWriter`) needs `LockInv`: a script past flock holds the lock alone, only
such scripts hold it, and while the container boots no script runs. `AgreementWhenQuiet`
(`LiveMatchesState`) speaks of the end of a change, while the steps in between
break the agreement on purpose; the strengthening `StateInv` says for each program
counter how far the change has come (`ScriptInv`, with `StrategyScript` for
do_strategy and `ExitScript` for do_exit: before `persist` everything agrees; after
it nfqws may still run the old strategy, and so on), for each boot stage what has
been started (`BootInv`), and that outside of changes all agrees. Only the script
with the lock moves, so that the claims of the others hold because nothing that
they mention changes (`SameScript`). It assumes `Intact`, that no script was cut
off. `SuccessIsReal` (`SuccessApplies`) and `FailureIsUndone` (`FailureRestores`)
need no such assumption: their strengthening `OutcomeInv` follows the return code
of each script with the strategy that the state file holds by then. `RelayIsRouted`
(`RelayRouted`) has the hypothesis that nfqws is not among the services that may
fail to start: a boot on which it fails once does lose the route (section 4). With it,
`RouteInv` says that a relay that runs is never without its route, but between its
own start and the firewall's, in the script or the boot stage that is to install it.

**UdpRelayProofs.** `IInv` is `TypeOK /\ Registry /\ OrderInv`. `Registry` adds
to the three registry properties where the reader is (`ReaderInv`: the session
that it is about to insert is not listed, and while it creates one no open
session of the flow is listed) and that listed sessions are ones in use
(`ListInv`). This is what makes the gap between search and creation harmless:
the reaper, which runs in it, only removes. `OrderInv` bounds every id in a queue
by the datagrams read so far. Lemmas about `Enqueued` (length, last element) and
about cardinalities (`InsertCounts`, `ReapCounts`) carry the arithmetic.
Theorems: `TypeCorrect`, `CountStaysExact`, `OneSession`, `NoOpenOrphan`,
`OrderKept`.

**BcwJobProofs.** `Safe` is `TypeOK` with four parts: an engine has the lock, which
nobody else has (`LockHeld`); runs start in their order under the panel's lock, so
that the record that says running is of the newest (`InOrder`); a harness lives
once and has a result only at its end (`OneLife`); the record and a cancellation
speak of runs in the state that they say (`TrueRecord`). Theorems: `TypeCorrect`,
`ScannersStayApart`, `NewestIsRecorded`, `DoneIsTrue`, `CancelledStaysDead`.

**StrategyTestProofs.** The harness with the lock is alone, but for its own yt-dlp
(`Alone`); rules, pidfile and files are its own as far as it has come (`Own`); the
verdict at hand is of this attempt (`Judged`); an nfqws that runs is the one of the
pidfile, which is why the next test finds the one that a killed harness left.
Steps of the others change nothing of a test's own, since whoever steps under the
lock is the one that has it. Theorems: `TypeCorrect`, `ProbesAreApart`,
`PassesAreEarned`, `NothingIsLeft` (an action property).

**SchedulerProofs.** First the arithmetic of `next_run_at`, from Division up to
`NextIsOnPlan`: what it returns is later than now (or now, with run_on_start), on
the hour and a day of the plan, or a whole number of steps after the last run.
`ArmedForPlan` is inductive with the types; `NoBurst` needs `Timely`: as long as no
write was lost, an armed slot lies after the last that was fired or taken. Theorems:
`TypeCorrect`, `SlotsAreOfThePlan`, `NoCatchUp`.

**CatalogProofs.** `IdsStayUnique` follows the file, the temporary file and what each
handler is to write (`UniqueInv`). `AloneWritesWhole` needs `SoloInv`: a handler
that is alone has the temporary file to itself from its open to its rename, and
what it is to write is one change away from the file. From that
`ChangesAreAtomic` is the refinement: each step of `Catalog` is a step of
`AtomicCatalog` or a stutter. Also `TypeCorrect`.

**SettingsProofs.** The key lemma is `NormalizedOnce`: normalizing what is normalized
changes nothing, for any bounds that contain the defaults; so the harness works
with what the panel judged (`RunsAreJudged`). `SavedIsLoadable` needs that
everything that is about to be written was judged whole under this .env
(`DocsJudged`), `EnvGivesTheRest` that file and pending writes hold only keys that
somebody posted (`OverridesPosted`). Also `TypeCorrect`.

**SelectionProofs** begins with induction over data. The library's induction theorems
take an operator, which the provers cannot instantiate; here the induction is over
sets, so that the lemmas can be cited with the set of those numbers, or lists, of
which the claim holds: `LeastOf` (from the library's `WFMin`), `UpTo`, `OfSequences`
(a set that holds `<<>>` and, with a sequence, each that is longer by one, holds all)
and `Recursion` (a function that is defined by its first value and its steps exists;
`Where`, `PlanImport`, `Profiles`, `Joined` and `FlattenSeq` are such functions). The
rest is in three parts.

*The run.* `DeadlineKept` is by the steps: one that is started before the
job's time is over ends by then or takes the least time, one that is started later
adds the least time (`LeastAdds`, `StepsAdd`). `ReportsAreOwn` needs that a report
is filed under its author's name (`ChecksFiled`), `NewestStay` that a directory
with `Keep` newer ones left has as many newer runs (`PrunedIsOld`). `AllAreSelected`
(`SelectsAll`): `Orderable` shows by induction that any rows can be put in an order as
`StableSort` wants it, so that its CHOOSE has something to choose; `Precedes` is an
order of that kind (`PrecedesOrders`), since ranks are compared part by part; the two
filters then part the rows between them (`FilterSplits`, by `WherePlaces`, which says
where each row that `Where` takes ends up). The invariant is that each result is the
ranked and filtered form of a report (`StepRanked`). Also `TypeCorrect`.

*The import.* `ImportIsNew` (`ImportAddsNew`) follows the plan candidate by candidate:
`PlanInv` holds of the entries planned so far - they are new to the catalogue and
to each other, in id and in arguments, no protocol has more than `max_import` of
them, and each candidate already looked at was unusable, is known, or met a full
protocol. A step adds an entry whose id is free, because one of the first n + 1
numbers is not taken by n entries (`IdIsNew`).

*The texts*. `ValidatedArgsRender` (`ValidatedRenders`) is by `NativeFiltered`: a
native text gets a filter at most, and no filter is forbidden. For legacy texts, `ProfilesOfJoined` says that profiles which
are joined are found again, `ProfilesHave` and `JoinedHas` that profiles hold the
options of the text and a joined text those of its profiles, `KeptIs` which profiles
are dropped, and `ToNativeIs` what becomes of one. Together (`LegacyRendered`) they
give `LegacyKeepsProfiles` (`ProfilesKept`) and, with `DisabledOnce` for the payloads
that are not reassembled, `RenderedStaysNative` (`RenderedIsNative`).

These proofs, like all others, hold whatever the bounds are. All safety and action
properties that a passing run checks are proved. Only model-checked is liveness
(`LockFreed` of both modules, `EveryChangeAnswered`, `ComesBack`, `EveryRunCollected`,
`Unblocks`, `DueMoves`, `LeavesUntilReply`), since fairness and ENABLED are beyond the
proof system's backends.

## 6. Not modelled

* The status, log and traffic readouts, the page, authentication and routing hold
  no state of the system. The traffic counters lose what was counted since the
  last accumulation when a strategy is changed (`do_strategy` does not accumulate
  before `wz-fw.sh start`).
* `translate_nfqws_args` rewrites options of another program; nothing calls it.
* Text: shlex, names, warnings, progress lines, the parsing of a report's JSON.
* Packets, checksums and the SOCKS5 handshake of the relay enter as success or
  failure. Its descriptors and their reuse, and pids that are reused while the
  container lives, are left out (see 3).
* Changes of the clock: local time has days of equal length.
* sysctls, log rotation, resource limits, iptables commands that fail.
* The external programs appear as processes that run, fail or end.
