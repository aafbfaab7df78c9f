---------------------------- MODULE StrategyTest ----------------------------
(***************************************************************************)
(* wz-test.sh: a strategy is tried on an nfqws of its own, on queue        *)
(* QNUM_TEST, with yt-dlp as the probe.  Only one harness gets past        *)
(* test.lock; the panel starts harnesses without asking (test_strategy)    *)
(* and kills one that does not answer in time, which skips its EXIT trap.  *)
(*                                                                         *)
(* A descriptor of test.lock is shared by the harness and yt-dlp (wz-test  *)
(* closes only fd 3 for it) and closed for the test nfqws.  Wall-clock     *)
(* time is not modelled: an attempt may use up the budget, or not.         *)
(***************************************************************************)
EXTENDS Naturals, FiniteSets

CONSTANTS
    Tests,      \* the tests that may be asked for
    Baseline,   \* those of the strategy 'none', which run without nfqws
    Formats,    \* number of --format selectors to attempt
    MaxCrashes  \* bound on the deaths of the container

ASSUME TestsAssumption ==
    /\ Baseline \subseteq Tests /\ {"none", "stale"} \cap Tests = {}
    /\ Formats \in Nat \ {0} /\ MaxCrashes \in Nat

VARIABLES
    phase,      \* what each harness does
    result,     \* what the panel is told of each test
    tries,      \* the attempts each test has made
    exit,       \* how yt-dlp ended in the last of them
    rc,         \* what run_ytdlp makes of that
    found,      \* the files collect_files saw
    ytdlp,      \* the tests whose yt-dlp runs
    nfqws,      \* the tests whose nfqws runs
    pidfile,    \* whose pid test-nfqws.pid holds
    chain,      \* whose rules the WZTEST chain holds
    files,      \* the non-empty files in TEST_DIR/out
    crashes

verdict == <<result, tries, exit, rc, found>>
probing == <<ytdlp, files>>
isolation == <<nfqws, pidfile, chain>>
vars == <<phase, verdict, probing, isolation, crashes>>

Unlocked == {"idle", "lock", "ended", "killed"}
Locked == {"clean rules", "clean nfqws", "clean files", "setup", "settle", "rules", "next",
           "probe", "judge", "collect"}
Results == {"none", "busy", "error", "pass", "fail", "timed out"}

\* A file of a probe: yt-dlp writes in place (--no-part), so that one that it
\* did not finish looks like one that it did.
Files == [by: Tests, whole: BOOLEAN]

\* The exit codes of `timeout yt-dlp`: done, failed, out of time, and out of
\* time and killed (--kill-after) because the TERM was ignored.
Codes == {0, 1, 124, 137}

----------------------------------------------------------------------------
(* test.lock                                                               *)

\* Who else keeps the descriptor that flock locked.
\* (Inherited_None: closed for yt-dlp too.  Inherited_Nfqws: not closed for nfqws.)
Inherited_None == {}
Inherited_Nfqws == ytdlp \cup nfqws
Inherited == ytdlp

Holders == {t \in Tests : phase[t] \in Locked} \cup Inherited

Goto(t, p) == phase' = [phase EXCEPT ![t] = p]

\* emit_err or emit_result, then the EXIT trap.
\* (Answer_NoTrap: the trap is not set when the harness gives up.)
Answer_NoTrap(t, r) ==
    result' = [result EXCEPT ![t] = r] /\ Goto(t, IF r = "error" THEN "ended" ELSE "clean rules")
Answer(t, r) ==
    result' = [result EXCEPT ![t] = r] /\ Goto(t, "clean rules")

\* The panel runs wz-test.sh.
Submit(t) ==
    /\ phase[t] \in {"idle", "ended", "killed"}
    /\ Goto(t, "lock")
    /\ result' = [result EXCEPT ![t] = "none"]
    /\ tries' = [tries EXCEPT ![t] = 0]
    /\ exit' = [exit EXCEPT ![t] = 1]
    /\ rc' = [rc EXCEPT ![t] = 2]
    /\ found' = [found EXCEPT ![t] = {}]
    /\ UNCHANGED <<probing, isolation, crashes>>

\* The lock is taken: an error, and no trap to clean up yet.
Busy(t) ==
    /\ phase[t] = "lock" /\ Holders # {}
    /\ result' = [result EXCEPT ![t] = "busy"]
    /\ Goto(t, "ended")
    /\ UNCHANGED <<tries, exit, rc, found, probing, isolation, crashes>>

TakeLock(t) ==
    /\ phase[t] = "lock" /\ Holders = {}
    /\ Goto(t, "clean rules")
    /\ UNCHANGED <<verdict, probing, isolation, crashes>>

----------------------------------------------------------------------------
(* cleanup_all, before the test (the leftovers of one that was killed) and *)
(* after it (the EXIT trap)                                                *)

CleanRules(t) ==
    /\ phase[t] = "clean rules"
    /\ chain' = "none"
    /\ Goto(t, "clean nfqws")
    /\ UNCHANGED <<verdict, probing, nfqws, pidfile, crashes>>

\* The process with the pid in the file is killed.  (A stale pid, after a
\* restart of the container, may be some other process's: not modelled.)
CleanNfqws(t) ==
    /\ phase[t] = "clean nfqws"
    /\ nfqws' = nfqws \ {pidfile}
    /\ pidfile' = "none"
    /\ Goto(t, "clean files")
    /\ UNCHANGED <<verdict, probing, chain, crashes>>

CleanFiles(t) ==
    /\ phase[t] = "clean files"
    /\ files' = {}
    /\ Goto(t, IF result[t] = "none" THEN "setup" ELSE "ended")
    /\ UNCHANGED <<verdict, ytdlp, isolation, crashes>>

----------------------------------------------------------------------------
(* setup_test_nfqws and install_rules                                      *)

SetupBaseline(t) ==
    /\ phase[t] = "setup" /\ t \in Baseline
    /\ Goto(t, "rules")
    /\ UNCHANGED <<verdict, probing, isolation, crashes>>

\* strategy.py cannot render the strategy.
RenderFails(t) ==
    /\ phase[t] = "setup" /\ t \notin Baseline
    /\ Answer(t, "error")
    /\ UNCHANGED <<tries, exit, rc, found, probing, isolation, crashes>>

StartNfqws(t) ==
    /\ phase[t] = "setup" /\ t \notin Baseline
    /\ nfqws' = nfqws \cup {t}
    /\ pidfile' = t
    /\ Goto(t, "settle")
    /\ UNCHANGED <<verdict, probing, chain, crashes>>

\* After `sleep 0.6`: nfqws still runs, or the test is given up.
Settled(t) ==
    /\ phase[t] = "settle" /\ t \in nfqws
    /\ Goto(t, "rules")
    /\ UNCHANGED <<verdict, probing, isolation, crashes>>

DiedInstantly(t) ==
    /\ phase[t] = "settle" /\ t \notin nfqws
    /\ pidfile' = "none"
    /\ Answer(t, "error")
    /\ UNCHANGED <<tries, exit, rc, found, probing, nfqws, chain, crashes>>

InstallRules(t) ==
    /\ phase[t] = "rules"
    /\ chain' = t
    /\ \/ Goto(t, "next") /\ UNCHANGED result
       \/ Answer(t, "error")
    /\ UNCHANGED <<tries, exit, rc, found, probing, nfqws, pidfile, crashes>>

----------------------------------------------------------------------------
(* run_ytdlp, collect_files and the verdict                                *)

\* The budget has at least 10 seconds and is shared: it may be used up after
\* any attempt but never before the first, and is when one was out of time.
Attempt(t) ==
    /\ phase[t] = "next" /\ tries[t] < Formats /\ exit[t] = 1
    /\ tries' = [tries EXCEPT ![t] = @ + 1]
    /\ ytdlp' = ytdlp \cup {t}
    /\ Goto(t, "probe")
    /\ UNCHANGED <<result, exit, rc, found, files, isolation, crashes>>

StopTrying(t) ==
    /\ phase[t] = "next" /\ tries[t] > 0
    /\ Goto(t, "collect")
    /\ UNCHANGED <<verdict, probing, isolation, crashes>>

\* A real timeout is final; a download that left a file is taken for a success.
\* (Outcome_Retry: a timeout is judged as any other failure.)
Outcome_Retry(code) == IF code # 0 /\ files # {} THEN 0 ELSE code
Outcome(code) == IF code \notin {0, 124} /\ files # {} THEN 0 ELSE code

Judge(t) ==
    /\ phase[t] = "judge"
    /\ rc' = [rc EXCEPT ![t] = Outcome(exit[t])]
    /\ Goto(t, IF Outcome(exit[t]) \in {0, 124} THEN "collect" ELSE "next")
    /\ UNCHANGED <<result, tries, exit, found, probing, isolation, crashes>>

Collect(t) ==
    /\ phase[t] = "collect"
    /\ found' = [found EXCEPT ![t] = files]
    /\ Answer(t, IF rc[t] = 0 /\ files # {} THEN "pass" ELSE "fail")
    /\ UNCHANGED <<tries, exit, rc, probing, isolation, crashes>>

HarnessStep(t) ==
    \/ Busy(t) \/ TakeLock(t)
    \/ CleanRules(t) \/ CleanNfqws(t) \/ CleanFiles(t)
    \/ SetupBaseline(t) \/ RenderFails(t) \/ StartNfqws(t)
    \/ Settled(t) \/ DiedInstantly(t) \/ InstallRules(t)
    \/ Attempt(t) \/ StopTrying(t) \/ Judge(t) \/ Collect(t)

----------------------------------------------------------------------------
(* The processes it starts, the panel and the container                    *)

Download(t, whole) ==
    /\ t \in ytdlp
    /\ files' = {[by |-> t, whole |-> whole]} \cup {f \in files : f.by # t}
    /\ UNCHANGED <<phase, verdict, ytdlp, isolation, crashes>>

\* yt-dlp (or `timeout`) ends; nobody waits for it when its harness was killed.
\* It fails, or it runs out of time, or all that it wrote is whole.
YtdlpEnds(t, code) ==
    /\ t \in ytdlp
    /\ code = 0 => \A f \in files : f.by = t => f.whole
    /\ ytdlp' = ytdlp \ {t}
    /\ IF phase[t] = "probe"
       THEN exit' = [exit EXCEPT ![t] = code] /\ Goto(t, "judge")
       ELSE UNCHANGED <<exit, phase>>
    /\ UNCHANGED <<result, tries, rc, found, files, isolation, crashes>>

NfqwsDies(t) ==
    /\ t \in nfqws
    /\ nfqws' = nfqws \ {t}
    /\ UNCHANGED <<phase, verdict, probing, pidfile, chain, crashes>>

\* subprocess.run kills the harness, and nothing that it started.
PanelTimeout(t) ==
    /\ phase[t] \in Locked
    /\ result' = [result EXCEPT ![t] = "timed out"]
    /\ Goto(t, "killed")
    /\ UNCHANGED <<tries, exit, rc, found, probing, isolation, crashes>>

\* The container dies and is restarted: processes, rules and locks are gone,
\* WZ_RUN is kept, with a pid that is no test's any more.
Crash ==
    /\ crashes < MaxCrashes
    /\ crashes' = crashes + 1
    /\ phase' = [t \in Tests |-> IF phase[t] \in Unlocked \ {"lock"} THEN phase[t] ELSE "killed"]
    /\ ytdlp' = {} /\ nfqws' = {} /\ chain' = "none"
    /\ pidfile' = IF pidfile = "none" THEN "none" ELSE "stale"
    /\ UNCHANGED <<verdict, files>>

Init ==
    /\ phase = [t \in Tests |-> "idle"]
    /\ result = [t \in Tests |-> "none"]
    /\ tries = [t \in Tests |-> 0]
    /\ exit = [t \in Tests |-> 1]
    /\ rc = [t \in Tests |-> 2]
    /\ found = [t \in Tests |-> {}]
    /\ ytdlp = {} /\ nfqws = {} /\ files = {}
    /\ pidfile = "none" /\ chain = "none"
    /\ crashes = 0

Next ==
    \/ \E t \in Tests : Submit(t) \/ HarnessStep(t) \/ NfqwsDies(t) \/ PanelTimeout(t)
    \/ \E t \in Tests, w \in BOOLEAN : Download(t, w)
    \/ \E t \in Tests, c \in Codes : YtdlpEnds(t, c)
    \/ Crash

\* bash and the kernel go on; `timeout` bounds every attempt.
Fairness ==
    /\ \A t \in Tests : WF_vars(HarnessStep(t))
    /\ \A t \in Tests : WF_vars(\E c \in Codes : YtdlpEnds(t, c))

Spec == Init /\ [][Next]_vars /\ Fairness

----------------------------------------------------------------------------
(* What the harness promises                                               *)

TypeOK ==
    /\ phase \in [Tests -> Locked \cup Unlocked]
    /\ result \in [Tests -> Results]
    /\ tries \in [Tests -> 0..Formats]
    /\ exit \in [Tests -> Codes]
    /\ rc \in [Tests -> Codes \cup {2}]
    /\ found \in [Tests -> SUBSET Files]
    /\ ytdlp \subseteq Tests /\ nfqws \subseteq Tests /\ files \subseteq Files
    /\ pidfile \in Tests \cup {"none", "stale"}
    /\ chain \in Tests \cup {"none"}
    /\ crashes \in 0..MaxCrashes

\* While a test probes, the rules are its own, no other nfqws listens on the
\* test queue and every file is its own: also when an earlier harness was
\* killed and its yt-dlp and nfqws went on.  The lock descriptor that yt-dlp
\* inherits and the clean-up before the test see to that (wz-test.sh:94-121).
ProbeIsolated ==
    \A t \in Tests : phase[t] \in {"next", "probe", "judge", "collect"} =>
        /\ chain = t
        /\ nfqws \subseteq {t} \ Baseline
        /\ ytdlp \subseteq {t}
        /\ \A f \in files : f.by = t

\* A test passes only on data that it downloaded itself in time: never on
\* what an earlier probe left, and never when the last attempt was ended by
\* its timeout (wz-test.sh:211-217, 315-327).
PassIsOwnDownload ==
    \A t \in Tests : result[t] = "pass" =>
        /\ exit[t] # 124
        /\ found[t] # {} /\ \A f \in found[t] : f.by = t

\* A harness that ends by itself after it took the lock leaves nothing
\* behind: no rule, no nfqws, no pidfile, no download - its own or of one
\* that was killed before it (cleanup_all, wz-test.sh:100-121).
EndsClean ==
    [][\A t \in Tests : phase[t] \in Locked /\ phase'[t] = "ended" =>
          chain' = "none" /\ nfqws' = {} /\ pidfile' = "none" /\ files' = {}]_vars

\* Tests can always be run again: the lock is freed, also when the panel
\* killed the harness and nfqws was left running (`9>&-`, wz-test.sh:147).
LockFreed == []<>(Holders = {})

=============================================================================
