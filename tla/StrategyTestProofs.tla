-------------------------- MODULE StrategyTestProofs --------------------------
(***************************************************************************)
(* Proofs about StrategyTest: no probe is disturbed by another test, alive *)
(* or killed, and a test that ends leaves nothing behind.                  *)
(***************************************************************************)
EXTENDS StrategyTest, TLAPS

Probing == {"next", "probe", "judge", "collect"}
Prepared == {"setup", "settle", "rules"} \cup Probing

\* Who holds the lock is alone with it, and no yt-dlp runs but its own probe.
Alone ==
    \A t, u \in Tests : phase[t] \in Locked =>
        /\ phase[u] \in Locked => t = u
        /\ u \in ytdlp => t = u /\ phase[t] = "probe"

\* What runs, what the firewall does and what lies in TEST_DIR is the work of
\* the test that holds the lock, as far as it has come.
Own(t) ==
    /\ phase[t] \in {"clean nfqws", "clean files"} => chain = "none"
    /\ phase[t] \in Probing => chain = t
    /\ phase[t] \in {"clean files", "setup"} => pidfile = "none"
    /\ phase[t] = "settle" => pidfile = t /\ t \notin Baseline
    /\ phase[t] \in {"rules"} \cup Probing => pidfile = IF t \in Baseline THEN "none" ELSE t
    /\ phase[t] \in Prepared => \A f \in files : f.by = t

\* What a test has at hand is of this attempt: no verdict yet, and no success
\* that the last attempt did not bring.
Judged(t) ==
    /\ phase[t] \in Prepared \cup {"lock"} => result[t] # "pass"
    /\ phase[t] \notin {"probe", "judge", "killed"} /\ rc[t] = 0 => exit[t] # 124
    /\ result[t] = "pass" =>
          exit[t] # 124 /\ found[t] # {} /\ \A f \in found[t] : f.by = t

Safe ==
    /\ TypeOK /\ Alone
    /\ nfqws \subseteq {pidfile}
    /\ \A t \in Tests : Own(t) /\ Judged(t)

LEMMA SafeInit == Init => Safe
<1> SUFFICES ASSUME Init PROVE Safe
    OBVIOUS
<1>1. TypeOK
      BY TestsAssumption DEF Init, TypeOK, Unlocked, Results, Codes
<1>2. Alone /\ nfqws \subseteq {pidfile} /\ \A t \in Tests : Own(t) /\ Judged(t)
      BY DEF Init, Alone, Own, Judged, Probing, Prepared, Locked
<1> QED BY <1>1, <1>2 DEF Safe

-----------------------------------------------------------------------------
(* What a step leaves of the others                                        *)

\* Where a step takes one test to, and that it leaves the others.
LEMMA Moved ==
    ASSUME TypeOK, NEW t \in Tests, NEW p, Goto(t, p)
    PROVE  phase'[t] = p /\ \A u \in Tests : u # t => phase'[u] = phase[u]
BY DEF Goto, TypeOK

\* Who works with the lock is alone, and only probes while a yt-dlp runs.
LEMMA AtWork ==
    ASSUME TypeOK, Alone, NEW t \in Tests, phase[t] \in Locked
    PROVE  /\ \A u \in Tests : u # t => phase[u] \notin Locked
           /\ ytdlp \subseteq {t}
           /\ phase[t] # "probe" => ytdlp = {}
BY DEF Alone, TypeOK

\* Steps of one test, and of what it has started.
StepOf(t) ==
    \/ Submit(t) \/ HarnessStep(t) \/ NfqwsDies(t) \/ PanelTimeout(t)
    \/ \E w \in BOOLEAN : Download(t, w)
    \/ \E c \in Codes : YtdlpEnds(t, c)

LEMMA StepsAreOfTests == Next => Crash \/ \E t \in Tests : StepOf(t)
BY DEF Next, StepOf

\* A step of one test is no step of the others.
LEMMA OthersStay ==
    ASSUME TypeOK, NEW t \in Tests, StepOf(t), NEW u \in Tests, u # t
    PROVE  /\ phase'[u] = phase[u] /\ result'[u] = result[u] /\ exit'[u] = exit[u]
           /\ rc'[u] = rc[u] /\ found'[u] = found[u]
<1>1. CASE Submit(t)
      BY <1>1 DEF Submit, Goto, verdict, TypeOK
<1>2. CASE Busy(t)
      BY <1>2 DEF Busy, Goto, verdict, TypeOK
<1>3. CASE TakeLock(t)
      BY <1>3 DEF TakeLock, Goto, verdict, TypeOK
<1>4. CASE CleanRules(t)
      BY <1>4 DEF CleanRules, Goto, verdict, TypeOK
<1>5. CASE CleanNfqws(t)
      BY <1>5 DEF CleanNfqws, Goto, verdict, TypeOK
<1>6. CASE CleanFiles(t)
      BY <1>6 DEF CleanFiles, Goto, verdict, TypeOK
<1>7. CASE SetupBaseline(t)
      BY <1>7 DEF SetupBaseline, Goto, verdict, TypeOK
<1>8. CASE RenderFails(t)
      BY <1>8 DEF RenderFails, Answer, Goto, verdict, TypeOK
<1>9. CASE StartNfqws(t)
      BY <1>9 DEF StartNfqws, Goto, verdict, TypeOK
<1>10. CASE Settled(t)
      BY <1>10 DEF Settled, Goto, verdict, TypeOK
<1>11. CASE DiedInstantly(t)
      BY <1>11 DEF DiedInstantly, Answer, Goto, verdict, TypeOK
<1>12. CASE InstallRules(t)
      BY <1>12 DEF InstallRules, Answer, Goto, verdict, TypeOK
<1>13. CASE StopTrying(t)
      BY <1>13 DEF StopTrying, Goto, verdict, TypeOK
<1>14. CASE Judge(t)
      BY <1>14 DEF Judge, Goto, verdict, TypeOK
<1>15. CASE Collect(t)
      BY <1>15 DEF Collect, Answer, Goto, verdict, TypeOK
<1>16. CASE Attempt(t)
      BY <1>16 DEF Attempt, Goto, verdict, TypeOK
<1>17. CASE NfqwsDies(t)
      BY <1>17 DEF NfqwsDies, Goto, verdict, TypeOK
<1>18. CASE PanelTimeout(t)
      BY <1>18 DEF PanelTimeout, Goto, verdict, TypeOK
<1>19. ASSUME NEW w \in BOOLEAN, Download(t, w) PROVE phase'[u] = phase[u] /\ result'[u] = result[u] /\ exit'[u] = exit[u]
              /\ rc'[u] = rc[u] /\ found'[u] = found[u]
      BY <1>19 DEF Download, Goto, verdict, TypeOK
<1>20. ASSUME NEW c \in Codes, YtdlpEnds(t, c) PROVE phase'[u] = phase[u] /\ result'[u] = result[u] /\ exit'[u] = exit[u]
              /\ rc'[u] = rc[u] /\ found'[u] = found[u]
      BY <1>20 DEF YtdlpEnds, Goto, verdict, TypeOK
<1> QED BY <1>1, <1>2, <1>3, <1>4, <1>5, <1>6, <1>7, <1>8, <1>9, <1>10, <1>11,
           <1>12, <1>13, <1>14, <1>15, <1>16, <1>17, <1>18, <1>19, <1>20
        DEF StepOf, HarnessStep

\* The type is kept.
LEMMA TypeStep ==
    ASSUME TypeOK, NEW t \in Tests, StepOf(t)
    PROVE  TypeOK'
<1>1. CASE Submit(t)
  <2>1. phase' \in [Tests -> Locked \cup Unlocked]
        BY <1>1 DEF Submit, Goto, TypeOK, Unlocked
  <2>2. /\ result' \in [Tests -> Results] /\ found' \in [Tests -> SUBSET Files]
        BY <1>1 DEF Submit, TypeOK, Results
  <2>3. /\ exit' \in [Tests -> Codes] /\ rc' \in [Tests -> Codes \cup {2}]
        BY <1>1 DEF Submit, TypeOK, Codes
  <2>4. tries' \in [Tests -> 0..Formats]
        BY <1>1, TestsAssumption DEF Submit, TypeOK
  <2> QED BY <1>1, <2>1, <2>2, <2>3, <2>4 DEF Submit, probing, isolation, TypeOK
<1>2. CASE Busy(t)
      BY <1>2, TestsAssumption DEF Busy, Goto, verdict, probing, isolation, TypeOK, Locked, Unlocked, Results, Codes
<1>3. CASE TakeLock(t)
      BY <1>3, TestsAssumption DEF TakeLock, Goto, verdict, probing, isolation, TypeOK, Locked, Unlocked, Results, Codes
<1>4. CASE CleanRules(t)
      BY <1>4, TestsAssumption DEF CleanRules, Goto, verdict, probing, isolation, TypeOK, Locked, Unlocked, Results, Codes
<1>5. CASE CleanNfqws(t)
      BY <1>5, TestsAssumption DEF CleanNfqws, Goto, verdict, probing, isolation, TypeOK, Locked, Unlocked, Results, Codes
<1>6. CASE CleanFiles(t)
      BY <1>6, TestsAssumption DEF CleanFiles, Goto, verdict, probing, isolation, TypeOK, Locked, Unlocked, Results, Codes
<1>7. CASE SetupBaseline(t)
      BY <1>7, TestsAssumption DEF SetupBaseline, Goto, verdict, probing, isolation, TypeOK, Locked, Unlocked, Results, Codes
<1>8. CASE RenderFails(t)
      BY <1>8, TestsAssumption DEF RenderFails, Answer, Goto, verdict, probing, isolation, TypeOK, Locked, Unlocked, Results, Codes
<1>9. CASE StartNfqws(t)
      BY <1>9, TestsAssumption DEF StartNfqws, Goto, verdict, probing, isolation, TypeOK, Locked, Unlocked, Results, Codes
<1>10. CASE Settled(t)
      BY <1>10, TestsAssumption DEF Settled, Goto, verdict, probing, isolation, TypeOK, Locked, Unlocked, Results, Codes
<1>11. CASE DiedInstantly(t)
      BY <1>11, TestsAssumption DEF DiedInstantly, Answer, Goto, verdict, probing, isolation, TypeOK, Locked, Unlocked, Results, Codes
<1>12. CASE InstallRules(t)
      BY <1>12, TestsAssumption DEF InstallRules, Answer, Goto, verdict, probing, isolation, TypeOK, Locked, Unlocked, Results, Codes
<1>13. CASE StopTrying(t)
      BY <1>13, TestsAssumption DEF StopTrying, Goto, verdict, probing, isolation, TypeOK, Locked, Unlocked, Results, Codes
<1>14. CASE Judge(t)
  <2>1. Outcome(exit[t]) \in Codes
        BY DEF Outcome, TypeOK, Codes
  <2>2. rc' \in [Tests -> Codes \cup {2}]
        BY <1>14, <2>1 DEF Judge, TypeOK
  <2>3. phase' \in [Tests -> Locked \cup Unlocked]
        BY <1>14 DEF Judge, Goto, TypeOK, Locked
  <2> QED BY <1>14, <2>2, <2>3 DEF Judge, probing, isolation, TypeOK
<1>15. CASE Collect(t)
      BY <1>15, TestsAssumption DEF Collect, Answer, Goto, verdict, probing, isolation, TypeOK, Locked, Unlocked, Results, Codes
<1>16. CASE Attempt(t)
  <2>1. tries' \in [Tests -> 0..Formats]
        BY <1>16, TestsAssumption DEF Attempt, TypeOK
  <2>2. phase' \in [Tests -> Locked \cup Unlocked]
        BY <1>16 DEF Attempt, Goto, TypeOK, Locked
  <2> QED BY <1>16, <2>1, <2>2 DEF Attempt, isolation, TypeOK
<1>17. CASE NfqwsDies(t)
      BY <1>17, TestsAssumption DEF NfqwsDies, Goto, verdict, probing, isolation, TypeOK, Locked, Unlocked, Results, Codes
<1>18. CASE PanelTimeout(t)
      BY <1>18, TestsAssumption DEF PanelTimeout, Goto, verdict, probing, isolation, TypeOK, Locked, Unlocked, Results, Codes
<1>19. ASSUME NEW w \in BOOLEAN, Download(t, w) PROVE TypeOK'
  <2>1. files' \subseteq Files
        BY <1>19 DEF Download, TypeOK, Files
  <2> QED BY <1>19, <2>1 DEF Download, verdict, isolation, TypeOK
<1>20. ASSUME NEW c \in Codes, YtdlpEnds(t, c) PROVE TypeOK'
  <2>1. exit' \in [Tests -> Codes] /\ phase' \in [Tests -> Locked \cup Unlocked]
        BY <1>20 DEF YtdlpEnds, Goto, TypeOK, Locked
  <2>2. ytdlp' \subseteq Tests
        BY <1>20 DEF YtdlpEnds, TypeOK
  <2> QED BY <1>20, <2>1, <2>2 DEF YtdlpEnds, isolation, TypeOK
<1> QED BY <1>1, <1>2, <1>3, <1>4, <1>5, <1>6, <1>7, <1>8, <1>9, <1>10, <1>11,
           <1>12, <1>13, <1>14, <1>15, <1>16, <1>17, <1>18, <1>19, <1>20
        DEF StepOf, HarnessStep

-----------------------------------------------------------------------------
(* Who works with the lock                                                 *)

\* A test that has left the lock or has none disturbs nobody.
LEMMA AloneLeft ==
    ASSUME TypeOK, Alone, NEW t \in Tests, NEW p, p \notin Locked, Goto(t, p), UNCHANGED ytdlp
    PROVE  Alone'
<1>1. \A u \in Tests : phase'[u] \in Locked => u # t /\ phase'[u] = phase[u]
      BY Moved
<1> QED BY <1>1 DEF Alone

\* One that goes on with the lock and does not probe stays alone.
LEMMA AloneGoesOn ==
    ASSUME TypeOK, Alone, NEW t \in Tests, phase[t] \in Locked, phase[t] # "probe",
           NEW p, Goto(t, p), UNCHANGED ytdlp
    PROVE  Alone'
<1>1. ytdlp' = {} /\ \A u \in Tests : phase'[u] \in Locked => u = t
      BY Moved, AtWork
<1> QED BY <1>1 DEF Alone

LEMMA AloneStep ==
    ASSUME TypeOK, Alone, NEW t \in Tests, StepOf(t)
    PROVE  Alone'
<1>1. CASE Submit(t)
      BY <1>1, AloneLeft DEF Submit, probing, Locked
<1>2. CASE Busy(t)
      BY <1>2, AloneLeft DEF Busy, probing, Locked
<1>3. CASE TakeLock(t)
  <2>1. ytdlp = {} /\ \A u \in Tests : phase[u] \notin Locked
        BY <1>3 DEF TakeLock, Holders, Inherited
  <2>2. ytdlp' = {} /\ \A u \in Tests : phase'[u] \in Locked => u = t
        BY <1>3, <2>1, Moved DEF TakeLock, probing
  <2> QED BY <2>2 DEF Alone
<1>4. CASE CleanRules(t)
      BY <1>4, AloneGoesOn DEF CleanRules, probing, Locked
<1>5. CASE CleanNfqws(t)
      BY <1>5, AloneGoesOn DEF CleanNfqws, probing, Locked
<1>6. CASE CleanFiles(t)
      BY <1>6, AloneGoesOn DEF CleanFiles, probing, Locked
<1>7. CASE SetupBaseline(t)
      BY <1>7, AloneGoesOn DEF SetupBaseline, probing, Locked
<1>8. CASE RenderFails(t)
      BY <1>8, AloneGoesOn DEF RenderFails, Answer, probing, Locked
<1>9. CASE StartNfqws(t)
      BY <1>9, AloneGoesOn DEF StartNfqws, probing, Locked
<1>10. CASE Settled(t)
      BY <1>10, AloneGoesOn DEF Settled, probing, Locked
<1>11. CASE DiedInstantly(t)
      BY <1>11, AloneGoesOn DEF DiedInstantly, Answer, probing, Locked
<1>12. CASE InstallRules(t)
      BY <1>12, AloneGoesOn DEF InstallRules, Answer, probing, Locked
<1>13. CASE StopTrying(t)
      BY <1>13, AloneGoesOn DEF StopTrying, probing, Locked
<1>14. CASE Judge(t)
      BY <1>14, AloneGoesOn DEF Judge, probing, Locked
<1>15. CASE Collect(t)
      BY <1>15, AloneGoesOn DEF Collect, Answer, probing, Locked
<1>16. CASE Attempt(t)
  <2>1. phase[t] \in Locked /\ phase[t] # "probe"
        BY <1>16 DEF Attempt, Locked
  <2>2. ytdlp' = {t} /\ phase'[t] = "probe" /\ \A u \in Tests : phase'[u] \in Locked => u = t
        BY <1>16, <2>1, Moved, AtWork DEF Attempt
  <2> QED BY <2>2 DEF Alone
<1>17. CASE NfqwsDies(t)
      BY <1>17 DEF NfqwsDies, probing, Alone
<1>18. CASE PanelTimeout(t)
      BY <1>18, AloneLeft DEF PanelTimeout, probing, Locked
<1>19. ASSUME NEW w \in BOOLEAN, Download(t, w) PROVE Alone'
      BY <1>19 DEF Download, Alone
<1>20. ASSUME NEW c \in Codes, YtdlpEnds(t, c) PROVE Alone'
  <2>1. CASE phase[t] = "probe"
    <3>1. phase[t] \in Locked
          BY <2>1 DEF Locked
    <3>2. ytdlp' = {} /\ \A u \in Tests : phase'[u] \in Locked => u = t
          BY <1>20, <2>1, <3>1, Moved, AtWork DEF YtdlpEnds
    <3> QED BY <3>2 DEF Alone
  <2>2. CASE phase[t] # "probe"
        BY <1>20, <2>2 DEF YtdlpEnds, Alone
  <2> QED BY <2>1, <2>2
<1> QED BY <1>1, <1>2, <1>3, <1>4, <1>5, <1>6, <1>7, <1>8, <1>9, <1>10, <1>11,
           <1>12, <1>13, <1>14, <1>15, <1>16, <1>17, <1>18, <1>19, <1>20
        DEF StepOf, HarnessStep

-----------------------------------------------------------------------------
(* What a test has set up                                                  *)

\* Only who holds the lock, or its probe, changes what is shared.
LEMMA SharedStays ==
    ASSUME NEW t \in Tests, StepOf(t), phase[t] \notin Locked, t \notin ytdlp
    PROVE  UNCHANGED <<chain, pidfile, files>>
<1>1. CASE Submit(t)
      BY <1>1 DEF Submit, probing, isolation
<1>2. CASE Busy(t)
      BY <1>2 DEF Busy, probing, isolation
<1>3. CASE TakeLock(t)
      BY <1>3 DEF TakeLock, probing, isolation
<1>4. CASE CleanRules(t)
      BY <1>4 DEF CleanRules, Locked
<1>5. CASE CleanNfqws(t)
      BY <1>5 DEF CleanNfqws, Locked
<1>6. CASE CleanFiles(t)
      BY <1>6 DEF CleanFiles, Locked
<1>7. CASE SetupBaseline(t)
      BY <1>7 DEF SetupBaseline, Locked
<1>8. CASE RenderFails(t)
      BY <1>8 DEF RenderFails, Locked
<1>9. CASE StartNfqws(t)
      BY <1>9 DEF StartNfqws, Locked
<1>10. CASE Settled(t)
      BY <1>10 DEF Settled, Locked
<1>11. CASE DiedInstantly(t)
      BY <1>11 DEF DiedInstantly, Locked
<1>12. CASE InstallRules(t)
      BY <1>12 DEF InstallRules, Locked
<1>13. CASE StopTrying(t)
      BY <1>13 DEF StopTrying, Locked
<1>14. CASE Judge(t)
      BY <1>14 DEF Judge, Locked
<1>15. CASE Collect(t)
      BY <1>15 DEF Collect, Locked
<1>16. CASE Attempt(t)
      BY <1>16 DEF Attempt, Locked
<1>17. CASE NfqwsDies(t)
      BY <1>17 DEF NfqwsDies, probing, isolation
<1>18. CASE PanelTimeout(t)
      BY <1>18 DEF PanelTimeout, Locked
<1>19. ASSUME NEW w \in BOOLEAN, Download(t, w) PROVE UNCHANGED <<chain, pidfile, files>>
      BY <1>19 DEF Download, probing, isolation
<1>20. ASSUME NEW c \in Codes, YtdlpEnds(t, c) PROVE UNCHANGED <<chain, pidfile, files>>
      BY <1>20 DEF YtdlpEnds, probing, isolation
<1> QED BY <1>1, <1>2, <1>3, <1>4, <1>5, <1>6, <1>7, <1>8, <1>9, <1>10, <1>11,
           <1>12, <1>13, <1>14, <1>15, <1>16, <1>17, <1>18, <1>19, <1>20
        DEF StepOf, HarnessStep

\* Of the step of one test the others notice nothing.
LEMMA OthersOwn ==
    ASSUME Safe, Alone', NEW t \in Tests, StepOf(t), NEW u \in Tests, u # t
    PROVE  Own(u)'
<1>1. CASE phase'[u] \notin Locked
      BY <1>1 DEF Own, Prepared, Probing, Locked
<1>2. CASE phase'[u] \in Locked
  <2>1. phase'[u] = phase[u] /\ phase[u] \in Locked /\ Own(u)
        BY <1>2, OthersStay DEF Safe
  <2>2. phase[t] \notin Locked /\ phase'[t] \notin Locked /\ t \notin ytdlp
        BY <1>2, <2>1 DEF Safe, Alone
  <2>3. UNCHANGED <<chain, pidfile, files>>
        BY <2>2, SharedStays
  <2> QED BY <2>1, <2>3 DEF Own
<1> QED BY <1>1, <1>2

\* What a test has set up is its own, whatever others have left.
LEMMA OwnStep ==
    ASSUME Safe, NEW t \in Tests, StepOf(t)
    PROVE  Own(t)'
<1>0. TypeOK /\ Own(t) /\ nfqws \subseteq {pidfile}
      BY DEF Safe
<1>1. CASE Submit(t)
  <2>1. phase'[t] = "lock"
        BY <1>0, <1>1, Moved DEF Submit
  <2> QED BY <1>0, <1>1, <2>1 DEF Submit, Own, Prepared, Probing, probing, isolation
<1>2. CASE Busy(t)
  <2>1. phase[t] = "lock" /\ phase'[t] = "ended"
        BY <1>0, <1>2, Moved DEF Busy
  <2> QED BY <1>0, <1>2, <2>1 DEF Busy, Own, Prepared, Probing, probing, isolation
<1>3. CASE TakeLock(t)
  <2>1. phase[t] = "lock" /\ phase'[t] = "clean rules"
        BY <1>0, <1>3, Moved DEF TakeLock
  <2> QED BY <1>0, <1>3, <2>1 DEF TakeLock, Own, Prepared, Probing, probing, isolation
<1>4. CASE CleanRules(t)
  <2>1. phase[t] = "clean rules" /\ phase'[t] = "clean nfqws"
        BY <1>0, <1>4, Moved DEF CleanRules
  <2> QED BY <1>0, <1>4, <2>1 DEF CleanRules, Own, Prepared, Probing, probing, isolation
<1>5. CASE CleanNfqws(t)
  <2>1. phase[t] = "clean nfqws" /\ phase'[t] = "clean files"
        BY <1>0, <1>5, Moved DEF CleanNfqws
  <2> QED BY <1>0, <1>5, <2>1 DEF CleanNfqws, Own, Prepared, Probing, probing, isolation
<1>6. CASE CleanFiles(t)
  <2>1. phase[t] = "clean files" /\ phase'[t] = IF result[t] = "none" THEN "setup" ELSE "ended"
        BY <1>0, <1>6, Moved DEF CleanFiles
  <2> QED BY <1>0, <1>6, <2>1 DEF CleanFiles, Own, Prepared, Probing, probing, isolation
<1>7. CASE SetupBaseline(t)
  <2>1. phase[t] = "setup" /\ phase'[t] = "rules"
        BY <1>0, <1>7, Moved DEF SetupBaseline
  <2> QED BY <1>0, <1>7, <2>1 DEF SetupBaseline, Own, Prepared, Probing, probing, isolation
<1>8. CASE RenderFails(t)
  <2>1. phase[t] = "setup" /\ phase'[t] = "clean rules"
        BY <1>0, <1>8, Moved DEF RenderFails, Answer
  <2> QED BY <1>0, <1>8, <2>1 DEF RenderFails, Answer, Own, Prepared, Probing, probing, isolation
<1>9. CASE StartNfqws(t)
  <2>1. phase[t] = "setup" /\ phase'[t] = "settle"
        BY <1>0, <1>9, Moved DEF StartNfqws
  <2> QED BY <1>0, <1>9, <2>1 DEF StartNfqws, Own, Prepared, Probing, probing, isolation
<1>10. CASE Settled(t)
  <2>1. phase[t] = "settle" /\ phase'[t] = "rules"
        BY <1>0, <1>10, Moved DEF Settled
  <2> QED BY <1>0, <1>10, <2>1 DEF Settled, Own, Prepared, Probing, probing, isolation
<1>11. CASE DiedInstantly(t)
  <2>1. phase[t] = "settle" /\ phase'[t] = "clean rules"
        BY <1>0, <1>11, Moved DEF DiedInstantly, Answer
  <2> QED BY <1>0, <1>11, <2>1 DEF DiedInstantly, Answer, Own, Prepared, Probing, probing, isolation
<1>12. CASE InstallRules(t)
  <2>1. phase[t] = "rules" /\ phase'[t] \in {"next", "clean rules"}
        BY <1>0, <1>12, Moved DEF InstallRules, Answer
  <2> QED BY <1>0, <1>12, <2>1 DEF InstallRules, Answer, Own, Prepared, Probing, probing, isolation
<1>13. CASE StopTrying(t)
  <2>1. phase[t] = "next" /\ phase'[t] = "collect"
        BY <1>0, <1>13, Moved DEF StopTrying
  <2> QED BY <1>0, <1>13, <2>1 DEF StopTrying, Own, Prepared, Probing, probing, isolation
<1>14. CASE Judge(t)
  <2>1. phase[t] = "judge" /\ phase'[t] = IF Outcome(exit[t]) \in {0, 124} THEN "collect" ELSE "next"
        BY <1>0, <1>14, Moved DEF Judge
  <2> QED BY <1>0, <1>14, <2>1 DEF Judge, Own, Prepared, Probing, probing, isolation
<1>15. CASE Collect(t)
  <2>1. phase[t] = "collect" /\ phase'[t] = "clean rules"
        BY <1>0, <1>15, Moved DEF Collect, Answer
  <2> QED BY <1>0, <1>15, <2>1 DEF Collect, Answer, Own, Prepared, Probing, probing, isolation
<1>16. CASE Attempt(t)
  <2>1. phase[t] = "next" /\ phase'[t] = "probe"
        BY <1>0, <1>16, Moved DEF Attempt
  <2> QED BY <1>0, <1>16, <2>1 DEF Attempt, Own, Prepared, Probing, probing, isolation
<1>17. CASE NfqwsDies(t)
      BY <1>0, <1>17 DEF NfqwsDies, Own, verdict, probing
<1>18. CASE PanelTimeout(t)
  <2>1. phase'[t] = "killed"
        BY <1>0, <1>18, Moved DEF PanelTimeout
  <2> QED BY <1>0, <1>18, <2>1 DEF PanelTimeout, Own, Prepared, Probing, probing, isolation
<1>19. ASSUME NEW w \in BOOLEAN, Download(t, w) PROVE Own(t)'
  <2>1. phase[t] \in Prepared => \A f \in files' : f.by = t
    <3>1. phase[t] \in Prepared => \A f \in files : f.by = t
          BY <1>0 DEF Own
    <3>2. \A f \in files' : f.by = t \/ f \in files
          BY <1>19 DEF Download
    <3> QED BY <3>1, <3>2
  <2> QED BY <1>0, <1>19, <2>1 DEF Download, Own, isolation
<1>20. ASSUME NEW c \in Codes, YtdlpEnds(t, c) PROVE Own(t)'
  <2>1. CASE phase[t] = "probe"
    <3>1. phase'[t] = "judge"
          BY <1>0, <1>20, <2>1, Moved DEF YtdlpEnds
    <3> QED BY <1>0, <1>20, <2>1, <3>1 DEF YtdlpEnds, Own, Prepared, Probing, isolation
  <2>2. CASE phase[t] # "probe"
        BY <1>0, <1>20, <2>2 DEF YtdlpEnds, Own, isolation
  <2> QED BY <2>1, <2>2
<1> QED BY <1>1, <1>2, <1>3, <1>4, <1>5, <1>6, <1>7, <1>8, <1>9, <1>10, <1>11,
           <1>12, <1>13, <1>14, <1>15, <1>16, <1>17, <1>18, <1>19, <1>20
        DEF StepOf, HarnessStep

\* A verdict is of the attempt that was made last.
LEMMA JudgedStep ==
    ASSUME Safe, NEW t \in Tests, StepOf(t)
    PROVE  Judged(t)'
<1>0. TypeOK /\ Own(t) /\ Judged(t)
      BY DEF Safe
<1>1. CASE Submit(t)
  <2>1. phase'[t] = "lock"
        BY <1>0, <1>1, Moved DEF Submit
  <2>2. result'[t] = "none" /\ rc'[t] = 2
        BY <1>0, <1>1 DEF Submit, TypeOK
  <2> QED BY <1>0, <2>1, <2>2 DEF Judged, Prepared, Probing
<1>2. CASE Busy(t)
  <2>1. phase[t] = "lock" /\ phase'[t] = "ended"
        BY <1>0, <1>2, Moved DEF Busy
  <2>2. result'[t] = "busy" /\ UNCHANGED <<exit, rc>>
        BY <1>0, <1>2 DEF Busy, TypeOK
  <2> QED BY <1>0, <2>1, <2>2 DEF Judged, Prepared, Probing
<1>3. CASE TakeLock(t)
  <2>1. phase[t] = "lock" /\ phase'[t] = "clean rules"
        BY <1>0, <1>3, Moved DEF TakeLock
  <2>2. UNCHANGED <<result, exit, rc, found>>
        BY <1>3 DEF TakeLock, verdict
  <2> QED BY <1>0, <2>1, <2>2 DEF Judged, Prepared, Probing
<1>4. CASE CleanRules(t)
  <2>1. phase[t] = "clean rules" /\ phase'[t] = "clean nfqws"
        BY <1>0, <1>4, Moved DEF CleanRules
  <2>2. UNCHANGED <<result, exit, rc, found>>
        BY <1>4 DEF CleanRules, verdict
  <2> QED BY <1>0, <2>1, <2>2 DEF Judged, Prepared, Probing
<1>5. CASE CleanNfqws(t)
  <2>1. phase[t] = "clean nfqws" /\ phase'[t] = "clean files"
        BY <1>0, <1>5, Moved DEF CleanNfqws
  <2>2. UNCHANGED <<result, exit, rc, found>>
        BY <1>5 DEF CleanNfqws, verdict
  <2> QED BY <1>0, <2>1, <2>2 DEF Judged, Prepared, Probing
<1>6. CASE CleanFiles(t)
  <2>1. phase[t] = "clean files" /\ phase'[t] = IF result[t] = "none" THEN "setup" ELSE "ended"
        BY <1>0, <1>6, Moved DEF CleanFiles
  <2>2. UNCHANGED <<result, exit, rc, found>>
        BY <1>6 DEF CleanFiles, verdict
  <2> QED BY <1>0, <2>1, <2>2 DEF Judged, Prepared, Probing
<1>7. CASE SetupBaseline(t)
  <2>1. phase[t] = "setup" /\ phase'[t] = "rules"
        BY <1>0, <1>7, Moved DEF SetupBaseline
  <2>2. UNCHANGED <<result, exit, rc, found>>
        BY <1>7 DEF SetupBaseline, verdict
  <2> QED BY <1>0, <2>1, <2>2 DEF Judged, Prepared, Probing
<1>8. CASE RenderFails(t)
  <2>1. phase[t] = "setup" /\ phase'[t] = "clean rules"
        BY <1>0, <1>8, Moved DEF RenderFails, Answer
  <2>2. result'[t] = "error" /\ UNCHANGED <<exit, rc>>
        BY <1>0, <1>8 DEF RenderFails, Answer, TypeOK
  <2> QED BY <1>0, <2>1, <2>2 DEF Judged, Prepared, Probing
<1>9. CASE StartNfqws(t)
  <2>1. phase[t] = "setup" /\ phase'[t] = "settle"
        BY <1>0, <1>9, Moved DEF StartNfqws
  <2>2. UNCHANGED <<result, exit, rc, found>>
        BY <1>9 DEF StartNfqws, verdict
  <2> QED BY <1>0, <2>1, <2>2 DEF Judged, Prepared, Probing
<1>10. CASE Settled(t)
  <2>1. phase[t] = "settle" /\ phase'[t] = "rules"
        BY <1>0, <1>10, Moved DEF Settled
  <2>2. UNCHANGED <<result, exit, rc, found>>
        BY <1>10 DEF Settled, verdict
  <2> QED BY <1>0, <2>1, <2>2 DEF Judged, Prepared, Probing
<1>11. CASE DiedInstantly(t)
  <2>1. phase[t] = "settle" /\ phase'[t] = "clean rules"
        BY <1>0, <1>11, Moved DEF DiedInstantly, Answer
  <2>2. result'[t] = "error" /\ UNCHANGED <<exit, rc>>
        BY <1>0, <1>11 DEF DiedInstantly, Answer, TypeOK
  <2> QED BY <1>0, <2>1, <2>2 DEF Judged, Prepared, Probing
<1>12. CASE InstallRules(t)
  <2>1. phase[t] = "rules" /\ phase'[t] \in {"next", "clean rules"}
        BY <1>0, <1>12, Moved DEF InstallRules, Answer
  <2>2. UNCHANGED <<exit, rc, found>> /\ result'[t] \in {result[t], "error"}
        BY <1>0, <1>12 DEF InstallRules, Answer, TypeOK
  <2>3. phase'[t] = "next" => UNCHANGED result
    <3>1. (Goto(t, "next") /\ UNCHANGED result) \/ Answer(t, "error")
          BY <1>12 DEF InstallRules
    <3>2. Answer(t, "error") => phase'[t] = "clean rules"
          BY <1>0, Moved DEF Answer
    <3> QED BY <3>1, <3>2
  <2> QED BY <1>0, <2>1, <2>2, <2>3 DEF Judged, Prepared, Probing
<1>13. CASE StopTrying(t)
  <2>1. phase[t] = "next" /\ phase'[t] = "collect"
        BY <1>0, <1>13, Moved DEF StopTrying
  <2>2. UNCHANGED <<result, exit, rc, found>>
        BY <1>13 DEF StopTrying, verdict
  <2> QED BY <1>0, <2>1, <2>2 DEF Judged, Prepared, Probing
<1>14. CASE Judge(t)
  <2>1. phase[t] = "judge" /\ phase'[t] = IF Outcome(exit[t]) \in {0, 124} THEN "collect" ELSE "next"
        BY <1>0, <1>14, Moved DEF Judge
  <2>2. rc'[t] = Outcome(exit[t]) /\ UNCHANGED <<exit, result, found>>
        BY <1>0, <1>14 DEF Judge, TypeOK
  <2>3. Outcome(exit[t]) = 0 => exit[t] # 124
        BY DEF Outcome
  <2> QED BY <1>0, <2>1, <2>2, <2>3 DEF Judged, Prepared, Probing
<1>15. CASE Collect(t)
  <2>1. phase[t] = "collect" /\ phase'[t] = "clean rules"
        BY <1>0, <1>15, Moved DEF Collect, Answer
  <2>2. /\ found'[t] = files /\ UNCHANGED <<exit, rc>>
        /\ result'[t] = IF rc[t] = 0 /\ files # {} THEN "pass" ELSE "fail"
        BY <1>0, <1>15 DEF Collect, Answer, TypeOK
  <2>3. \A f \in files : f.by = t
        BY <1>0, <2>1 DEF Own, Prepared, Probing
  <2> QED BY <1>0, <2>1, <2>2, <2>3 DEF Judged, Prepared, Probing
<1>16. CASE Attempt(t)
  <2>1. phase[t] = "next" /\ phase'[t] = "probe"
        BY <1>0, <1>16, Moved DEF Attempt
  <2>2. UNCHANGED <<result, exit, rc, found>>
        BY <1>16 DEF Attempt, verdict
  <2> QED BY <1>0, <2>1, <2>2 DEF Judged, Prepared, Probing
<1>17. CASE NfqwsDies(t)
      BY <1>0, <1>17 DEF NfqwsDies, Judged, verdict
<1>18. CASE PanelTimeout(t)
  <2>1. phase'[t] = "killed"
        BY <1>0, <1>18, Moved DEF PanelTimeout
  <2>2. result'[t] = "timed out"
        BY <1>0, <1>18 DEF PanelTimeout, TypeOK
  <2> QED BY <1>0, <2>1, <2>2 DEF Judged, Prepared, Probing
<1>19. ASSUME NEW w \in BOOLEAN, Download(t, w) PROVE Judged(t)'
      BY <1>0, <1>19 DEF Download, Judged, verdict
<1>20. ASSUME NEW c \in Codes, YtdlpEnds(t, c) PROVE Judged(t)'
  <2>1. CASE phase[t] = "probe"
    <3>1. phase'[t] = "judge" /\ UNCHANGED <<result, rc, found>>
          BY <1>0, <1>20, <2>1, Moved DEF YtdlpEnds
    <3>2. result[t] # "pass"
          BY <1>0, <2>1 DEF Judged, Prepared, Probing
    <3> QED BY <3>1, <3>2 DEF Judged, Prepared, Probing
  <2>2. CASE phase[t] # "probe"
        BY <1>0, <1>20, <2>2 DEF YtdlpEnds, Judged
  <2> QED BY <2>1, <2>2
<1> QED BY <1>1, <1>2, <1>3, <1>4, <1>5, <1>6, <1>7, <1>8, <1>9, <1>10, <1>11,
           <1>12, <1>13, <1>14, <1>15, <1>16, <1>17, <1>18, <1>19, <1>20
        DEF StepOf, HarnessStep

\* An nfqws that runs is the one of the pidfile.
LEMMA NfqwsStep ==
    ASSUME Safe, NEW t \in Tests, StepOf(t)
    PROVE  nfqws' \subseteq {pidfile'}
<1>0. /\ Own(t) /\ nfqws \subseteq {pidfile} /\ nfqws \subseteq Tests
      /\ "none" \notin Tests
      BY TestsAssumption DEF Safe, TypeOK
<1>1. CASE Submit(t)
      BY <1>0, <1>1 DEF Submit, isolation
<1>2. CASE Busy(t)
      BY <1>0, <1>2 DEF Busy, isolation
<1>3. CASE TakeLock(t)
      BY <1>0, <1>3 DEF TakeLock, isolation
<1>4. CASE CleanRules(t)
      BY <1>0, <1>4 DEF CleanRules, isolation
<1>5. CASE CleanNfqws(t)
      BY <1>0, <1>5 DEF CleanNfqws, Own
<1>6. CASE CleanFiles(t)
      BY <1>0, <1>6 DEF CleanFiles, isolation
<1>7. CASE SetupBaseline(t)
      BY <1>0, <1>7 DEF SetupBaseline, isolation
<1>8. CASE RenderFails(t)
      BY <1>0, <1>8 DEF RenderFails, Answer, isolation
<1>9. CASE StartNfqws(t)
      BY <1>0, <1>9 DEF StartNfqws, Own
<1>10. CASE Settled(t)
      BY <1>0, <1>10 DEF Settled, isolation
<1>11. CASE DiedInstantly(t)
      BY <1>0, <1>11 DEF DiedInstantly, Own
<1>12. CASE InstallRules(t)
      BY <1>0, <1>12 DEF InstallRules, Answer, isolation
<1>13. CASE StopTrying(t)
      BY <1>0, <1>13 DEF StopTrying, isolation
<1>14. CASE Judge(t)
      BY <1>0, <1>14 DEF Judge, isolation
<1>15. CASE Collect(t)
      BY <1>0, <1>15 DEF Collect, Answer, isolation
<1>16. CASE Attempt(t)
      BY <1>0, <1>16 DEF Attempt, isolation
<1>17. CASE NfqwsDies(t)
      BY <1>0, <1>17 DEF NfqwsDies, isolation
<1>18. CASE PanelTimeout(t)
      BY <1>0, <1>18 DEF PanelTimeout, isolation
<1>19. ASSUME NEW w \in BOOLEAN, Download(t, w) PROVE nfqws' \subseteq {pidfile'}
      BY <1>0, <1>19 DEF Download, isolation
<1>20. ASSUME NEW c \in Codes, YtdlpEnds(t, c) PROVE nfqws' \subseteq {pidfile'}
      BY <1>0, <1>20 DEF YtdlpEnds, isolation
<1> QED BY <1>1, <1>2, <1>3, <1>4, <1>5, <1>6, <1>7, <1>8, <1>9, <1>10, <1>11,
           <1>12, <1>13, <1>14, <1>15, <1>16, <1>17, <1>18, <1>19, <1>20
        DEF StepOf, HarnessStep

-----------------------------------------------------------------------------
(* The theorems                                                            *)

\* The container dies: nobody holds the lock.
LEMMA SafeCrash == Safe /\ Crash => Safe'
<1> SUFFICES ASSUME Safe, Crash PROVE Safe'
    OBVIOUS
<1>0. TypeOK /\ \A t \in Tests : Judged(t)
      BY DEF Safe
<1>1. \A t \in Tests : phase'[t] \in Unlocked \ {"lock"}
      BY <1>0 DEF Crash, Unlocked
<1>2. \A t \in Tests : phase'[t] \notin Locked \cup Prepared \cup {"lock"}
      BY <1>1 DEF Unlocked, Locked, Prepared, Probing
<1>3. TypeOK'
  <2>1. phase' \in [Tests -> Locked \cup Unlocked]
        BY <1>0 DEF Crash, TypeOK, Unlocked
  <2>2. crashes' \in 0..MaxCrashes
        BY <1>0, TestsAssumption DEF Crash, TypeOK
  <2> QED BY <1>0, <2>1, <2>2 DEF Crash, TypeOK, verdict
<1>4. Alone'
      BY <1>2 DEF Alone
<1>5. \A t \in Tests : Own(t)'
      BY <1>2 DEF Own, Prepared, Probing, Locked
<1>6. \A t \in Tests : Judged(t)'
  <2> TAKE t \in Tests
  <2>1. phase'[t] = "killed" \/ phase'[t] = phase[t]
        BY <1>0 DEF Crash, TypeOK
  <2>2. Judged(t) /\ UNCHANGED <<result, exit, rc, found>>
        BY <1>0 DEF Crash, verdict
  <2> QED BY <1>2, <2>1, <2>2 DEF Judged
<1> QED BY <1>3, <1>4, <1>5, <1>6 DEF Safe, Crash

LEMMA SafeStep == Safe /\ [Next]_vars => Safe'
<1> SUFFICES ASSUME Safe, [Next]_vars PROVE Safe'
    OBVIOUS
<1>1. CASE Crash
      BY <1>1, SafeCrash
<1>2. ASSUME NEW t \in Tests, StepOf(t) PROVE Safe'
  <2>1. TypeOK' /\ Alone'
        BY <1>2, TypeStep, AloneStep DEF Safe
  <2>2. ASSUME NEW u \in Tests PROVE Own(u)' /\ Judged(u)'
    <3>1. CASE u = t
          BY <1>2, <3>1, OwnStep, JudgedStep
    <3>2. CASE u # t
      <4>1. Own(u)'
            BY <1>2, <2>1, <3>2, OthersOwn
      <4>2. Judged(u)'
            BY <1>2, <3>2, OthersStay DEF Safe, Judged
      <4> QED BY <4>1, <4>2
    <3> QED BY <3>1, <3>2
  <2> QED BY <1>2, <2>1, <2>2, NfqwsStep DEF Safe
<1>3. CASE UNCHANGED vars
      BY <1>3 DEF vars, verdict, probing, isolation, Safe, TypeOK, Alone, Own, Judged
<1> QED BY <1>1, <1>2, <1>3, StepsAreOfTests

\* Every state of the harnesses has its type, for any tests and selectors.
THEOREM TypeCorrect == Spec => []TypeOK
<1>1. Safe => TypeOK
      BY DEF Safe
<1> QED BY <1>1, SafeInit, SafeStep, PTL DEF Spec

\* While a test probes, rules, nfqws and files are its own, whatever the panel
\* has killed and left running before.
THEOREM ProbesAreApart == Spec => []ProbeIsolated
<1>1. Safe => ProbeIsolated
  <2> SUFFICES ASSUME Safe, NEW t \in Tests, phase[t] \in Probing
               PROVE  /\ chain = t
                      /\ nfqws \subseteq {t} \ Baseline
                      /\ ytdlp \subseteq {t}
                      /\ \A f \in files : f.by = t
      BY DEF ProbeIsolated, Probing
  <2>1. phase[t] \in Locked
        BY DEF Probing, Locked
  <2>2. ytdlp \subseteq {t} /\ nfqws \subseteq {pidfile} /\ nfqws \subseteq Tests /\ Own(t)
        BY <2>1, AtWork DEF Safe, TypeOK
  <2>3. chain = t /\ \A f \in files : f.by = t
        BY <2>2 DEF Own, Prepared
  <2>4. pidfile = IF t \in Baseline THEN "none" ELSE t
        BY <2>2 DEF Own
  <2> QED BY <2>2, <2>3, <2>4, TestsAssumption
<1> QED BY <1>1, SafeInit, SafeStep, PTL DEF Spec

\* A test passes only on what it has downloaded itself, in time.
THEOREM PassesAreEarned == Spec => []PassIsOwnDownload
<1>1. Safe => PassIsOwnDownload
      BY DEF Safe, Judged, PassIsOwnDownload
<1> QED BY <1>1, SafeInit, SafeStep, PTL DEF Spec

\* Who ends with the lock in hand has cleaned up first.
LEMMA EndIsCleaned ==
    ASSUME Safe, NEW t \in Tests, StepOf(t), phase[t] \in Locked, phase'[t] = "ended"
    PROVE  CleanFiles(t)
<1>0. TypeOK /\ phase'[t] # phase[t]
      BY DEF Safe, Locked
<1>1. CASE Submit(t)
      BY <1>1 DEF Submit, Locked
<1>2. CASE Busy(t)
      BY <1>2 DEF Busy, Locked
<1>3. CASE TakeLock(t)
  <2>1. phase'[t] = "clean rules"
        BY <1>0, <1>3, Moved DEF TakeLock
  <2> QED BY <2>1
<1>4. CASE CleanRules(t)
  <2>1. phase'[t] = "clean nfqws"
        BY <1>0, <1>4, Moved DEF CleanRules
  <2> QED BY <2>1
<1>5. CASE CleanNfqws(t)
  <2>1. phase'[t] = "clean files"
        BY <1>0, <1>5, Moved DEF CleanNfqws
  <2> QED BY <2>1
<1>6. CASE CleanFiles(t)
      BY <1>6
<1>7. CASE SetupBaseline(t)
  <2>1. phase'[t] = "rules"
        BY <1>0, <1>7, Moved DEF SetupBaseline
  <2> QED BY <2>1
<1>8. CASE RenderFails(t)
  <2>1. phase'[t] = "clean rules"
        BY <1>0, <1>8, Moved DEF RenderFails, Answer
  <2> QED BY <2>1
<1>9. CASE StartNfqws(t)
  <2>1. phase'[t] = "settle"
        BY <1>0, <1>9, Moved DEF StartNfqws
  <2> QED BY <2>1
<1>10. CASE Settled(t)
  <2>1. phase'[t] = "rules"
        BY <1>0, <1>10, Moved DEF Settled
  <2> QED BY <2>1
<1>11. CASE DiedInstantly(t)
  <2>1. phase'[t] = "clean rules"
        BY <1>0, <1>11, Moved DEF DiedInstantly, Answer
  <2> QED BY <2>1
<1>12. CASE InstallRules(t)
  <2>1. phase'[t] \in {"next", "clean rules"}
        BY <1>0, <1>12, Moved DEF InstallRules, Answer
  <2> QED BY <2>1
<1>13. CASE StopTrying(t)
  <2>1. phase'[t] = "collect"
        BY <1>0, <1>13, Moved DEF StopTrying
  <2> QED BY <2>1
<1>14. CASE Judge(t)
  <2>1. phase'[t] = IF Outcome(exit[t]) \in {0, 124} THEN "collect" ELSE "next"
        BY <1>0, <1>14, Moved DEF Judge
  <2> QED BY <2>1
<1>15. CASE Collect(t)
  <2>1. phase'[t] = "clean rules"
        BY <1>0, <1>15, Moved DEF Collect, Answer
  <2> QED BY <2>1
<1>16. CASE Attempt(t)
  <2>1. phase'[t] = "probe"
        BY <1>0, <1>16, Moved DEF Attempt
  <2> QED BY <2>1
<1>17. CASE NfqwsDies(t)
      BY <1>0, <1>17 DEF NfqwsDies
<1>18. CASE PanelTimeout(t)
  <2>1. phase'[t] = "killed"
        BY <1>0, <1>18, Moved DEF PanelTimeout
  <2> QED BY <2>1
<1>19. ASSUME NEW w \in BOOLEAN, Download(t, w) PROVE CleanFiles(t)
      BY <1>0, <1>19 DEF Download
<1>20. ASSUME NEW c \in Codes, YtdlpEnds(t, c) PROVE CleanFiles(t)
  <2>1. phase[t] = "probe" => phase'[t] = "judge"
        BY <1>0, <1>20, Moved DEF YtdlpEnds
  <2> QED BY <1>0, <1>20, <2>1 DEF YtdlpEnds
<1> QED BY <1>1, <1>2, <1>3, <1>4, <1>5, <1>6, <1>7, <1>8, <1>9, <1>10, <1>11,
           <1>12, <1>13, <1>14, <1>15, <1>16, <1>17, <1>18, <1>19, <1>20
        DEF StepOf, HarnessStep

\* A harness that ends by itself leaves no rule, nfqws, pidfile or download,
\* of its own or of one that was killed before it.
THEOREM NothingIsLeft == Spec => EndsClean
<1>1. Safe /\ [Next]_vars =>
        [\A t \in Tests : phase[t] \in Locked /\ phase'[t] = "ended" =>
            chain' = "none" /\ nfqws' = {} /\ pidfile' = "none" /\ files' = {}]_vars
  <2> SUFFICES ASSUME Safe, Next, NEW u \in Tests, phase[u] \in Locked, phase'[u] = "ended"
               PROVE  chain' = "none" /\ nfqws' = {} /\ pidfile' = "none" /\ files' = {}
      OBVIOUS
  <2>1. ~Crash
        BY DEF Crash, Locked, Unlocked, Safe, TypeOK
  <2>2. PICK t \in Tests : StepOf(t)
        BY <2>1, StepsAreOfTests
  <2>3. t = u
        BY <2>2, OthersStay DEF Safe, Locked
  <2>4. CleanFiles(u)
        BY <2>2, <2>3, EndIsCleaned
  <2>5. chain = "none" /\ pidfile = "none" /\ nfqws \subseteq {pidfile} /\ nfqws \subseteq Tests
        BY <2>4 DEF CleanFiles, Safe, Own, TypeOK
  <2> QED BY <2>4, <2>5, TestsAssumption DEF CleanFiles, isolation
<1> QED BY <1>1, SafeInit, SafeStep, PTL DEF Spec, EndsClean
=============================================================================
