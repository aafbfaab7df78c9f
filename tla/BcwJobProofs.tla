----------------------------- MODULE BcwJobProofs -----------------------------
(***************************************************************************)
(* Proofs about BcwJob: scanners are kept apart, and the job record tells  *)
(* the truth of the run that it names.                                     *)
(***************************************************************************)
EXTENDS BcwJob, TLAPS

\* An engine has bcw.lock, which nobody else has, and only an engine scans.
LockHeld ==
    /\ \A i \in Runs : proc[i] = "engine" => i \in bcwLock
    /\ \A i, j \in bcwLock : i = j
    /\ \A i \in Runs : scanner[i] \in {"up", "bound"} => proc[i] = "engine"

\* Runs are started in their order, one at a time, under the panel's lock.
InOrder ==
    /\ \A i \in Started, j \in Runs : j < i => j \in Started
    /\ \A i \in Runs : pc[i] \in {"claimed", "spawned"} =>
          bcwMutex = "start" /\ \A j \in Started : j <= i
    /\ cancel.step # "none" => bcwMutex = "cancel"
    /\ RunningIsNewest

\* A harness is started once and ends once, and has a result only at its end.
OneLife ==
    \A i \in Runs :
        /\ pc[i] \in {"none", "claimed"} => proc[i] = "none"
        /\ result[i] # "none" => proc[i] \in {"reporting", "gone", "reaped"}
        /\ i \in foreign => proc[i] = "reaped"

\* What the record and a cancellation say of the run that they name.
TrueRecord ==
    /\ rec.state = "running" => rec.run \in Runs /\ rec.pid \in {0, rec.run}
    /\ rec.state = "done" => rec.run \in Runs /\ result[rec.run] = "ok"
    /\ rec.state = "cancelling" => rec.run \in Runs /\ proc[rec.run] \in {"gone", "reaped"}
    /\ last # 0 => result[last] = "ok"
    /\ cancel.step # "none" => cancel.job.run \in Runs /\ cancel.job.pid = cancel.job.run
    /\ cancel.step = "save" => proc[cancel.job.run] \in {"gone", "reaped"}

Safe == TypeOK /\ LockHeld /\ InOrder /\ OneLife /\ TrueRecord

LEMMA RunsType == MaxRuns \in Nat /\ Runs \subseteq Nat \ {0} /\ 0 \notin Runs /\ Runs \subseteq 0..MaxRuns
BY BoundsAssumption DEF Runs

LEMMA SafeInit == Init => Safe
<1> SUFFICES ASSUME Init PROVE Safe
    OBVIOUS
<1>1. TypeOK
      BY RunsType, BoundsAssumption DEF Init, TypeOK, NoJob, NoCancel, Records, JobStates
<1>2. LockHeld /\ InOrder /\ OneLife /\ TrueRecord
      BY DEF Init, LockHeld, InOrder, RunningIsNewest, Started, OneLife, TrueRecord, NoJob, NoCancel
<1> QED BY <1>1, <1>2 DEF Safe

\* The type is kept.
LEMMA TypeStep ==
    ASSUME TypeOK, [Next]_vars
    PROVE  TypeOK'
<1>1. ASSUME NEW i \in Runs, StartClaim(i) PROVE TypeOK'
      BY <1>1, RunsType, BoundsAssumption DEF StartClaim, panel, harness, TypeOK,
          Records, JobStates
<1>2. ASSUME NEW i \in Runs, StartSpawn(i) PROVE TypeOK'
      BY <1>2, RunsType, BoundsAssumption DEF StartSpawn, panel, harness, TypeOK,
          Records, JobStates
<1>3. ASSUME NEW i \in Runs, StartPid(i) PROVE TypeOK'
      BY <1>3, RunsType, BoundsAssumption DEF StartPid, panel, harness, TypeOK,
          Records, JobStates
<1>4. ASSUME NEW i \in Runs, CollectWait(i) PROVE TypeOK'
      BY <1>4, RunsType, BoundsAssumption DEF CollectWait, panel, harness, TypeOK,
          Records, JobStates
<1>5. ASSUME NEW i \in Runs, CollectSave(i) PROVE TypeOK'
      BY <1>5, RunsType, BoundsAssumption DEF CollectSave, panel, harness, Outcome,
          TypeOK, Records, JobStates
<1>6. ASSUME NEW i \in Runs, CollectLast(i) PROVE TypeOK'
      BY <1>6, RunsType, BoundsAssumption DEF CollectLast, panel, harness, TypeOK,
          Records, JobStates
<1>7. ASSUME NEW i \in Runs, Preflight(i) PROVE TypeOK'
      BY <1>7, RunsType, BoundsAssumption DEF Preflight, panel, harness, TypeOK,
          Records, JobStates
<1>8. ASSUME NEW i \in Runs, TakeLock(i) PROVE TypeOK'
      BY <1>8, RunsType, BoundsAssumption DEF TakeLock, panel, harness, TypeOK,
          Records, JobStates
<1>9. ASSUME NEW i \in Runs, LockBusy(i) PROVE TypeOK'
      BY <1>9, RunsType, BoundsAssumption DEF LockBusy, panel, harness, TypeOK,
          Records, JobStates
<1>10. ASSUME NEW i \in Runs, Scan(i) PROVE TypeOK'
      BY <1>10, RunsType, BoundsAssumption DEF Scan, panel, harness, TypeOK, Records,
          JobStates
<1>11. ASSUME NEW i \in Runs, WriteResult(i) PROVE TypeOK'
      BY <1>11, RunsType, BoundsAssumption DEF WriteResult, panel, harness, TypeOK,
          Records, JobStates
<1>12. ASSUME NEW i \in Runs, Report(i) PROVE TypeOK'
      BY <1>12, RunsType, BoundsAssumption DEF Report, panel, harness, TypeOK,
          Records, JobStates
<1>13. ASSUME NEW i \in Runs, Bind(i) PROVE TypeOK'
      BY <1>13, RunsType, BoundsAssumption DEF Bind, panel, harness, TypeOK, Records,
          JobStates
<1>14. ASSUME NEW i \in Runs, ScanEnd(i) PROVE TypeOK'
      BY <1>14, RunsType, BoundsAssumption DEF ScanEnd, panel, harness, TypeOK,
          Records, JobStates
<1>15. ASSUME NEW i \in Runs, Cleaned(i) PROVE TypeOK'
      BY <1>15, RunsType, BoundsAssumption DEF Cleaned, panel, harness, TypeOK,
          Records, JobStates
<1>16. CASE OverviewRead
      BY <1>16, RunsType, BoundsAssumption DEF OverviewRead, panel, harness, TypeOK,
          Records, JobStates
<1>17. CASE OverviewSave
      BY <1>17, RunsType, BoundsAssumption DEF OverviewSave, panel, harness, NoJob,
          TypeOK, Records, JobStates
<1>18. CASE CancelCheck
      BY <1>18, RunsType, BoundsAssumption DEF CancelCheck, panel, harness, TypeOK,
          Records, JobStates
<1>19. CASE CancelKill
  <2>1. cancel' \in [step: {"none", "kill", "save"}, job: Records]
    <3>1. NoCancel \in [step: {"none", "kill", "save"}, job: Records]
          BY RunsType DEF NoCancel, NoJob, Records, JobStates
    <3> QED BY <1>19, <3>1 DEF CancelKill, TypeOK
  <2>2. proc' \in [Runs -> {"none", "preflight", "locking", "engine", "reporting", "gone", "reaped"}]
        BY <1>19 DEF CancelKill, Signalled, TypeOK
  <2>3. scanner' \in [Runs -> {"none", "up", "bound", "cleaning"}]
        BY <1>19 DEF CancelKill, TypeOK
  <2>4. bcwLock' \subseteq Runs /\ foreign' \subseteq Runs
        BY <1>19 DEF CancelKill, TypeOK
  <2>5. bcwMutex' \in {"free", "start", "cancel"}
        BY <1>19 DEF CancelKill, TypeOK
  <2> QED BY <1>19, <2>1, <2>2, <2>3, <2>4, <2>5 DEF CancelKill, TypeOK
<1>20. CASE CancelSave
  <2>1. cancel.job \in Records /\ rec' = [cancel.job EXCEPT !.state = "cancelling"]
        BY <1>20 DEF CancelSave, TypeOK
  <2>2. rec' \in Records
        BY <2>1 DEF Records, JobStates
  <2>3. cancel' \in [step: {"none", "kill", "save"}, job: Records]
        BY <1>20, RunsType DEF CancelSave, NoCancel, NoJob, Records, JobStates
  <2> QED BY <1>20, <2>2, <2>3 DEF CancelSave, harness, TypeOK
<1>21. CASE Crash
      BY <1>21, RunsType, BoundsAssumption DEF Crash, panel, harness, NoJob, NoCancel,
          TypeOK, Records, JobStates
<1>22. CASE UNCHANGED vars
      BY <1>22, RunsType, BoundsAssumption DEF vars, panel, harness, TypeOK, Records,
          JobStates
<1> QED BY <1>1, <1>2, <1>3, <1>4, <1>5, <1>6, <1>7, <1>8, <1>9, <1>10, <1>11,
           <1>12, <1>13, <1>14, <1>15, <1>16, <1>17, <1>18, <1>19, <1>20,
           <1>21, <1>22
        DEF Next, PanelStep, HarnessStep

\* bcw.lock goes from one engine to the next.
LEMMA LockStep ==
    ASSUME TypeOK, LockHeld, OneLife, [Next]_vars
    PROVE  LockHeld'
<1>1. ASSUME NEW i \in Runs, StartClaim(i) PROVE LockHeld'
      BY <1>1 DEF StartClaim, panel, harness, LockHeld, TypeOK
<1>2. ASSUME NEW i \in Runs, StartSpawn(i) PROVE LockHeld'
      BY <1>2 DEF StartSpawn, panel, harness, OneLife, LockHeld, TypeOK
<1>3. ASSUME NEW i \in Runs, StartPid(i) PROVE LockHeld'
      BY <1>3 DEF StartPid, panel, harness, LockHeld, TypeOK
<1>4. ASSUME NEW i \in Runs, CollectWait(i) PROVE LockHeld'
      BY <1>4 DEF CollectWait, panel, harness, LockHeld, TypeOK
<1>5. ASSUME NEW i \in Runs, CollectSave(i) PROVE LockHeld'
      BY <1>5 DEF CollectSave, panel, harness, LockHeld, TypeOK
<1>6. ASSUME NEW i \in Runs, CollectLast(i) PROVE LockHeld'
      BY <1>6 DEF CollectLast, panel, harness, LockHeld, TypeOK
<1>7. ASSUME NEW i \in Runs, Preflight(i) PROVE LockHeld'
      BY <1>7 DEF Preflight, panel, harness, LockHeld, TypeOK
<1>8. ASSUME NEW i \in Runs, TakeLock(i) PROVE LockHeld'
      BY <1>8 DEF TakeLock, panel, harness, LockHeld, TypeOK
<1>9. ASSUME NEW i \in Runs, LockBusy(i) PROVE LockHeld'
      BY <1>9 DEF LockBusy, panel, harness, LockHeld, TypeOK
<1>10. ASSUME NEW i \in Runs, Scan(i) PROVE LockHeld'
      BY <1>10 DEF Scan, panel, harness, LockHeld, TypeOK
<1>11. ASSUME NEW i \in Runs, WriteResult(i) PROVE LockHeld'
      BY <1>11 DEF WriteResult, panel, harness, LockHeld, TypeOK
<1>12. ASSUME NEW i \in Runs, Report(i) PROVE LockHeld'
      BY <1>12 DEF Report, panel, harness, LockHeld, TypeOK
<1>13. ASSUME NEW i \in Runs, Bind(i) PROVE LockHeld'
      BY <1>13 DEF Bind, panel, harness, LockHeld, TypeOK
<1>14. ASSUME NEW i \in Runs, ScanEnd(i) PROVE LockHeld'
      BY <1>14 DEF ScanEnd, panel, harness, LockHeld, TypeOK
<1>15. ASSUME NEW i \in Runs, Cleaned(i) PROVE LockHeld'
      BY <1>15 DEF Cleaned, panel, harness, LockHeld, TypeOK
<1>16. CASE OverviewRead
      BY <1>16 DEF OverviewRead, panel, harness, LockHeld, TypeOK
<1>17. CASE OverviewSave
      BY <1>17 DEF OverviewSave, panel, harness, LockHeld, TypeOK
<1>18. CASE CancelCheck
      BY <1>18 DEF CancelCheck, panel, harness, LockHeld, TypeOK
<1>19. CASE CancelKill
      BY <1>19 DEF CancelKill, panel, harness, Signalled, LockHeld, TypeOK
<1>20. CASE CancelSave
      BY <1>20 DEF CancelSave, panel, harness, LockHeld, TypeOK
<1>21. CASE Crash
      BY <1>21 DEF Crash, panel, harness, LockHeld, TypeOK
<1>22. CASE UNCHANGED vars
      BY <1>22 DEF vars, panel, harness, LockHeld, TypeOK
<1> QED BY <1>1, <1>2, <1>3, <1>4, <1>5, <1>6, <1>7, <1>8, <1>9, <1>10, <1>11,
           <1>12, <1>13, <1>14, <1>15, <1>16, <1>17, <1>18, <1>19, <1>20,
           <1>21, <1>22
        DEF Next, PanelStep, HarnessStep

\* A run is claimed when all before it have been, and the lock is kept until
\* its record is written.
LEMMA OrderStep ==
    ASSUME TypeOK, InOrder, [Next]_vars
    PROVE  InOrder'
<1>1. ASSUME NEW i \in Runs, StartClaim(i) PROVE InOrder'
      BY <1>1, RunsType DEF StartClaim, panel, harness, InOrder, RunningIsNewest,
          Started, TypeOK
<1>2. ASSUME NEW i \in Runs, StartSpawn(i) PROVE InOrder'
      BY <1>2, RunsType DEF StartSpawn, panel, harness, InOrder, RunningIsNewest,
          Started, TypeOK
<1>3. ASSUME NEW i \in Runs, StartPid(i) PROVE InOrder'
      BY <1>3, RunsType DEF StartPid, panel, harness, InOrder, RunningIsNewest,
          Started, TypeOK
<1>4. ASSUME NEW i \in Runs, CollectWait(i) PROVE InOrder'
      BY <1>4, RunsType DEF CollectWait, panel, harness, InOrder, RunningIsNewest,
          Started, TypeOK
<1>5. ASSUME NEW i \in Runs, CollectSave(i) PROVE InOrder'
      BY <1>5, RunsType DEF CollectSave, panel, harness, Outcome, InOrder,
          RunningIsNewest, Started, TypeOK
<1>6. ASSUME NEW i \in Runs, CollectLast(i) PROVE InOrder'
      BY <1>6, RunsType DEF CollectLast, panel, harness, InOrder, RunningIsNewest,
          Started, TypeOK
<1>7. ASSUME NEW i \in Runs, Preflight(i) PROVE InOrder'
      BY <1>7, RunsType DEF Preflight, panel, harness, InOrder, RunningIsNewest,
          Started, TypeOK
<1>8. ASSUME NEW i \in Runs, TakeLock(i) PROVE InOrder'
      BY <1>8, RunsType DEF TakeLock, panel, harness, InOrder, RunningIsNewest,
          Started, TypeOK
<1>9. ASSUME NEW i \in Runs, LockBusy(i) PROVE InOrder'
      BY <1>9, RunsType DEF LockBusy, panel, harness, InOrder, RunningIsNewest,
          Started, TypeOK
<1>10. ASSUME NEW i \in Runs, Scan(i) PROVE InOrder'
      BY <1>10, RunsType DEF Scan, panel, harness, InOrder, RunningIsNewest, Started,
          TypeOK
<1>11. ASSUME NEW i \in Runs, WriteResult(i) PROVE InOrder'
      BY <1>11, RunsType DEF WriteResult, panel, harness, InOrder, RunningIsNewest,
          Started, TypeOK
<1>12. ASSUME NEW i \in Runs, Report(i) PROVE InOrder'
      BY <1>12, RunsType DEF Report, panel, harness, InOrder, RunningIsNewest,
          Started, TypeOK
<1>13. ASSUME NEW i \in Runs, Bind(i) PROVE InOrder'
      BY <1>13, RunsType DEF Bind, panel, harness, InOrder, RunningIsNewest, Started,
          TypeOK
<1>14. ASSUME NEW i \in Runs, ScanEnd(i) PROVE InOrder'
      BY <1>14, RunsType DEF ScanEnd, panel, harness, InOrder, RunningIsNewest,
          Started, TypeOK
<1>15. ASSUME NEW i \in Runs, Cleaned(i) PROVE InOrder'
      BY <1>15, RunsType DEF Cleaned, panel, harness, InOrder, RunningIsNewest,
          Started, TypeOK
<1>16. CASE OverviewRead
      BY <1>16, RunsType DEF OverviewRead, panel, harness, InOrder, RunningIsNewest,
          Started, TypeOK
<1>17. CASE OverviewSave
      BY <1>17, RunsType DEF OverviewSave, panel, harness, InOrder, RunningIsNewest,
          Started, TypeOK
<1>18. CASE CancelCheck
      BY <1>18, RunsType DEF CancelCheck, panel, harness, InOrder, RunningIsNewest,
          Started, TypeOK
<1>19. CASE CancelKill
      BY <1>19, RunsType DEF CancelKill, panel, harness, NoCancel, InOrder,
          RunningIsNewest, Started, TypeOK
<1>20. CASE CancelSave
      BY <1>20, RunsType DEF CancelSave, panel, harness, NoCancel, InOrder,
          RunningIsNewest, Started, TypeOK
<1>21. CASE Crash
      BY <1>21, RunsType DEF Crash, panel, harness, NoCancel, InOrder,
          RunningIsNewest, Started, TypeOK
<1>22. CASE UNCHANGED vars
      BY <1>22, RunsType DEF vars, panel, harness, InOrder, RunningIsNewest, Started,
          TypeOK
<1> QED BY <1>1, <1>2, <1>3, <1>4, <1>5, <1>6, <1>7, <1>8, <1>9, <1>10, <1>11,
           <1>12, <1>13, <1>14, <1>15, <1>16, <1>17, <1>18, <1>19, <1>20,
           <1>21, <1>22
        DEF Next, PanelStep, HarnessStep

\* No harness comes back to life, and no result before its end.
LEMMA LifeStep ==
    ASSUME TypeOK, OneLife, [Next]_vars
    PROVE  OneLife'
<1>1. ASSUME NEW i \in Runs, StartClaim(i) PROVE OneLife'
      BY <1>1 DEF StartClaim, panel, harness, OneLife, TypeOK
<1>2. ASSUME NEW i \in Runs, StartSpawn(i) PROVE OneLife'
      BY <1>2 DEF StartSpawn, panel, harness, OneLife, TypeOK
<1>3. ASSUME NEW i \in Runs, StartPid(i) PROVE OneLife'
      BY <1>3 DEF StartPid, panel, harness, OneLife, TypeOK
<1>4. ASSUME NEW i \in Runs, CollectWait(i) PROVE OneLife'
      BY <1>4 DEF CollectWait, panel, harness, OneLife, TypeOK
<1>5. ASSUME NEW i \in Runs, CollectSave(i) PROVE OneLife'
      BY <1>5 DEF CollectSave, panel, harness, OneLife, TypeOK
<1>6. ASSUME NEW i \in Runs, CollectLast(i) PROVE OneLife'
      BY <1>6 DEF CollectLast, panel, harness, OneLife, TypeOK
<1>7. ASSUME NEW i \in Runs, Preflight(i) PROVE OneLife'
      BY <1>7 DEF Preflight, panel, harness, OneLife, TypeOK
<1>8. ASSUME NEW i \in Runs, TakeLock(i) PROVE OneLife'
      BY <1>8 DEF TakeLock, panel, harness, OneLife, TypeOK
<1>9. ASSUME NEW i \in Runs, LockBusy(i) PROVE OneLife'
      BY <1>9 DEF LockBusy, panel, harness, OneLife, TypeOK
<1>10. ASSUME NEW i \in Runs, Scan(i) PROVE OneLife'
      BY <1>10 DEF Scan, panel, harness, OneLife, TypeOK
<1>11. ASSUME NEW i \in Runs, WriteResult(i) PROVE OneLife'
      BY <1>11 DEF WriteResult, panel, harness, OneLife, TypeOK
<1>12. ASSUME NEW i \in Runs, Report(i) PROVE OneLife'
      BY <1>12 DEF Report, panel, harness, OneLife, TypeOK
<1>13. ASSUME NEW i \in Runs, Bind(i) PROVE OneLife'
      BY <1>13 DEF Bind, panel, harness, OneLife, TypeOK
<1>14. ASSUME NEW i \in Runs, ScanEnd(i) PROVE OneLife'
      BY <1>14 DEF ScanEnd, panel, harness, OneLife, TypeOK
<1>15. ASSUME NEW i \in Runs, Cleaned(i) PROVE OneLife'
      BY <1>15 DEF Cleaned, panel, harness, OneLife, TypeOK
<1>16. CASE OverviewRead
      BY <1>16 DEF OverviewRead, panel, harness, OneLife, TypeOK
<1>17. CASE OverviewSave
      BY <1>17 DEF OverviewSave, panel, harness, OneLife, TypeOK
<1>18. CASE CancelCheck
      BY <1>18 DEF CancelCheck, panel, harness, OneLife, TypeOK
<1>19. CASE CancelKill
      BY <1>19 DEF CancelKill, panel, harness, Signalled, OneLife, TypeOK
<1>20. CASE CancelSave
      BY <1>20 DEF CancelSave, panel, harness, OneLife, TypeOK
<1>21. CASE Crash
      BY <1>21 DEF Crash, panel, harness, OneLife, TypeOK
<1>22. CASE UNCHANGED vars
      BY <1>22 DEF vars, panel, harness, OneLife, TypeOK
<1> QED BY <1>1, <1>2, <1>3, <1>4, <1>5, <1>6, <1>7, <1>8, <1>9, <1>10, <1>11,
           <1>12, <1>13, <1>14, <1>15, <1>16, <1>17, <1>18, <1>19, <1>20,
           <1>21, <1>22
        DEF Next, PanelStep, HarnessStep

\* Whoever writes the record knows it, or the end of the run has come since.
LEMMA RecordStep ==
    ASSUME TypeOK, OneLife, TrueRecord, [Next]_vars
    PROVE  TrueRecord'
<1>1. ASSUME NEW i \in Runs, StartClaim(i) PROVE TrueRecord'
      BY <1>1, RunsType DEF StartClaim, panel, harness, TrueRecord, OneLife, TypeOK,
          Records
<1>2. ASSUME NEW i \in Runs, StartSpawn(i) PROVE TrueRecord'
      BY <1>2, RunsType DEF StartSpawn, panel, harness, TrueRecord, OneLife, TypeOK,
          Records
<1>3. ASSUME NEW i \in Runs, StartPid(i) PROVE TrueRecord'
      BY <1>3, RunsType DEF StartPid, panel, harness, TrueRecord, OneLife, TypeOK,
          Records
<1>4. ASSUME NEW i \in Runs, CollectWait(i) PROVE TrueRecord'
      BY <1>4, RunsType DEF CollectWait, panel, harness, TrueRecord, OneLife, TypeOK,
          Records
<1>5. ASSUME NEW i \in Runs, CollectSave(i) PROVE TrueRecord'
      BY <1>5, RunsType DEF CollectSave, panel, harness, Outcome, TrueRecord, OneLife,
          TypeOK, Records
<1>6. ASSUME NEW i \in Runs, CollectLast(i) PROVE TrueRecord'
      BY <1>6, RunsType DEF CollectLast, panel, harness, TrueRecord, OneLife, TypeOK,
          Records
<1>7. ASSUME NEW i \in Runs, Preflight(i) PROVE TrueRecord'
      BY <1>7, RunsType DEF Preflight, panel, harness, TrueRecord, OneLife, TypeOK,
          Records
<1>8. ASSUME NEW i \in Runs, TakeLock(i) PROVE TrueRecord'
      BY <1>8, RunsType DEF TakeLock, panel, harness, TrueRecord, OneLife, TypeOK,
          Records
<1>9. ASSUME NEW i \in Runs, LockBusy(i) PROVE TrueRecord'
      BY <1>9, RunsType DEF LockBusy, panel, harness, TrueRecord, OneLife, TypeOK,
          Records
<1>10. ASSUME NEW i \in Runs, Scan(i) PROVE TrueRecord'
      BY <1>10, RunsType DEF Scan, panel, harness, TrueRecord, OneLife, TypeOK,
          Records
<1>11. ASSUME NEW i \in Runs, WriteResult(i) PROVE TrueRecord'
      BY <1>11, RunsType DEF WriteResult, panel, harness, TrueRecord, OneLife, TypeOK,
          Records
<1>12. ASSUME NEW i \in Runs, Report(i) PROVE TrueRecord'
      BY <1>12, RunsType DEF Report, panel, harness, TrueRecord, OneLife, TypeOK,
          Records
<1>13. ASSUME NEW i \in Runs, Bind(i) PROVE TrueRecord'
      BY <1>13, RunsType DEF Bind, panel, harness, TrueRecord, OneLife, TypeOK,
          Records
<1>14. ASSUME NEW i \in Runs, ScanEnd(i) PROVE TrueRecord'
      BY <1>14, RunsType DEF ScanEnd, panel, harness, TrueRecord, OneLife, TypeOK,
          Records
<1>15. ASSUME NEW i \in Runs, Cleaned(i) PROVE TrueRecord'
      BY <1>15, RunsType DEF Cleaned, panel, harness, TrueRecord, OneLife, TypeOK,
          Records
<1>16. CASE OverviewRead
      BY <1>16, RunsType DEF OverviewRead, panel, harness, TrueRecord, OneLife,
          TypeOK, Records
<1>17. CASE OverviewSave
      BY <1>17, RunsType DEF OverviewSave, panel, harness, TrueRecord, OneLife,
          TypeOK, Records
<1>18. CASE CancelCheck
      BY <1>18, RunsType DEF CancelCheck, panel, harness, Alive, TrueRecord, OneLife,
          TypeOK, Records
<1>19. CASE CancelKill
      BY <1>19, RunsType DEF CancelKill, panel, harness, Signalled, NoCancel, Alive,
          TrueRecord, OneLife, TypeOK, Records
<1>20. CASE CancelSave
      BY <1>20, RunsType DEF CancelSave, panel, harness, NoCancel, TrueRecord,
          OneLife, TypeOK, Records
<1>21. CASE Crash
      BY <1>21, RunsType DEF Crash, panel, harness, NoCancel, TrueRecord, OneLife,
          TypeOK, Records
<1>22. CASE UNCHANGED vars
      BY <1>22, RunsType DEF vars, panel, harness, TrueRecord, OneLife, TypeOK,
          Records
<1> QED BY <1>1, <1>2, <1>3, <1>4, <1>5, <1>6, <1>7, <1>8, <1>9, <1>10, <1>11,
           <1>12, <1>13, <1>14, <1>15, <1>16, <1>17, <1>18, <1>19, <1>20,
           <1>21, <1>22
        DEF Next, PanelStep, HarnessStep

-----------------------------------------------------------------------------
(* The theorems                                                            *)

LEMMA SafeStep == Safe /\ [Next]_vars => Safe'
BY TypeStep, LockStep, OrderStep, LifeStep, RecordStep DEF Safe

\* The record, the panel's threads and the processes have their types, for any
\* number of runs, steps and deaths of the container.
THEOREM TypeCorrect == Spec => []TypeOK
<1>1. Safe => TypeOK
      BY DEF Safe
<1> QED BY <1>1, SafeInit, SafeStep, PTL DEF Spec

\* No two scanners that have not been told to stop ever run at once.
THEOREM ScannersStayApart == Spec => []ScannersApart
<1>1. Safe => ScannersApart
      BY DEF Safe, LockHeld, ScannersApart
<1> QED BY <1>1, SafeInit, SafeStep, PTL DEF Spec

\* A record that says "running" names the newest run, whatever late writers do.
THEOREM NewestIsRecorded == Spec => []RunningIsNewest
<1>1. Safe => RunningIsNewest
      BY DEF Safe, InOrder
<1> QED BY <1>1, SafeInit, SafeStep, PTL DEF Spec

\* What is recorded as done, and the run in bcw_last.json, has succeeded.
THEOREM DoneIsTrue == Spec => []OutcomeIsReal
<1>1. Safe => OutcomeIsReal
      BY DEF Safe, TrueRecord, OutcomeIsReal
<1> QED BY <1>1, SafeInit, SafeStep, PTL DEF Spec

\* When the record says "cancelling", the harness of that run is dead.
THEOREM CancelledStaysDead == Spec => []CancelledIsDead
<1>1. Safe => CancelledIsDead
      BY DEF Safe, TrueRecord, CancelledIsDead
<1> QED BY <1>1, SafeInit, SafeStep, PTL DEF Spec
=============================================================================
