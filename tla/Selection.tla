------------------------------ MODULE Selection -------------------------------
(***************************************************************************)
(* The strategy selection that wz-bcw.sh runs: for every domain of the     *)
(* settings blockcheckw scans all strategies and then checks those that it *)
(* has found; what the check reports is ranked and filtered.  Each of the  *)
(* two steps writes a report into the directory of the run, whose name is  *)
(* made of the domain, and may take what is left of the job's time.  The   *)
(* panel prunes the directories of old runs when it has collected one.     *)
(***************************************************************************)
EXTENDS Lists, FiniteSets

CONSTANTS
    Plan,           \* the domains, in the order of the settings
    Slug,           \* what a domain is called in the name of a file
    Timeout,        \* job_timeout
    Least,          \* the time that a step has in any case: 5 s
    Reports,        \* the rows that a check may report
    MinShare, ExcludeMirage,    \* the settings of the filter
    Keep,           \* BCW_KEEP_RUNS
    MaxRuns         \* bound: runs that are started

VARIABLES
    pc,         \* the step of the harness
    now,        \* time since the run began
    results,    \* result["domains"]
    scans,      \* the scan report at each name: who wrote it, what it holds
    checks,     \* the check report at each name
    dirs,       \* what is left of the directory of each run
    pruners     \* collectors of runs that have yet to prune

vars == <<pc, now, results, scans, checks, dirs, pruners>>

Domains == {Plan[i] : i \in DOMAIN Plan}
NoOne == "no domain"

ASSUME PlanAssumption == Plan \in Seq(Domains) /\ Plan # <<>> /\ NoOne \notin Domains
ASSUME BoundsAssumption ==
    Timeout \in Nat /\ Least \in Nat \ {0} /\ Keep \in Nat /\ MaxRuns \in Nat

\* parse_check_report makes a number of what a row is ranked by.
ASSUME ReportsAssumption ==
    \A rows \in Reports :
        /\ rows \in Seq({rows[i] : i \in DOMAIN rows})
        /\ \A i \in DOMAIN rows :
              rows[i].rate \in Int /\ rows[i].share \in Int /\ rows[i].ms \in Int

NoShare == -1

\* The domain whose turn it is.
Turn == Plan[Len(results) + 1]

\* (File_Shared: one name for all domains.)
File_Shared(d) == Slug[Plan[1]]
File(d) == Slug[d]

Files == {File(d) : d \in Domains}
Absent == [by |-> NoOne, holds |-> "nothing", rows |-> <<>>]
Scanned == [by : Domains, holds : {"garbage", "none", "some"}, rows : {<<>>}]
Checked == [by : Domains, holds : {"garbage"}, rows : {<<>>}]
               \cup [by : Domains, holds : {"some"}, rows : Reports]

----------------------------------------------------------------------------
(* rank, filter_reason and select_working                                  *)

Key(r) ==
    <<IF r.working THEN 0 ELSE 1, -r.rate, IF r.share = NoShare THEN 0 ELSE -r.share, r.ms>>

\* Working, then the rate of full passes, the share of the volume, the latency.
\* (Precedes_Latency: the latency decides.)
Precedes_Latency(r, s) == r.ms < s.ms
Precedes(r, s) ==
    \E i \in 1..4 : Key(r)[i] < Key(s)[i] /\ \A j \in 1..(i - 1) : Key(r)[j] = Key(s)[j]

Accepts(r) ==
    /\ r.working
    /\ ~(ExcludeMirage /\ r.mirage)
    /\ MinShare > 0 => r.share # NoShare /\ r.share >= MinShare

Ranked(rows) == StableSort(rows, Precedes)
RowsOf(rows) == {rows[i] : i \in DOMAIN rows}

Working(rows) == Where(Ranked(rows), {r \in RowsOf(rows) : Accepts(r)})
Refused(rows) == Where(Ranked(rows), {r \in RowsOf(rows) : ~Accepts(r)})

----------------------------------------------------------------------------
(* run                                                                     *)

\* What is left of the job's time, but some in any case.
\* (Budget_Whole: the job's time for each step.)
Budget_Whole == Timeout
Budget == IF Timeout - now > Least THEN Timeout - now ELSE Least

\* The entry of a domain in the result; of is who wrote the report it is from.
Entry(rc, of, rows) ==
    [domain |-> Turn, scanOk |-> rc, of |-> of, rows |-> rows,
     working |-> Working(rows), refused |-> Refused(rows)]

Report(entry) ==
    /\ results' = Append(results, entry)
    /\ pc' = IF Len(results) + 1 = Len(Plan) THEN "done" ELSE "scan"

\* blockcheckw is not found, fails or is stopped when its time is over, and may
\* have written a report all the same.
ScanFails(d, report) ==
    /\ pc = "scan"
    /\ now' = now + d
    /\ scans' = [scans EXCEPT ![File(Turn)] = report]
    /\ Report(Entry(FALSE, NoOne, <<>>))
    /\ UNCHANGED <<checks, dirs, pruners>>

Scan(d, report) ==
    /\ pc = "scan"
    /\ now' = now + d
    /\ scans' = [scans EXCEPT ![File(Turn)] = report]
    /\ pc' = "scanned"
    /\ UNCHANGED <<results, checks, dirs, pruners>>

\* There is no report that can be read, or it holds nothing to check.
ScanYieldsNothing ==
    /\ pc = "scanned"
    /\ scans[File(Turn)].holds # "some"
    /\ Report(Entry(TRUE, NoOne, <<>>))
    /\ UNCHANGED <<now, scans, checks, dirs, pruners>>

ScanYields ==
    /\ pc = "scanned"
    /\ scans[File(Turn)].holds = "some"
    /\ pc' = "check"
    /\ UNCHANGED <<now, results, scans, checks, dirs, pruners>>

CheckFails(d, report) ==
    /\ pc = "check"
    /\ now' = now + d
    /\ checks' = [checks EXCEPT ![File(Turn)] = report]
    /\ Report(Entry(TRUE, NoOne, <<>>))
    /\ UNCHANGED <<scans, dirs, pruners>>

Check(d, report) ==
    /\ pc = "check"
    /\ now' = now + d
    /\ checks' = [checks EXCEPT ![File(Turn)] = report]
    /\ pc' = "checked"
    /\ UNCHANGED <<results, scans, dirs, pruners>>

CheckYieldsNothing ==
    /\ pc = "checked"
    /\ checks[File(Turn)].holds # "some"
    /\ Report(Entry(TRUE, NoOne, <<>>))
    /\ UNCHANGED <<now, scans, checks, dirs, pruners>>

Select ==
    /\ pc = "checked"
    /\ checks[File(Turn)].holds = "some"
    /\ Report(Entry(TRUE, checks[File(Turn)].by, checks[File(Turn)].rows))
    /\ UNCHANGED <<now, scans, checks, dirs, pruners>>

----------------------------------------------------------------------------
(* The directories of the runs, of which the panel makes one for each      *)

Begin ==
    /\ pc = "idle"
    /\ Len(dirs) < MaxRuns
    /\ dirs' = Append(dirs, "settings")
    /\ pc' = "begun"
    /\ UNCHANGED <<now, results, scans, checks, pruners>>

\* The directory `home` that keeps blockcheckw's own settings apart.
MakeHome ==
    /\ pc = "begun"
    /\ dirs' = [dirs EXCEPT ![Len(dirs)] = "whole"]
    /\ pc' = "scan"
    /\ UNCHANGED <<now, results, scans, checks, pruners>>

\* A selection that is cancelled, or refused by the harness.
Killed ==
    /\ pc \in {"begun", "scan", "scanned", "check", "checked"}
    /\ pc' = "dead"
    /\ UNCHANGED <<now, results, scans, checks, dirs, pruners>>

\* prune_runs: the files of all but the newest go.  A directory goes if it is
\* empty then; one with a home is not.
\* (Pruned_Oldest: the oldest are kept.)
Emptied(dir) == IF dir \in {"settings", "gone"} THEN "gone" ELSE "home"
Left == {i \in DOMAIN dirs : dirs[i] # "gone"}
Pruned_Oldest(i) == Cardinality({j \in Left : j < i}) >= Keep
Pruned(i) == Cardinality({j \in Left : j > i}) >= Keep

NextIdle ==
    /\ pc' = "idle"
    /\ now' = 0
    /\ results' = <<>>
    /\ scans' = [f \in Files |-> Absent]
    /\ checks' = [f \in Files |-> Absent]

\* The job is over once it is saved: the next may begin before the prune.
Collect ==
    /\ pc \in {"done", "dead"}
    /\ pruners' = pruners + 1
    /\ NextIdle
    /\ UNCHANGED dirs

Prune ==
    /\ pruners > 0
    /\ pruners' = pruners - 1
    /\ dirs' = [i \in DOMAIN dirs |-> IF Pruned(i) THEN Emptied(dirs[i]) ELSE dirs[i]]
    /\ UNCHANGED <<pc, now, results, scans, checks>>

\* The container restarts: nobody collects or prunes.
Restart == pc # "idle" /\ NextIdle /\ pruners' = 0 /\ UNCHANGED dirs

Init ==
    /\ pc = "idle"
    /\ now = 0
    /\ results = <<>>
    /\ scans = [f \in Files |-> Absent]
    /\ checks = [f \in Files |-> Absent]
    /\ dirs = <<>>
    /\ pruners = 0

\* blockcheckw writes a report of the domain it works on, or none.
Written(reports, old) == {r \in reports : r.by = Turn} \cup {old}

Next ==
    \/ /\ pc = "scan"
       /\ \E d \in 1..Budget, r \in Written(Scanned, scans[File(Turn)]) : Scan(d, r) \/ ScanFails(d, r)
    \/ /\ pc = "check"
       /\ \E d \in 1..Budget, r \in Written(Checked, checks[File(Turn)]) : Check(d, r) \/ CheckFails(d, r)
    \/ ScanYieldsNothing \/ ScanYields \/ CheckYieldsNothing \/ Select
    \/ Begin \/ MakeHome \/ Killed \/ Collect \/ Prune \/ Restart

Spec == Init /\ [][Next]_vars

----------------------------------------------------------------------------
(* Properties                                                              *)

Permuted(s, t) ==
    /\ DOMAIN s = DOMAIN t
    /\ \A x \in {s[i] : i \in DOMAIN s} \cup {t[i] : i \in DOMAIN t} :
          Cardinality({i \in DOMAIN s : s[i] = x}) = Cardinality({i \in DOMAIN t : t[i] = x})

TypeOK ==
    /\ pc \in {"idle", "begun", "scan", "scanned", "check", "checked", "done", "dead"}
    /\ now \in Nat
    /\ scans \in [Files -> Scanned \cup {Absent}]
    /\ checks \in [Files -> Checked \cup {Absent}]
    /\ Len(results) <= Len(Plan)
    /\ pc \in {"scan", "scanned", "check", "checked"} => Len(results) < Len(Plan)
    /\ pc \in {"idle", "begun"} => results = <<>>
    /\ \A i \in DOMAIN results : results[i].of \in Domains \cup {NoOne}
    /\ dirs \in Seq({"settings", "whole", "home", "gone"})
    /\ pruners \in Nat
    /\ pruners + (IF pc = "idle" THEN 0 ELSE 1) <= Len(dirs)

\* A run ends at its job_timeout, except for the least time of each step that
\* is run later: no step makes up for another that took all of the time.
StepsRun ==
    2 * Len(results) + IF pc \in {"scanned", "check"} THEN 1 ELSE IF pc = "checked" THEN 2 ELSE 0
BoundedOverrun == pc # "dead" => now <= Timeout + Least * StepsRun

\* Every domain is reported in its place, whichever steps have failed or were
\* silent, and what it is said to work with was reported for it, or for another
\* whose file has the same name: no old report of another domain is taken for it.
OwnReport ==
    /\ pc = "done" => Len(results) = Len(Plan)
    /\ \A i \in DOMAIN results :
          /\ results[i].domain = Plan[i]
          /\ results[i].of # NoOne => Slug[results[i].of] = Slug[Plan[i]]

\* Ranking and filter lose no row of a report, and double none; what is offered
\* first is never worse than what follows, and all of it passes the filter.
SelectsAll ==
    \A i \in DOMAIN results :
        LET e == results[i]
            Better(r, s) == ~Precedes(s, r)
        IN  /\ Permuted(e.rows, e.working \o e.refused)
            /\ \A j, k \in DOMAIN e.working : j < k =>
                  \/ e.working[j].rate > e.working[k].rate
                  \/ e.working[j].rate = e.working[k].rate /\ Better(e.working[j], e.working[k])

\* The newest runs keep their files, and the run at work always does.
NewestKept ==
    \A i \in DOMAIN dirs :
        \/ dirs[i] \in {"settings", "whole"}
        \/ i <= Len(dirs) - Keep
=============================================================================
