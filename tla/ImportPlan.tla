------------------------------ MODULE ImportPlan ------------------------------
(***************************************************************************)
(* plan_import and merge_catalog: what of a selection's result becomes new *)
(* strategies of the catalogue.  bcw_import, which is to call them, cannot *)
(* as it stands: it raises before.                                         *)
(***************************************************************************)
EXTENDS Selection, SequencesExt

CONSTANTS
    Usable,         \* the arguments that validate_args accepts
    Catalog,        \* the strategies there are: an id and arguments each
    MaxImport       \* max_import; 0 for no limit

ASSUME ImportAssumption == IsFiniteSet(Catalog) /\ MaxImport \in Nat

\* The working rows, domain by domain, the best of each first.
Candidates ==
    FlattenSeq([i \in DOMAIN results |->
        [k \in DOMAIN results[i].working |->
            [domain |-> results[i].domain, row |-> results[i].working[k]]]])

InCatalog(entries) == Catalog \cup {entries[i] : i \in DOMAIN entries}
KnownArgs(entries) == {e.args : e \in InCatalog(entries)}
KnownIds(entries) == {e.id : e \in InCatalog(entries)}

NewOf(entries, protocol) == Cardinality({i \in DOMAIN entries : entries[i].id[2] = protocol})
IsFull(entries, protocol) == MaxImport > 0 /\ NewOf(entries, protocol) >= MaxImport

\* The first number that makes an id of domain and protocol a new one.
NewId(entries, c) ==
    LET Id(n) == <<Slug[c.domain], c.row.protocol, n>>
        n == CHOOSE k \in 1..(Cardinality(InCatalog(entries)) + 1) :
                /\ Id(k) \notin KnownIds(entries)
                /\ \A j \in 1..(k - 1) : Id(j) \in KnownIds(entries)
    IN  Id(n)

\* (Skipped_Shipped: only what was in the catalogue before is known.)
Skipped_Shipped(entries, c) ==
    \/ c.row.args \notin Usable
    \/ c.row.args \in KnownArgs(<<>>)
    \/ IsFull(entries, c.row.protocol)

Skipped(entries, c) ==
    \/ c.row.args \notin Usable
    \/ c.row.args \in KnownArgs(entries)
    \/ IsFull(entries, c.row.protocol)

NewEntry(entries, c) == [id |-> NewId(entries, c), args |-> c.row.args]

\* One candidate after the other; those before it decide.
PlanImport ==
    LET rows == Candidates
        plan[k \in 0..Len(rows)] ==
            IF k = 0 THEN <<>>
            ELSE LET sofar == plan[k - 1] IN
                 IF Skipped(sofar, rows[k]) THEN sofar
                 ELSE Append(sofar, NewEntry(sofar, rows[k]))
    IN  plan[Len(rows)]

\* merge_catalog
Merged == {e \in Catalog : e.id \notin {PlanImport[i].id : i \in DOMAIN PlanImport}}
              \cup {PlanImport[i] : i \in DOMAIN PlanImport}

----------------------------------------------------------------------------
\* An import never replaces a strategy nor adds one twice, also if domains share
\* strategies or the names made of them; it adds what fits under max_import and
\* leaves out nothing for which there is room.
ImportAddsNew ==
    pc = "done" =>
        /\ Cardinality(Merged) = Cardinality(Catalog) + Len(PlanImport)
        /\ \A e, f \in Merged \ Catalog : e.args = f.args => e = f
        /\ \A e \in Merged \ Catalog, f \in Catalog : e.args # f.args
        /\ \A i \in DOMAIN Candidates : LET r == Candidates[i].row IN
              \/ r.args \notin Usable
              \/ r.args \in {e.args : e \in Merged}
              \/ MaxImport > 0 /\ NewOf(PlanImport, r.protocol) = MaxImport
=============================================================================
