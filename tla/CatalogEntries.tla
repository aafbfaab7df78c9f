---------------------------- MODULE CatalogEntries ----------------------------
(***************************************************************************)
(* What an import and a deletion make of the catalogue strategies.json,    *)
(* here the set of its entries.  An entry is an id and the arguments that  *)
(* its strategy is rendered from.  An id is a name and a number, since     *)
(* those of one import are told apart by a number (the first has none).    *)
(***************************************************************************)
EXTENDS Lists

CONSTANTS
    Shipped,    \* the entries of config/strategies.json
    Imports     \* bodies of POST /api/strategy/import: the id that domain and
                \* date make, and rows of a success rate, a latency and arguments

\* Best first: the highest success rate, then the lowest latency.
Better(r, s) == r.rate > s.rate \/ (r.rate = s.rate /\ r.ms < s.ms)

\* The k-th best row of an import gets the k-th id of its batch.
NewEntries(b) ==
    {[id |-> <<b.base, k>>, args |-> StableSort(b.rows, Better)[k].args] : k \in DOMAIN b.rows}

Ids(entries) == {e.id : e \in entries}

\* (Imported_Kept: entries of the same id are not removed first.)
Imported_Kept(entries, b) == entries \cup NewEntries(b)
Imported(entries, b) ==
    {e \in entries : e.id \notin Ids(NewEntries(b))} \cup NewEntries(b)

Without(entries, id) == {e \in entries : e.id # id}

Entries == Shipped \cup UNION {NewEntries(b) : b \in Imports}

\* Nobody reads an entry by anything but its id.
Unique(entries) == \A e, f \in entries : e.id = f.id => e = f

ASSUME ShippedAssumption == Unique(Shipped)
=============================================================================
