---------------------------- MODULE AtomicCatalog -----------------------------
(***************************************************************************)
(* What the catalogue promises: a request that changes it alone changes it *)
(* in one step, as its answer says, or not at all, though the request may  *)
(* fail and the container may die.  Nothing is promised of requests that   *)
(* are served at the same time.                                            *)
(***************************************************************************)
EXTENDS CatalogEntries

VARIABLES
    catalog,    \* the entries that a reader of strategies.json finds
    alone       \* no other request was being served when they were written

Import == \E b \in Imports : catalog' = Imported(catalog, b)
Delete == \E id \in Ids(Entries) : catalog' = Without(catalog, id)
Disturbed == ~alone'

Init == catalog = Shipped /\ alone = TRUE
Next == Import \/ Delete \/ Disturbed

Spec == Init /\ [][Next]_<<catalog, alone>>
=============================================================================
