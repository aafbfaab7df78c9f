------------------------------ MODULE MCCatalog -------------------------------
(* An instance of Catalog: a batch whose rows are not in the order of      *)
(* their rank, and a smaller one for the same domain and day.              *)
EXTENDS Catalog

Row(rate, ms, args) == [rate |-> rate, ms |-> ms, args |-> args]
MCShipped == {[id |-> None, args |-> "a"], [id |-> <<"standard", 1>>, args |-> "b"]}
MCImports ==
    {[base |-> "x", rows |-> <<Row(1, 10, "b"), Row(2, 20, "c")>>],
     [base |-> "x", rows |-> <<Row(1, 10, "a")>>]}
=============================================================================
