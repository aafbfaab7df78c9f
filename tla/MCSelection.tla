----------------------------- MODULE MCSelection ------------------------------
(* An instance of Selection and ImportPlan: three domains, of which two    *)
(* share the names of their files, and strategies that several find.       *)
EXTENDS ImportPlan

MCPlan == <<"a-b", "c", "a.b">>
MCSlug == [d \in {"a-b", "c", "a.b"} |-> IF d = "c" THEN "c" ELSE "a_b"]

Row(args, working, mirage, rate, share, ms) ==
    [args |-> args, protocol |-> "tls12", working |-> working, mirage |-> mirage,
     rate |-> rate, share |-> share, ms |-> ms]
MCReports ==
    {<<Row("w", TRUE, FALSE, 2, 1, 9), Row("x", TRUE, FALSE, 3, 2, 9), Row("y", TRUE, FALSE, 3, 2, 5)>>,
     <<Row("y", TRUE, FALSE, 1, NoShare, 1), Row("bad", TRUE, FALSE, 3, 1, 1), Row("z", TRUE, TRUE, 3, 2, 1)>>,
     <<Row("x", TRUE, FALSE, 3, 1, 9), Row("z", FALSE, TRUE, 0, 0, 5)>>}
MCCatalog == {[id |-> <<"a_b", "tls12", 1>>, args |-> "w"]}
=============================================================================
