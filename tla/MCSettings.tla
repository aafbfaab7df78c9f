------------------------------ MODULE MCSettings ------------------------------
(* An instance of Settings: overrides that are fine alone and contradict   *)
(* each other, or the values of another .env.                              *)
EXTENDS Settings, TLC

MCLimits == [workers |-> <<1, 4>>, profiles |-> <<1, 4>>]
MCPosts ==
    {[workers |-> 9, profiles |-> 9],
     [profiles |-> 2],
     [via |-> "gw", grid |-> Garbage],
     [reference_via |-> "gw", workers |-> Garbage, protocols |-> {"http", "quic"}],
     [domains |-> {}, grid_file |-> ""],
     [grid |-> "file", grid_file |-> "g"]}
MCEnvs ==
    {Nothing,
     [profiles |-> 1, grid |-> Garbage],
     [via |-> "gw", workers |-> Garbage]}
MCSymmetry == Permutations(Handlers)
=============================================================================
