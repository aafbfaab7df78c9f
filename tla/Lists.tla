-------------------------------- MODULE Lists ---------------------------------
(* Python's lists: sorted(rows), in which what neither comes before the    *)
(* other keeps its order, and [x for x in s if x in T].                    *)
EXTENDS Integers, Sequences

StableSort(rows, Before(_, _)) ==
    LET order == CHOOSE p \in [DOMAIN rows -> DOMAIN rows] :
            \A i, j \in DOMAIN rows : i < j =>
                \/ Before(rows[p[i]], rows[p[j]])
                \/ ~Before(rows[p[j]], rows[p[i]]) /\ p[i] < p[j]
    IN  [k \in DOMAIN rows |-> rows[order[k]]]

Where(s, T) ==
    LET part[k \in 0..Len(s)] ==
            IF k = 0 THEN <<>>
            ELSE IF s[k] \in T THEN Append(part[k - 1], s[k]) ELSE part[k - 1]
    IN  part[Len(s)]
=============================================================================
