------------------------------ MODULE StableSort ------------------------------
(***************************************************************************)
(* sort.SliceStable of Go: what has the higher key comes first, and what   *)
(* has the same key stays in its order.                                    *)
(***************************************************************************)
EXTENDS Naturals, FiniteSets

Ahead_Unstable(key, i, j) == key[i] > key[j] \/ (key[i] = key[j] /\ i > j)

\* Of two places of a sequence, i comes before j; key gives the key of a place.
Ahead(key, i, j) == key[i] > key[j] \/ (key[i] = key[j] /\ i < j)

\* How a place is numbered in that order, and the sequence in it.
Rank(key, i) == Cardinality({j \in DOMAIN key : Ahead(key, j, i)}) + 1
Sorted(s, key) ==
    [k \in DOMAIN s |-> s[CHOOSE i \in DOMAIN s : Rank(key, i) = k]]
=============================================================================
