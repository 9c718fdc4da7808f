------------------------------- MODULE Lists --------------------------------
(***************************************************************************)
(* Array.prototype.filter, as the scripts and the monitor use it: the      *)
(* members of a list that belong to a set, in the order of the list.  It   *)
(* is said through positions, not by recursion: the k-th member kept is    *)
(* the one whose position has k kept positions up to it.                   *)
(***************************************************************************)
EXTENDS Integers, Sequences, FiniteSets

Kept(list, S) == {i \in DOMAIN list : list[i] \in S}

Rank(positions, i) == Cardinality({j \in positions : j <= i})

Only(list, S) ==
    LET kept == Kept(list, S)
    IN  [k \in 1 .. Cardinality(kept) |-> list[CHOOSE i \in kept : Rank(kept, i) = k]]

=============================================================================
