-------------------------- MODULE MCEntryExecution --------------------------
(* TLC instances of EntryExecution. *)
EXTENDS EntryInvariants, TLC
CONSTANTS c1, c2, r1, r2, w1, w2

Symm == Permutations({c1, c2}) \union Permutations({w1, w2})
=============================================================================
