---------------------------- MODULE MCEntryRace ----------------------------
(* TLC instance of EntryRace. *)
EXTENDS EntryRace, TLC
CONSTANTS c1, c2, r1, w1, w2

Symm == Permutations({c1, c2}) \union Permutations({w1, w2})

(* A behaviour is followed until every attempt has been sent: none is sent   *)
(* twice (EntryRefinement!DeskImplementsAttempt), so nothing is transmitted  *)
(* after that.                                                               *)
SomeUnsent == \E k \in Key : intent[k] \notin PastSubmit
=============================================================================
