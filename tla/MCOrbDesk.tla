----------------------------- MODULE MCOrbDesk -----------------------------
(* Constants of the TLC instances of OrbDesk.                               *)
EXTENDS OrbDesk

Bounds(o, s, m, l, r) ==
  [overlap |-> o, setups |-> s, mishaps |-> m, late |-> l, revisions |-> r]
Varied   == {Bounds(1, 2, 1, TRUE, 0), Bounds(1, 1, 0, FALSE, 1)}
Restarts == {Bounds(1, 1, 1, FALSE, 0)}
Plain    == {Bounds(1, 1, 0, FALSE, 0)}
=============================================================================
