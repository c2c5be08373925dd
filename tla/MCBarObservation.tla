------------------------- MODULE MCBarObservation -------------------------
(* Constants of the TLC instance of BarObservation.                         *)
EXTENDS BarObservation, TLC

Calm == [minutes |-> 4, silent |-> 0, corrections |-> 0, breaks |-> 0, faults |-> 0, crashes |-> 0,
         entries |-> 0, rest |-> FALSE, sweeps |-> FALSE]
Swept == [Calm EXCEPT !.rest = TRUE, !.sweeps = TRUE]
Short == [Swept EXCEPT !.minutes = 3]

Streamed  == {[Calm EXCEPT !.breaks = 1, !.corrections = 1],
              [Calm EXCEPT !.faults = 1, !.corrections = 1],
              [Calm EXCEPT !.breaks = 1, !.faults = 1]}
Recovered == {[Swept EXCEPT !.silent = 1], [Short EXCEPT !.breaks = 1], [Short EXCEPT !.faults = 1],
              [Short EXCEPT !.crashes = 1]}
Deferred  == {[Swept EXCEPT !.minutes = 2, !.corrections = 1, !.entries = 1], [Short EXCEPT !.entries = 1],
              [Swept EXCEPT !.minutes = 2, !.faults = 1, !.entries = 1]}
Days  == Streamed \union Recovered \union Deferred
Jumps == {<<2, 1>>, <<4, 2>>}
=============================================================================
