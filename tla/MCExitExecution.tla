-------------------------- MODULE MCExitExecution --------------------------
(* Constants of the TLC instances of ExitExecution.                         *)
EXTENDS ExitExecution, TLC

Plain(m, s, q, n, p) ==
  [manual |-> m, covered |-> s, bought |-> q, cards |-> n, passing |-> p,
   crew |-> 1, crashes |-> 0, faults |-> {}]
Shaken(s) == [s EXCEPT !.crashes = 1, !.faults = {"cached"}]
Paired(s) == [s EXCEPT !.crew = 2]

Apart    == {Shaken(Plain(TRUE, FALSE, 2, 2, "always")), Shaken(Plain(FALSE, TRUE, 2, 1, "never")),
             Shaken(Plain(FALSE, TRUE, 2, 0, "always")), Plain(FALSE, FALSE, 2, 0, "always")}
Together == {Plain(FALSE, TRUE, 1, 1, "once"), Paired(Plain(FALSE, TRUE, 1, 2, "never"))}
Meeting  == Apart \union Together
Covering == {Plain(TRUE, FALSE, 2, 1, "always"), Plain(FALSE, TRUE, 1, 0, "always")}
Names == Permutations(Card) \union Permutations(Worker)
=============================================================================
