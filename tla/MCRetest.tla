------------------------------ MODULE MCRetest ------------------------------
(* Constants of the TLC instance of Retest: two ticks to a cent, the level  *)
(* at ten cents.                                                            *)
EXTENDS Retest

Candle(o, h, l, c) == [open |-> o, high |-> h, low |-> l, close |-> c]

Rally   == Candle(20, 41, 20, 30)    \* a breakout with room above it
Spike   == Candle(30, 45, 28, 36)    \* higher still, away from the level
Dip     == Candle(25, 43, 19, 22)    \* a return, after a new high
Deep    == Candle(22, 23, 17, 18)    \* a lower one that holds
Recover == Candle(21, 26, 20, 25)    \* a confirmation
Break   == Candle(20, 21, 13, 14)    \* a close below the band
Prints  == {Rally, Spike, Dip, Deep, Recover, Break}
=============================================================================
