--------------------------- MODULE MCBrokerCache ---------------------------
(* TLC instances of BrokerCache. *)
EXTENDS BrokerCache, TLC
CONSTANTS a, b, m

Symm == Permutations({a, b})
=============================================================================
