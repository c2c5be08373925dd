----------------------------- MODULE EntryRace -----------------------------
(***************************************************************************)
(* How far the refusal of a second entry reaches. decide reads the blockers *)
(* of a symbol (_symbol_blockers), awaits quotes and evidence, commits the  *)
(* bundle and transmits, and never reads the blockers again: two coroutines *)
(* that approve two cards of a symbol may both pass the check before either *)
(* commits. EntryExecution has that race; this module adds a history of it, *)
(* so that one can say what the check is good for when coroutines overlap.  *)
(*                                                                          *)
(* late is the coroutines that passed the check and had another card        *)
(* committed before they transmitted. It only watches: dropping it from a   *)
(* behaviour of RaceSpec leaves a behaviour of Spec, and every behaviour of *)
(* Spec is one of these.                                                    *)
(***************************************************************************)
EXTENDS EntryExecution

VARIABLE late

raceVars == <<vars, late>>

(* From the check of the symbol to the transmission.                         *)
ClearedPc == {"priced", "committed", "locating", "checking"}

(* What the check has found: nothing of another card is unresolved.          *)
Clear(c) == \A k \in Key : k[1] # c => ~IsUnresolved(k)

(* An approval of another card commits its intent in this step.              *)
OtherCommits(c) ==
  \E k \in Key : k[1] # c /\ intent[k] = "none" /\ intent'[k] # "none"

Record ==
  late' = {w \in Worker :
             /\ pc'[w] \in ClearedPc
             /\ \/ w \in late
                \/ pc[w] \in ClearedPc /\ OtherCommits(job[w][1])}

RaceInit == Init /\ late = {}

RaceNext == Next /\ Record

RaceSpec == RaceInit /\ [][RaceNext]_raceVars
-----------------------------------------------------------------------------
(* A second entry of the symbol is refused before transmission, except in    *)
(* the race: an entry goes out while an order of another card is on its way  *)
(* or working at the venue only if that card was committed after this one    *)
(* was checked. An order sent before the check, one whose answer was lost,   *)
(* one that arrives late and one resumed by a retry are all seen by it.      *)
OnlyARaceSendsASecond ==
  [][\A w \in Worker : Transmit(w) /\ w \notin late =>
       \A k \in Key : k[1] # job[w][1] => k \notin wire /\ ~Working(k)]_raceVars
=============================================================================
