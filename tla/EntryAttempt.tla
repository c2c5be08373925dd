---------------------------- MODULE EntryAttempt ----------------------------
(***************************************************************************)
(* What the desk promises about buying, with no word about coroutines,      *)
(* reconciliation or restarts: a card is attempted at most once, an attempt *)
(* is sent at most once, shares are bought only while the attempt is live,  *)
(* never more than were asked for, and an attempt is declared dead only     *)
(* when it bought nothing and can buy nothing any more.                     *)
(***************************************************************************)
EXTENDS Naturals

CONSTANTS Card, Request, Qty

Key == Card \X Request

VARIABLES phase,   \* [Key -> "none", "prepared", "live", "dead" or "bought"]
          got      \* [Key -> shares the attempt bought]

Init ==
  /\ phase = [k \in Key |-> "none"]
  /\ got = [k \in Key |-> 0]

(* The first approval of the card that commits.                             *)
Prepare(k) ==
  /\ \A r \in Request : phase[<<k[1], r>>] = "none"
  /\ phase' = [phase EXCEPT ![k] = "prepared"]
  /\ UNCHANGED got

Send(k) ==
  /\ phase[k] = "prepared"
  /\ phase' = [phase EXCEPT ![k] = "live"]
  /\ UNCHANGED got

Abandon(k) ==
  /\ phase[k] = "prepared"
  /\ phase' = [phase EXCEPT ![k] = "dead"]
  /\ UNCHANGED got

Buy(k) ==
  /\ phase[k] = "live"
  /\ got[k] < Qty
  /\ got' = [got EXCEPT ![k] = @ + 1]
  /\ UNCHANGED phase

GiveUp(k) ==
  /\ phase[k] = "live"
  /\ got[k] = 0
  /\ phase' = [phase EXCEPT ![k] = "dead"]
  /\ UNCHANGED got

Own(k) ==
  /\ phase[k] = "live"
  /\ got[k] > 0
  /\ phase' = [phase EXCEPT ![k] = "bought"]
  /\ UNCHANGED got

Step(k) == Prepare(k) \/ Send(k) \/ Abandon(k) \/ Buy(k) \/ GiveUp(k) \/ Own(k)

Next == \E k \in Key : Step(k)

Spec == Init /\ [][Next]_<<phase, got>>
=============================================================================
