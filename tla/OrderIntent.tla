---------------------------- MODULE OrderIntent ----------------------------
(***************************************************************************)
(* The durable order intent of trading/order_intent.py: the lifecycle every *)
(* broker mutation goes through, and how a broker's answer is read into it. *)
(* Pure operators, shared by the modules that hold intents in their state.  *)
(***************************************************************************)
EXTENDS Naturals

Created         == "created"
Submitting      == "submitting"
Submitted       == "submitted"
Acknowledged    == "acknowledged"
PartiallyFilled == "partially_filled"
CancelPending   == "cancel_pending"
Unknown         == "unknown"
Filled          == "filled"
Canceled        == "canceled"
Rejected        == "rejected"
Expired         == "expired"

(* Anything not terminal: blocks a conflicting entry on the same symbol.    *)
Unresolved == {Created, Submitting, Submitted, Acknowledged,
               PartiallyFilled, CancelPending, Unknown}
Terminal   == {Filled, Canceled, Rejected, Expired}

IntentStatus == Unresolved \union Terminal

(* What a venue order that is, or was, accepted can look like.              *)
VenueWorking == {"submitted", "accepted", "partial"}
VenueDone    == {"filled", "canceled", "rejected", "expired"}
VenueStatus  == VenueWorking \union VenueDone

AllowedTransitions ==
  [s \in IntentStatus |->
     CASE s = Created         -> {Submitting, Rejected}
       [] s = Submitting      -> {Submitted, Rejected, Unknown}
       [] s = Submitted       -> {Acknowledged, PartiallyFilled, CancelPending, Unknown}
                                   \union Terminal
       [] s = Acknowledged    -> {PartiallyFilled, CancelPending, Unknown} \union Terminal
       [] s = PartiallyFilled -> {PartiallyFilled, CancelPending, Unknown,
                                  Filled, Canceled, Expired}
       [] s = CancelPending   -> {Canceled, Filled, PartiallyFilled, Unknown}
       [] s = Unknown         -> {Submitted, Acknowledged, PartiallyFilled} \union Terminal
       [] OTHER               -> {}]

CanTransition(s, t) == t \in AllowedTransitions[s]

(* A canceled or expired order that filled a part is a position, so it      *)
(* stays unresolved until that position is protected.                       *)
IntentStatusFor(st, qty) ==
  IF st \in {"canceled", "expired"} /\ qty > 0 THEN PartiallyFilled
  ELSE CASE st = "submitted" -> Submitted
         [] st = "accepted"  -> Acknowledged
         [] st = "partial"   -> PartiallyFilled
         [] st = "filled"    -> Filled
         [] st = "canceled"  -> Canceled
         [] st = "rejected"  -> Rejected
         [] OTHER            -> Expired

(* Only an intent that never left the process may be transmitted.           *)
MayResubmit(s) == s = Created

(* ExecutionService._safe_transition: a state the machine already left is   *)
(* tolerated, never forced.                                                 *)
SafeTransition(s, t) == IF CanTransition(s, t) THEN t ELSE s

(* ExecutionService._mark_unknown: terminal intents are left alone.         *)
MarkUnknown(s) == IF s \in Terminal THEN s ELSE Unknown

(* OrderIntentStore.transition_from: the loser of the compare-and-swap      *)
(* changes nothing.                                                         *)
TransitionFrom(s, expected, t) == IF s = expected THEN t ELSE s
=============================================================================
