--------------------------- MODULE ExitExecution ---------------------------
(***************************************************************************)
(* The exit half of the desk: one open position, the sell cards raised on   *)
(* it, ExecutionService.decide_exit, the protective stop and the emergency  *)
(* close, the reconciliation pass beside them, and the venue, which refuses *)
(* a SELL for shares another order already holds.                           *)
(*                                                                          *)
(* A step ends where the code awaits the venue, or the audit log after a    *)
(* write. Cancelling is not an action of its own: the venue may end a       *)
(* working order at any moment, and a caller that waits for a cancellation  *)
(* sees the order gone or gives up.                                         *)
(*                                                                          *)
(* Generations of one purpose share a few slots: a slot is taken again once *)
(* its intent is over, its order is dead and nobody refers to either.       *)
(***************************************************************************)
EXTENDS OrderIntent, FiniteSets, FiniteSetsExt

CONSTANTS Card,       \* sell cards
          Worker,     \* coroutines running decide_exit
          Rec,        \* the reconciliation pass
          ExitSlot,   \* intents exit:{position}:{attempt}
          StopSlot,   \* intents protection:{position}:{generation}
          FlatSlot,   \* intents emergency_exit:{position}:{code}:{generation}
          Qty,        \* bound: shares of the position when it was opened
          Scenes,     \* bounds, of which a behaviour has one: see Scene
          NoCard, NoSlot

Slot == ExitSlot \union StopSlot \union FlatSlot
Proc == Worker \union {Rec}

ASSUME QtyAssumption == Qty \in Nat \ {0}

(* The owner's exit policy, whether a stop rests at first, the shares        *)
(* bought, the cards that may be raised, how often passes run, how many      *)
(* coroutines are in decide_exit at a time, the restarts, and the faults:    *)
(* "cached", a listing may come from the adapter's cache; "late", an order   *)
(* may reach the venue after its caller gave it up.                          *)
Passing == {"never", "once", "done", "always"}
Scene == [manual : BOOLEAN, covered : BOOLEAN, bought : 1..Qty, cards : Nat, passing : Passing,
          crew : Nat, crashes : Nat, faults : SUBSET {"cached", "late"}]

ASSUME ScenesAssumption == Scenes \in SUBSET Scene
ASSUME SlotAssumption ==
  /\ ExitSlot \intersect StopSlot = {} /\ ExitSlot \intersect FlatSlot = {}
  /\ StopSlot \intersect FlatSlot = {} /\ NoSlot \notin Slot /\ StopSlot # {}
ASSUME NameAssumption == NoCard \notin Card /\ Rec \notin Worker

VARIABLES
  scene,     \* the bounds of this behaviour
  card,      \* [Card -> status of the sell card]
  row,       \* the ledger row of the position: "open" or "closed"
  rowQty,    \* its shares, 0 once closed
  rowStop,   \* the stop its payload points at
  incident,  \* an external-position incident blocks the symbol
  st,        \* [Slot -> status of the intent, or "none"]
  asked,     \* [Slot -> requested_qty]
  noted,     \* [Slot -> filled_qty recorded on the intent]
  applied,   \* [Slot -> applied_exit_qty: what the book has absorbed]
  past,      \* filled_qty of the exits and emergency closes that left a slot
  ord,       \* [Slot -> the venue's SELL order, "refused" or "none"]
  sold,      \* [Slot -> shares it sold]
  wire,      \* submissions whose fate at the venue is undecided
  held,      \* shares the venue holds for us
  listed,    \* the holding last listed: what the adapter's cache answers
  pc,        \* [Proc -> where it stands]
  job,       \* [Proc -> its locals]
  snap,      \* [Slot -> unresolved status the pass listed, "none" once handled]
  rest,      \* stops resting when the pass listed the open orders
  crashes    \* restarts so far

desk    == <<card, row, rowQty, rowStop, incident>>
intents == <<st, asked, noted, applied, past>>
venue   == <<ord, sold, wire, held>>
task    == <<pc, job>>
pass    == <<snap, rest>>
vars    == <<scene, desk, intents, venue, listed, task, pass, crashes>>

CardStatus == {"none", "awaiting", "approving", "sold", "held", "expired"}
OrderState == VenueStatus \union {"none", "refused"}
ExitPc == {"idle", "refused", "listing", "locating", "freeing", "verifying",
           "replying", "filling", "rereading", "applied",
           "resize", "verifystop", "stop", "stopcheck", "restop", "stopsend", "stoprace",
           "stopreply", "stopfind", "flat", "return",
           "intents", "located", "absorb", "book", "orders", "sizing", "excess"}

NoOrder == [st |-> "none", qty |-> 0]
NoJob == [card |-> NoCard,      \* the sell card decide_exit claimed
          sale |-> NoSlot,      \* its exit intent
          flat |-> NoSlot,      \* the emergency intent in hand
          stop |-> NoSlot,      \* the stop in hand
          copy |-> 0,           \* applied_exit_qty in the caller's copy of the intent
          rec  |-> NoOrder,     \* the order record last read
          lot  |-> 0,           \* qty of the caller's copy of the ledger row
          qty  |-> 0,           \* shares to protect, or listed at the venue
          then |-> "none"]      \* on whose behalf a stop or an emergency close runs

TypeOK ==
  /\ scene \in Scene
  /\ card \in [Card -> CardStatus]
  /\ row \in {"open", "closed"} /\ rowQty \in 0..Qty
  /\ rowStop \in StopSlot \union {NoSlot}
  /\ incident \in BOOLEAN
  /\ st \in [Slot -> IntentStatus \union {"none"}]
  /\ asked \in [Slot -> 0..Qty] /\ noted \in [Slot -> 0..Qty] /\ applied \in [Slot -> 0..Qty]
  /\ past \in Nat
  /\ ord \in [Slot -> OrderState] /\ sold \in [Slot -> 0..Qty] /\ wire \in SUBSET Slot
  /\ held \in 0..Qty /\ listed \in 0..Qty
  /\ pc \in [Proc -> ExitPc]
  /\ job \in [Proc -> [card : Card \union {NoCard}, sale : Slot \union {NoSlot},
                       flat : FlatSlot \union {NoSlot}, stop : StopSlot \union {NoSlot},
                       copy : 0..Qty, rec : [st : OrderState, qty : 0..Qty], lot : 0..Qty,
                       qty : 0..Qty, then : {"none", "partial", "restore", "ensure", "resize"}]]
  /\ snap \in [Slot -> Unresolved \union {"none"}]
  /\ rest \in SUBSET StopSlot
  /\ crashes \in 0..scene.crashes

(* A position with its stop resting, or none yet, or none at all where the  *)
(* policy is manual; the entry may have filled further since.               *)
Init ==
  /\ scene \in Scenes
  /\ card = [c \in Card |-> "none"]
  /\ row = "open" /\ rowQty = scene.bought /\ incident = FALSE
  /\ rowStop = IF scene.covered THEN CHOOSE s \in StopSlot : TRUE ELSE NoSlot
  /\ st = [i \in Slot |-> IF i = rowStop THEN Submitted ELSE "none"]
  /\ \E q \in 1..scene.bought : asked = [i \in Slot |-> IF i = rowStop THEN q ELSE 0]
  /\ ord = [i \in Slot |-> IF i = rowStop THEN "accepted" ELSE "none"]
  /\ noted = [i \in Slot |-> 0] /\ applied = [i \in Slot |-> 0] /\ past = 0
  /\ sold = [i \in Slot |-> 0] /\ wire = {}
  /\ held = scene.bought /\ listed = scene.bought
  /\ pc = [p \in Proc |-> "idle"] /\ job = [p \in Proc |-> NoJob]
  /\ snap = [i \in Slot |-> "none"] /\ rest = {}
  /\ crashes = 0

-----------------------------------------------------------------------------
(* Helpers.                                                                  *)

Goto(p, l) == pc' = [pc EXCEPT ![p] = l]
Take(p, l, j) == Goto(p, l) /\ job' = [job EXCEPT ![p] = j]

(* The coroutine returns or raises; the pass forgets its listings.          *)
Leave(p) ==
  /\ Take(p, "idle", NoJob)
  /\ snap' = IF p = Rec THEN [i \in Slot |-> "none"] ELSE snap
  /\ rest' = IF p = Rec THEN {} ELSE rest

GivenUp(i) == i \notin wire \/ "late" \in scene.faults
manual == scene.manual   \* the owner's policy: no automatic stops
Live(S) == {i \in S : st[i] \in Unresolved}
Resting(i) == ord[i] \in VenueWorking
(* What resting orders have yet to sell, a pair for each share.              *)
Pledged == {u \in Slot \X (1..Qty) : Resting(u[1]) /\ u[2] \in (sold[u[1]] + 1)..asked[u[1]]}
Pinned == Cardinality(Pledged)
Known(i) == ord[i] \notin {"none", "refused"}

(* The intent a sale step of p works on: its exit, or the emergency close   *)
(* it entered on the way.                                                   *)
Hand(p) == IF job[p].then = "none" THEN job[p].sale ELSE job[p].flat

SetStatus(i, s) == st' = [st EXCEPT ![i] = s]

(* create_or_get of a fresh generation.                                     *)
Vacant(i) ==
  /\ st[i] \notin Unresolved /\ ~Resting(i) /\ i \notin wire
  /\ ~(i \in FlatSlot /\ st[i] = Filled)
  /\ i # rowStop /\ i \notin rest
  /\ \A p \in Proc : i \notin {job[p].sale, job[p].flat, job[p].stop}

Fresh(S) == CHOOSE i \in S : Vacant(i)

CreateIntent(i, q) ==
  /\ SetStatus(i, Created)
  /\ asked' = [asked EXCEPT ![i] = q]
  /\ noted' = [noted EXCEPT ![i] = 0]
  /\ applied' = [applied EXCEPT ![i] = 0]
  /\ past' = past + (IF i \in StopSlot THEN 0 ELSE noted[i])
  /\ ord' = [ord EXCEPT ![i] = "none"]
  /\ sold' = [sold EXCEPT ![i] = 0]

(* Mutant of Claimed: no compare-and-swap on what was absorbed already.     *)
ClaimedAnyway(i, copy, q) == IF q > copy THEN q - copy ELSE 0

(* claim_exit_qty: of the callers that expect the same absorbed quantity,   *)
(* one gets the shares.                                                     *)
Claimed(i, copy, q) == IF q > copy /\ applied[i] = copy THEN q - copy ELSE 0

(* Mutant of Cut: the book gives up more than it has.                       *)
CutUncapped(i, copy, q) == Claimed(i, copy, q)

(* apply_exit_to_ledger with apply_exit_fill.                               *)
Cut(i, copy, q) == Min({Claimed(i, copy, q), rowQty})
Absorb(i, copy, q) ==
  /\ applied' = [applied EXCEPT ![i] = @ + Claimed(i, copy, q)]
  /\ rowQty' = rowQty - Cut(i, copy, q)
  /\ row' = IF rowQty' = 0 THEN "closed" ELSE row

(* list_positions, answered by the venue or from the cache.                 *)
Reads(q) ==
  /\ q = held \/ ("cached" \in scene.faults /\ q = listed)
  /\ listed' = IF "cached" \in scene.faults THEN q ELSE listed

SetCard(c, s) == card' = [card EXCEPT ![c] = s]

-----------------------------------------------------------------------------
(* Sell cards and the first half of decide_exit.                             *)

(* ExitStore.upsert, from assess_exits or close_position: an awaiting card  *)
(* of the position is refreshed, not doubled; so is an approving one under  *)
(* the manual policy.                                                       *)
Propose(c) ==
  /\ Cardinality({d \in Card : card[d] # "none"}) < scene.cards
  /\ card[c] = "none"
  /\ row = "open" /\ ~(held = 0 /\ listed = 0)
  /\ \A d \in Card : card[d] # "awaiting" /\ ~(manual /\ card[d] = "approving")
  /\ SetCard(c, "awaiting")
  /\ UNCHANGED <<scene, row, rowQty, rowStop, incident, intents, venue, listed, task, pass, crashes>>

(* The operator holds, or the agent withdraws the proposal.                 *)
Decline(c, s) ==
  /\ card[c] = "awaiting"
  /\ s \in {"held", "expired"}
  /\ SetCard(c, s)
  /\ UNCHANGED <<scene, row, rowQty, rowStop, incident, intents, venue, listed, task, pass, crashes>>

(* Mutant of ClaimCard: SELL without the compare-and-swap on the card.      *)
ClaimCardTwice(c) == card[c] \in {"awaiting", "approving"}

ClaimCard(c) == card[c] = "awaiting"

(* The claim and the exit gate: an emergency close in flight owns the       *)
(* shares; the connection gate may refuse at any time.                      *)
Sell(w, c) ==
  /\ pc[w] = "idle" /\ Cardinality({v \in Worker : pc[v] # "idle"}) < scene.crew
  /\ ClaimCard(c)
  /\ SetCard(c, "approving")
  /\ \E l \in {"refused", "listing"} :
       /\ Live(FlatSlot) # {} => l = "refused"
       /\ Take(w, l, [NoJob EXCEPT !.card = c])
  /\ UNCHANGED <<scene, row, rowQty, rowStop, incident, intents, venue, listed, pass, crashes>>

GateRefuses(w) ==
  /\ pc[w] = "refused"
  /\ SetCard(job[w].card, "awaiting")
  /\ Leave(w)
  /\ UNCHANGED <<scene, row, rowQty, rowStop, incident, intents, venue, listed, crashes>>

(* Nothing held and no exit in flight: the journal is squared.              *)
AlreadyFlat(w) ==
  /\ pc[w] = "listing"
  /\ Reads(0)
  /\ Live(ExitSlot) = {}
  /\ row' = "closed" /\ rowQty' = 0
  /\ SetCard(job[w].card, "sold")
  /\ Leave(w)
  /\ UNCHANGED <<scene, rowStop, incident, intents, venue, crashes>>

AdoptExit(w) ==
  /\ pc[w] = "listing"
  /\ \E q \in 0..Qty : Reads(q)
  /\ \E i \in Live(ExitSlot) :
       Take(w, IF MayResubmit(st[i]) THEN "freeing" ELSE "locating",
            [job[w] EXCEPT !.sale = i, !.copy = applied[i], !.stop = rowStop, !.lot = rowQty])
  /\ UNCHANGED <<scene, desk, intents, venue, pass, crashes>>

CreateExit(w) ==
  /\ pc[w] = "listing"
  /\ \E i \in ExitSlot : Vacant(i)
  /\ Live(ExitSlot) = {}
  /\ \E q \in 1..Qty :
       /\ Reads(q)
       /\ CreateIntent(Fresh(ExitSlot), q)
       /\ Take(w, "freeing", [job[w] EXCEPT !.sale = Fresh(ExitSlot), !.stop = rowStop, !.lot = rowQty])
  /\ UNCHANGED <<scene, desk, wire, held, pass, crashes>>

(* list_positions raises: nothing catches it between the claim and the      *)
(* intent.                                                                  *)
ListingFails(w) ==
  /\ pc[w] = "listing"
  /\ Leave(w)
  /\ UNCHANGED <<scene, desk, intents, venue, listed, crashes>>

-----------------------------------------------------------------------------
(* A market sale, for an exit or an emergency close: free the shares, read  *)
(* the holding, claim, transmit, wait for the fill.                          *)

(* The order an earlier attempt may have sent.                              *)
SaleLocated(p) ==
  /\ pc[p] = "locating"
  /\ Known(Hand(p))
  /\ Goto(p, "filling")
  /\ UNCHANGED <<scene, desk, intents, venue, listed, job, pass, crashes>>

SaleNotLocated(p) ==
  LET i == Hand(p) IN
  /\ pc[p] = "locating"
  /\ SetStatus(i, IF st[i] = Created THEN Created ELSE MarkUnknown(st[i]))
  /\ IF job[p].then = "none" \/ st[i] = Created
     THEN Leave(p)
     ELSE Goto(p, "return") /\ UNCHANGED <<job, pass>>
  /\ UNCHANGED <<scene, desk, asked, noted, applied, past, venue, listed, crashes>>

(* _free_shares_for_exit: every stop it knows of is gone and sold nothing.  *)
(* Open orders it cannot list leave it with the recorded stop alone.        *)
Unfilled(S) == \A s \in S \ {NoSlot} : sold[s] = 0
Freed(S) ==
  /\ Unfilled(S)
  /\ ord' = [i \in Slot |-> IF i \in S /\ Resting(i) THEN "canceled" ELSE ord[i]]

FreeShares(p) ==
  /\ pc[p] = "freeing"
  /\ \E S \in {{job[p].stop}, {job[p].stop} \union {s \in StopSlot : Resting(s)}} : Freed(S)
  /\ Goto(p, "verifying")
  /\ UNCHANGED <<scene, desk, intents, sold, wire, held, listed, job, pass, crashes>>

(* A BrokerRejection before the submission retires the intent; the pass may *)
(* have retired it first, and the illegal move then raises.                 *)
SaleBlocked(p) ==
  LET i == Hand(p) IN
  /\ pc[p] \in {"freeing", "verifying"}
  /\ SetStatus(i, SafeTransition(st[i], Rejected))
  /\ IF ~CanTransition(st[i], Rejected)
     THEN Leave(p) /\ UNCHANGED card
     ELSE IF job[p].then = "none"
          THEN Leave(p) /\ SetCard(job[p].card, "awaiting")
          ELSE Goto(p, "return") /\ UNCHANGED <<card, job, pass>>
  /\ UNCHANGED <<scene, row, rowQty, rowStop, incident, asked, noted, applied, past, venue,
                 listed, crashes>>

(* Mutant of SaleClaim: any caller that verified the quantity transmits.    *)
SaleClaimUnguarded(i) == st[i] \in {Created, Submitting}

(* CREATED to SUBMITTING: only the winner may place.                        *)
SaleClaim(i) == st[i] = Created

ClaimSale(p) ==
  LET i == Hand(p) IN
  /\ pc[p] = "verifying"
  /\ \E q \in 1..Qty : Reads(q) /\ asked[i] <= q
  /\ IF SaleClaim(i)
     THEN SetStatus(i, Submitting) /\ wire' = wire \union {i} /\ Goto(p, "replying")
     ELSE Goto(p, "locating") /\ UNCHANGED <<st, wire>>
  /\ UNCHANGED <<scene, desk, asked, noted, applied, past, ord, sold, held, job, pass, crashes>>

(* The answer is recorded, unless the pass found the order first: the move  *)
(* to SUBMITTED is then illegal, and raises.                                *)
SaleAccepted(p) ==
  LET i == Hand(p) IN
  /\ pc[p] = "replying"
  /\ Known(i)
  /\ IF CanTransition(st[i], Submitted)
     THEN /\ SetStatus(i, IF job[p].then = "none" /\ ord[i] = "accepted"
                          THEN Acknowledged ELSE Submitted)
          /\ Goto(p, "filling") /\ UNCHANGED <<job, pass>>
     ELSE /\ SetStatus(i, IF job[p].then = "none" THEN MarkUnknown(st[i]) ELSE st[i])
          /\ Leave(p)
  /\ UNCHANGED <<scene, desk, asked, noted, applied, past, venue, listed, crashes>>

SaleRefused(p) ==
  LET i == Hand(p) IN
  /\ pc[p] = "replying"
  /\ ord[i] = "refused"
  /\ SetStatus(i, Rejected)
  /\ IF job[p].then = "none"
     THEN Leave(p) /\ SetCard(job[p].card, "awaiting")
     ELSE Goto(p, "return") /\ UNCHANGED <<card, job, pass>>
  /\ UNCHANGED <<scene, row, rowQty, rowStop, incident, asked, noted, applied, past, venue,
                 listed, crashes>>

(* The sell may be live: the intent is UNKNOWN and the card stays claimed.  *)
SaleUnknown(p) ==
  /\ pc[p] \in {"replying", "rereading"} \/ (pc[p] = "filling" /\ manual)
  /\ GivenUp(Hand(p))
  /\ SetStatus(Hand(p), MarkUnknown(st[Hand(p)]))
  /\ IF job[p].then = "none"
     THEN Leave(p)
     ELSE Goto(p, "return") /\ UNCHANGED <<job, pass>>
  /\ UNCHANGED <<scene, desk, asked, noted, applied, past, venue, listed, crashes>>

(* wait_for_fill times out or reads a dead order: cancel the remainder.     *)
FillGivesUp(p) ==
  /\ pc[p] = "filling" /\ ~manual
  /\ SetStatus(Hand(p), SafeTransition(st[Hand(p)], CancelPending))
  /\ Goto(p, "rereading")
  /\ UNCHANGED <<scene, desk, asked, noted, applied, past, venue, listed, job, pass, crashes>>

(* The record decide_exit settles on: a fill, or whatever the order is once *)
(* its cancellation was asked for; under the manual policy, a dead order.   *)
FinalRecord(p) ==
  LET i == Hand(p) IN
  \/ pc[p] = "filling" /\ ord[i] = "filled"
  \/ pc[p] = "rereading" /\ Known(i)
  \/ pc[p] = "filling" /\ manual /\ ord[i] \in VenueDone

(* filled_qty moves only together with the status.                          *)
Note(i, s, q) ==
  /\ SetStatus(i, SafeTransition(st[i], s))
  /\ noted' = [noted EXCEPT ![i] = IF st[i] # s /\ CanTransition(st[i], s) THEN q ELSE @]

ExitUnfilled(w) ==
  LET i == job[w].sale IN
  /\ job[w].then = "none" /\ FinalRecord(w)
  /\ sold[i] = 0
  /\ SetStatus(i, SafeTransition(st[i], Canceled))
  /\ IF manual \/ job[w].lot = 0
     THEN Leave(w) /\ SetCard(job[w].card, "awaiting")
     ELSE /\ Take(w, "verifystop", [job[w] EXCEPT !.then = "restore", !.qty = job[w].lot])
          /\ UNCHANGED <<card, pass>>
  /\ UNCHANGED <<scene, row, rowQty, rowStop, incident, asked, noted, applied, past, venue,
                 listed, crashes>>

ExitFilled(w) ==
  LET i == job[w].sale IN
  /\ job[w].then = "none" /\ FinalRecord(w)
  /\ sold[i] > 0
  /\ Absorb(i, job[w].copy, sold[i])
  /\ Take(w, "applied", [job[w] EXCEPT !.rec = [st |-> ord[i], qty |-> Cut(i, job[w].copy, sold[i])],
                                       !.qty = rowQty'])
  /\ UNCHANGED <<scene, card, rowStop, incident, st, asked, noted, past, venue, listed, pass,
                 crashes>>

(* Under the manual policy a working sale is left to the pass.              *)
ExitPending(w) ==
  LET i == job[w].sale IN
  /\ pc[w] = "filling" /\ manual
  /\ Resting(i)
  /\ Absorb(i, job[w].copy, sold[i])
  /\ Note(i, IntentStatusFor(ord[i], sold[i]), sold[i])
  /\ Leave(w)
  /\ UNCHANGED <<scene, card, rowStop, incident, asked, past, venue, listed, crashes>>

(* Mutant of ExitSold: the card is sold whatever the fill left over.        *)
ExitSoldAnyway(w) == pc[w] = "applied"

ExitSold(w) == pc[w] = "applied" /\ job[w].qty = 0

FinishExit(w) ==
  /\ ExitSold(w)
  /\ Note(job[w].sale, Filled, job[w].rec.qty)
  /\ SetCard(job[w].card, "sold")
  /\ Leave(w)
  /\ UNCHANGED <<scene, row, rowQty, rowStop, incident, asked, applied, past, venue, listed,
                 crashes>>

(* _finish_partial_exit: a smaller position, protected again.               *)
FinishPartial(w) ==
  LET i == job[w].sale IN
  /\ pc[w] = "applied" /\ job[w].qty > 0
  /\ Note(i, PartiallyFilled, job[w].rec.qty)
  /\ Take(w, IF manual THEN "return" ELSE "verifystop", [job[w] EXCEPT !.then = "partial"])
  /\ UNCHANGED <<scene, desk, asked, applied, past, venue, listed, pass, crashes>>

(* Back from the stop or the emergency close: the partial exit is over and  *)
(* the card is released; the pass goes on.                                  *)
Return(p) ==
  LET i == job[p].sale IN
  /\ pc[p] = "return"
  /\ IF p = Rec
     THEN Take(p, "excess", [job[p] EXCEPT !.then = "none", !.stop = NoSlot, !.flat = NoSlot])
          /\ UNCHANGED <<card, st, pass>>
     ELSE /\ SetStatus(i, IF job[p].then = "partial" THEN SafeTransition(st[i], Canceled) ELSE st[i])
          /\ SetCard(job[p].card, "awaiting")
          /\ Leave(p)
  /\ UNCHANGED <<scene, row, rowQty, rowStop, incident, asked, noted, applied, past, venue,
                 listed, crashes>>

-----------------------------------------------------------------------------
(* The protective stop: resize, place, recover; what cannot be protected is  *)
(* flattened.                                                                *)

(* resize_protection with a stop to replace: free the shares, retire the    *)
(* intent with its order. A stop that filled meanwhile is left to the next  *)
(* pass; any other refusal ends the pass.                                   *)
FreeStop ==
  LET s == job[Rec].stop IN
  /\ pc[Rec] = "resize"
  /\ Freed({s} \union {i \in StopSlot : Resting(i)})
  /\ SetStatus(s, SafeTransition(st[s], Canceled))
  /\ Goto(Rec, "verifystop")
  /\ UNCHANGED <<scene, desk, asked, noted, applied, past, sold, wire, held, listed, job, pass,
                 crashes>>

StopFilledMeanwhile ==
  /\ pc[Rec] = "resize"
  /\ ~Unfilled(rest \union {job[Rec].stop})
  /\ Take(Rec, "excess", [job[Rec] EXCEPT !.then = "none", !.stop = NoSlot])
  /\ UNCHANGED <<scene, desk, intents, venue, listed, pass, crashes>>

(* _verify_long_exit_quantity.                                              *)
VerifyStop(p) ==
  /\ pc[p] = "verifystop"
  /\ \E q \in 1..Qty : Reads(q) /\ job[p].qty <= q
  /\ Goto(p, "stop")
  /\ UNCHANGED <<scene, desk, intents, venue, job, pass, crashes>>

(* A refusal or an unreadable venue leaves the stop routine by an exception *)
(* nobody catches.                                                          *)
StopRaises(p) ==
  /\ pc[p] \in {"resize", "verifystop", "stopcheck", "stoprace", "stopfind"}
  /\ Leave(p)
  /\ UNCHANGED <<scene, desk, intents, venue, listed, crashes>>

ResumesStop(i) == st[i] \in Unresolved

ResumeStop(p) ==
  /\ pc[p] \in {"stop", "restop"}
  /\ \E i \in StopSlot :
       /\ ResumesStop(i)
       /\ Take(p, IF pc[p] = "stop" THEN "stopcheck" ELSE "stopsend", [job[p] EXCEPT !.stop = i])
  /\ UNCHANGED <<scene, desk, intents, venue, listed, pass, crashes>>

CreateStop(p) ==
  /\ pc[p] \in {"stop", "restop"}
  /\ \E i \in StopSlot : Vacant(i)
  /\ \A i \in StopSlot : ~ResumesStop(i)
  /\ CreateIntent(Fresh(StopSlot), job[p].qty)
  /\ Take(p, "stopsend", [job[p] EXCEPT !.stop = Fresh(StopSlot)])
  /\ UNCHANGED <<scene, desk, wire, held, listed, pass, crashes>>

(* set_stop_order_id, and back to the caller.                               *)
Covered(p, s) == rowStop' = s /\ Goto(p, "return")

(* Mutant of LiveProtection: a stop that began to fill is history.          *)
LiveProtectionWhole(s) == ord[s] \in {"submitted", "accepted"}

LiveProtection(s) == Resting(s)

(* _recover_protective_stop: a live order is adopted, and existence alone   *)
(* is not protection.                                                       *)
AdoptStop(p) ==
  LET s == job[p].stop IN
  /\ pc[p] \in {"stopcheck", "stoprace", "stopfind"}
  /\ LiveProtection(s)
  /\ SetStatus(s, IF st[s] \in {Submitting, Unknown} THEN Submitted ELSE st[s])
  /\ Covered(p, s)
  /\ UNCHANGED <<scene, card, row, rowQty, incident, asked, noted, applied, past, venue, listed,
                 job, pass, crashes>>

(* The intent is retired with its dead order, where its status allows.      *)
RetireStop(p) ==
  LET s == job[p].stop IN
  /\ pc[p] = "stopcheck"
  /\ ~LiveProtection(s)
  /\ SetStatus(s, SafeTransition(st[s], Canceled))
  /\ IF CanTransition(st[s], Canceled)
     THEN Take(p, "restop", [job[p] EXCEPT !.stop = NoSlot]) /\ UNCHANGED pass
     ELSE Leave(p)
  /\ UNCHANGED <<scene, desk, asked, noted, applied, past, venue, listed, crashes>>

SendStop(p) ==
  LET s == job[p].stop IN
  /\ pc[p] = "stopsend"
  /\ IF st[s] = Created
     THEN SetStatus(s, Submitting) /\ wire' = wire \union {s} /\ Goto(p, "stopreply")
     ELSE Goto(p, "stoprace") /\ UNCHANGED <<st, wire>>
  /\ UNCHANGED <<scene, desk, asked, noted, applied, past, ord, sold, held, listed, job, pass,
                 crashes>>

StopAccepted(p) ==
  LET s == job[p].stop IN
  /\ pc[p] = "stopreply"
  /\ Known(s)
  /\ IF CanTransition(st[s], Submitted)
     THEN SetStatus(s, Submitted) /\ Covered(p, s) /\ UNCHANGED <<job, pass>>
     ELSE Leave(p) /\ UNCHANGED <<st, rowStop>>
  /\ UNCHANGED <<scene, card, row, rowQty, incident, asked, noted, applied, past, venue, listed,
                 crashes>>

StopRefused(p) ==
  LET s == job[p].stop IN
  /\ pc[p] = "stopreply"
  /\ ord[s] = "refused"
  /\ SetStatus(s, Rejected)
  /\ Take(p, "flat", [job[p] EXCEPT !.stop = NoSlot])
  /\ UNCHANGED <<scene, desk, asked, noted, applied, past, venue, listed, pass, crashes>>

StopUnknown(p) ==
  LET s == job[p].stop IN
  /\ pc[p] = "stopreply"
  /\ GivenUp(s)
  /\ SetStatus(s, MarkUnknown(st[s]))
  /\ Goto(p, "stopfind")
  /\ UNCHANGED <<scene, desk, asked, noted, applied, past, venue, listed, job, pass, crashes>>

StopNotFound(p) ==
  /\ pc[p] = "stopfind"
  /\ ~LiveProtection(job[p].stop)
  /\ Take(p, "flat", [job[p] EXCEPT !.stop = NoSlot])
  /\ UNCHANGED <<scene, desk, intents, venue, listed, pass, crashes>>

PlaceStop(p) ==
  \/ VerifyStop(p) \/ StopRaises(p) \/ ResumeStop(p) \/ CreateStop(p) \/ AdoptStop(p)
  \/ RetireStop(p) \/ SendStop(p) \/ StopAccepted(p) \/ StopRefused(p) \/ StopUnknown(p)
  \/ StopNotFound(p)

(* _emergency_intent: an unresolved or a completed close is resumed.        *)
ResumeFlat(p) ==
  /\ pc[p] = "flat"
  /\ \E i \in FlatSlot :
       /\ st[i] \in Unresolved \/ (Live(FlatSlot) = {} /\ st[i] = Filled)
       /\ Take(p, "locating", [job[p] EXCEPT !.flat = i, !.copy = applied[i]])
  /\ UNCHANGED <<scene, desk, intents, venue, listed, pass, crashes>>

CreateFlat(p) ==
  /\ pc[p] = "flat"
  /\ \E i \in FlatSlot : Vacant(i)
  /\ \A i \in FlatSlot : st[i] \notin Unresolved \union {Filled}
  /\ CreateIntent(Fresh(FlatSlot), job[p].qty)
  /\ Take(p, "freeing", [job[p] EXCEPT !.flat = Fresh(FlatSlot), !.copy = 0])
  /\ UNCHANGED <<scene, desk, wire, held, listed, pass, crashes>>

(* Mutant of FlatStatus: any fill completes the close.                      *)
FlatStatusFilled(i) == Filled

FlatStatus(i) == IF sold[i] >= asked[i] THEN Filled ELSE PartiallyFilled

(* _settle_emergency: the status and the book move together; a close that   *)
(* sold nothing stays unknown.                                              *)
FlatFilled(p) ==
  LET i == job[p].flat IN
  /\ job[p].then # "none" /\ FinalRecord(p)
  /\ sold[i] > 0
  /\ Note(i, FlatStatus(i), sold[i])
  /\ Absorb(i, job[p].copy, sold[i])
  /\ Goto(p, "return")
  /\ UNCHANGED <<scene, card, rowStop, incident, asked, past, venue, listed, job, pass, crashes>>

DecideExit(w) ==
  \/ \E c \in Card : Sell(w, c)
  \/ GateRefuses(w) \/ AlreadyFlat(w) \/ AdoptExit(w) \/ CreateExit(w) \/ ListingFails(w)
  \/ ExitUnfilled(w) \/ ExitFilled(w) \/ ExitPending(w) \/ FinishExit(w) \/ FinishPartial(w)

SellShares(p) ==
  \/ SaleLocated(p) \/ SaleNotLocated(p) \/ FreeShares(p) \/ SaleBlocked(p)
  \/ ClaimSale(p) \/ SaleAccepted(p) \/ SaleRefused(p) \/ SaleUnknown(p)
  \/ FillGivesUp(p) \/ ResumeFlat(p) \/ CreateFlat(p) \/ FlatFilled(p) \/ Return(p)

-----------------------------------------------------------------------------
(* The reconciliation pass over this position.                               *)

StartPass ==
  /\ scene.passing \in {"once", "always"}
  /\ pc[Rec] = "idle"
  /\ snap' = [i \in Slot |-> IF st[i] \in Unresolved THEN st[i] ELSE "none"]
  /\ Goto(Rec, "intents")
  /\ scene' = [scene EXCEPT !.passing = IF @ = "once" THEN "done" ELSE @]
  /\ UNCHANGED <<desk, intents, venue, listed, job, rest, crashes>>

Handled(i) == snap' = [snap EXCEPT ![i] = "none"]

(* Never transmitted when it was listed: retired, if it still is.           *)
RetireUnsent(i) ==
  /\ pc[Rec] = "intents"
  /\ snap[i] = Created
  /\ SetStatus(i, TransitionFrom(st[i], Created, Rejected))
  /\ Handled(i)
  /\ UNCHANGED <<scene, desk, asked, noted, applied, past, venue, listed, task, rest, crashes>>

(* locate_broker_order: the order, or no answer.                            *)
LocateIntent(i) ==
  /\ pc[Rec] = "intents"
  /\ snap[i] \notin {"none", Created}
  /\ \E f \in {NoOrder} \union (IF Known(i) THEN {[st |-> ord[i], qty |-> sold[i]]} ELSE {}) :
       Take(Rec, "located", [job[Rec] EXCEPT !.sale = i, !.rec = f])
  /\ UNCHANGED <<scene, desk, intents, venue, listed, pass, crashes>>

(* _finish_pending_exit_card: under the manual policy, an absorbed dead     *)
(* order releases the claimed cards of the position.                        *)
Finishes(i, f, absorbed, closed) ==
  /\ manual /\ f.st \in VenueDone
  /\ absorbed >= f.qty
  /\ f.st = "filled" => closed

FinishCards(i, f, s, absorbed, closed) ==
  IF Finishes(i, f, absorbed, closed)
  THEN /\ SetStatus(i, IF s = PartiallyFilled /\ f.st # "filled" THEN Canceled ELSE s)
       /\ card' = [c \in Card |-> IF card[c] = "approving"
                                  THEN IF closed THEN "sold" ELSE "awaiting" ELSE card[c]]
  ELSE SetStatus(i, s) /\ UNCHANGED card

NextIntent == Take(Rec, "intents", NoJob)

(* No trace at the venue: unknown, unless the status moved meanwhile.       *)
IntentUnknown ==
  LET i == job[Rec].sale IN
  /\ pc[Rec] = "located" /\ job[Rec].rec = NoOrder
  /\ SetStatus(i, TransitionFrom(st[i], snap[i], Unknown))
  /\ NextIntent /\ Handled(i)
  /\ UNCHANGED <<scene, desk, asked, noted, applied, past, venue, listed, rest, crashes>>

(* Settled by somebody else while the venue was asked.                      *)
IntentSettledMeanwhile ==
  LET i == job[Rec].sale IN
  /\ pc[Rec] = "located" /\ job[Rec].rec # NoOrder
  /\ st[i] \notin Unresolved
  /\ NextIntent /\ Handled(i)
  /\ UNCHANGED <<scene, desk, intents, venue, listed, rest, crashes>>

(* The same status: a working exit may still have filled further.           *)
IntentUnmoved ==
  LET i == job[Rec].sale
      f == job[Rec].rec
  IN
  /\ pc[Rec] = "located" /\ f # NoOrder
  /\ st[i] \in Unresolved /\ st[i] = IntentStatusFor(f.st, f.qty)
  /\ IF st[i] = PartiallyFilled
     THEN /\ noted' = [noted EXCEPT ![i] = IF f.qty > 0 THEN f.qty ELSE @]
          /\ Absorb(i, applied[i], f.qty)
     ELSE UNCHANGED <<noted, applied, row, rowQty>>
  /\ FinishCards(i, f, st[i], applied'[i], row' = "closed")
  /\ NextIntent /\ Handled(i)
  /\ UNCHANGED <<scene, rowStop, incident, asked, past, venue, listed, rest, crashes>>

IntentMoves ==
  LET i == job[Rec].sale
      f == job[Rec].rec
      s == IntentStatusFor(f.st, f.qty)
  IN
  /\ pc[Rec] = "located" /\ f # NoOrder
  /\ st[i] \in Unresolved /\ st[i] # s
  /\ IF CanTransition(st[i], s)
     THEN /\ SetStatus(i, s)
          /\ noted' = [noted EXCEPT ![i] = IF f.qty > 0 THEN f.qty ELSE @]
          /\ Take(Rec, "absorb", [job[Rec] EXCEPT !.copy = applied[i]])
          /\ UNCHANGED snap
     ELSE SetStatus(i, Unknown) /\ NextIntent /\ Handled(i) /\ UNCHANGED noted
  /\ UNCHANGED <<scene, desk, asked, applied, past, venue, listed, rest, crashes>>

(* After the audit: the book absorbs what the caller's copy had not seen.   *)
AbsorbIntent ==
  LET i == job[Rec].sale
      f == job[Rec].rec
  IN
  /\ pc[Rec] = "absorb"
  /\ IF IntentStatusFor(f.st, f.qty) \in {PartiallyFilled, Filled}
     THEN Absorb(i, job[Rec].copy, f.qty)
     ELSE UNCHANGED <<applied, row, rowQty>>
  /\ FinishCards(i, f, st[i], applied'[i], row' = "closed")
  /\ NextIntent /\ Handled(i)
  /\ UNCHANGED <<scene, rowStop, incident, asked, noted, past, venue, listed, rest, crashes>>

ReadPositions ==
  /\ pc[Rec] = "intents"
  /\ \A i \in Slot : snap[i] = "none"
  /\ \E q \in 0..Qty : Reads(q) /\ Take(Rec, "book", [job[Rec] EXCEPT !.qty = q])
  /\ UNCHANGED <<scene, desk, intents, venue, pass, crashes>>

(* A listing the venue refuses ends the pass.                               *)
PassFails ==
  /\ pc[Rec] \in {"intents", "orders"}
  /\ \A i \in Slot : snap[i] = "none"
  /\ Leave(Rec)
  /\ UNCHANGED <<scene, desk, intents, venue, listed, crashes>>

Explained == past + MapThenSumSet(LAMBDA i : noted[i], ExitSlot \union FlatSlot)

(* Mutant of Disputed: an open row that differs from the venue is no matter. *)
DisputedIfClosed(q, n) == q > 0 /\ (incident \/ row = "closed")

(* Shares the book does not explain: blocked until somebody accounts for    *)
(* them.                                                                    *)
Disputed(q, n) == q > 0 /\ (incident \/ row = "closed" \/ n # q)

(* reconcile_position_quantities, the flat sweep and the orphan block.      *)
RepairBook ==
  LET q == job[Rec].qty IN
  /\ pc[Rec] = "book"
  /\ rowQty' = IF row = "open" /\ (q = 0 \/ rowQty - q = Explained) THEN q ELSE rowQty
  /\ row' = IF q = 0 THEN "closed" ELSE row
  /\ incident' = Disputed(q, rowQty')
  /\ IF manual THEN Leave(Rec)
     ELSE Goto(Rec, "orders") /\ UNCHANGED <<job, pass>>
  /\ UNCHANGED <<scene, card, rowStop, intents, venue, listed, crashes>>

ListOrders ==
  /\ pc[Rec] = "orders"
  /\ rest' = {i \in StopSlot : Resting(i)}
  /\ Goto(Rec, "sizing")
  /\ UNCHANGED <<scene, desk, intents, venue, listed, job, snap, crashes>>

(* Mutant of Protected: the stop the row points at is taken to rest.        *)
ProtectedOnPaper(n) == rowStop # NoSlot /\ asked[rowStop] = n

Protected(n) == rowStop \in rest /\ asked[rowStop] = n

(* Protection is sized by the smaller of book and venue.                    *)
SizeProtection ==
  /\ pc[Rec] = "sizing"
  /\ \E q \in 0..Qty :
       /\ Reads(q)
       /\ LET n == Min({q, rowQty}) IN
          IF row = "closed" \/ n = 0 \/ Protected(n)
          THEN Take(Rec, "excess", [NoJob EXCEPT !.lot = q])
          ELSE IF rowStop \in rest
          THEN Take(Rec, "resize", [NoJob EXCEPT !.lot = q, !.qty = n, !.stop = rowStop, !.then = "resize"])
          ELSE Take(Rec, "stop", [NoJob EXCEPT !.lot = q, !.qty = n, !.then = "ensure"])
  /\ UNCHANGED <<scene, desk, intents, venue, pass, crashes>>

Promised == MapThenSumSet(LAMBDA i : asked[i], rest)

(* cancel_excess_protection: stops promising more than is held are taken    *)
(* down, and retired unless they sold something on the way.                 *)
CancelExcess ==
  /\ pc[Rec] = "excess"
  /\ Promised > job[Rec].lot
  /\ \E i \in rest :
       /\ rest' = rest \ {i}
       /\ \/ /\ Freed({i})
             /\ SetStatus(i, IF st[i] \in Unresolved THEN SafeTransition(st[i], Canceled) ELSE st[i])
          \/ UNCHANGED <<ord, st>>
  /\ UNCHANGED <<scene, desk, asked, noted, applied, past, sold, wire, held, listed, task, snap,
                 crashes>>

EndPass ==
  /\ pc[Rec] = "excess"
  /\ Promised <= job[Rec].lot
  /\ Leave(Rec)
  /\ UNCHANGED <<scene, desk, intents, venue, listed, crashes>>

Pass ==
  \/ StartPass \/ \E i \in Slot : RetireUnsent(i) \/ LocateIntent(i)
  \/ IntentUnknown \/ IntentSettledMeanwhile \/ IntentUnmoved \/ IntentMoves \/ AbsorbIntent
  \/ ReadPositions \/ PassFails \/ RepairBook \/ ListOrders \/ SizeProtection
  \/ FreeStop \/ StopFilledMeanwhile \/ CancelExcess \/ EndPass

-----------------------------------------------------------------------------
(* The venue, and the restart of the process.                                *)

(* A SELL is accepted when no other order holds its shares.                 *)
Arrive(i) ==
  /\ i \in wire
  /\ wire' = wire \ {i}
  /\ ord' = [ord EXCEPT ![i] = IF asked[i] <= held - Pinned THEN "accepted" ELSE "refused"]
  /\ UNCHANGED <<scene, desk, intents, sold, held, listed, task, pass, crashes>>

Vanish(i) ==
  /\ i \in wire
  /\ wire' = wire \ {i}
  /\ UNCHANGED <<scene, desk, intents, ord, sold, held, listed, task, pass, crashes>>

SellShare(i) ==
  /\ Resting(i)
  /\ sold' = [sold EXCEPT ![i] = @ + 1]
  /\ held' = held - 1
  /\ ord' = [ord EXCEPT ![i] = IF sold[i] + 1 = asked[i] THEN "filled" ELSE "partial"]
  /\ UNCHANGED <<scene, desk, intents, wire, listed, task, pass, crashes>>

(* Canceled at our request or the venue's, or expired.                      *)
OrderEnds(i) ==
  /\ Resting(i)
  /\ ord' = [ord EXCEPT ![i] = "canceled"]
  /\ UNCHANGED <<scene, desk, intents, sold, wire, held, listed, task, pass, crashes>>

Venue == \E i \in Slot : Arrive(i) \/ Vanish(i) \/ SellShare(i) \/ OrderEnds(i)

Crash ==
  /\ crashes < scene.crashes
  /\ \A i \in wire : GivenUp(i)
  /\ \E p \in Proc : pc[p] # "idle"
  /\ crashes' = crashes + 1
  /\ pc' = [p \in Proc |-> "idle"] /\ job' = [p \in Proc |-> NoJob]
  /\ snap' = [i \in Slot |-> "none"] /\ rest' = {}
  /\ UNCHANGED <<scene, desk, intents, venue, listed>>

Cards == \E c \in Card : Propose(c) \/ \E s \in {"held", "expired"} : Decline(c, s)

Next ==
  \/ Cards
  \/ \E w \in Worker : DecideExit(w)
  \/ \E p \in Proc : SellShares(p) \/ PlaceStop(p)
  \/ Pass \/ Venue \/ Crash

Spec == Init /\ [][Next]_vars

(* A coroutine runs to its next await, the supervisor starts a pass after a  *)
(* pass, a submission is decided, and a venue that is asked again and again  *)
(* answers some of the time.                                                 *)
PassStep == Pass \/ SellShares(Rec) \/ PlaceStop(Rec)
DecideStep(w) == pc[w] # "idle" /\ (DecideExit(w) \/ SellShares(w) \/ PlaceStop(w))

Fairness ==
  /\ WF_vars(PassStep)
  /\ SF_vars(ReadPositions) /\ SF_vars(ListOrders) /\ SF_vars(FreeStop)
  /\ SF_vars(VerifyStop(Rec)) /\ SF_vars(AdoptStop(Rec)) /\ SF_vars(RetireStop(Rec)) /\ SF_vars(StopAccepted(Rec))
  /\ \A w \in Worker : WF_vars(DecideStep(w))
  /\ \A i \in Slot : WF_vars(Arrive(i) \/ Vanish(i))
  /\ SF_vars(\E i \in StopSlot : Arrive(i))

FairSpec == Spec /\ Fairness

-----------------------------------------------------------------------------
(* Properties.                                                               *)

(* However decide_exit, the emergency close and the pass meet on one sell    *)
(* order, the book absorbs at most what that order sold                      *)
(* (intents.py claim_exit_qty).                                              *)
AbsorbedOnce == \A i \in Slot : applied[i] <= sold[i]

(* A card reads sold only when the position it sells is closed: a partial    *)
(* exit releases its card instead (_finish_partial_exit).                    *)
SoldIsClosed == \A c \in Card : card[c] = "sold" => row = "closed"

(* The pass and decide_exit never both place stops, and no order reaches the *)
(* venue after its caller gave it up.                                       *)
OneStopper ==
  "late" \notin scene.faults /\ (manual \/ scene.passing = "never" \/ scene.cards = 0)

(* A stop or an emergency close that can still sell shares has an intent the *)
(* next pass will look at: retiring the intent never outruns the order       *)
(* (_place_protective_stop, _settle_emergency, cancel_protection).  A pass   *)
(* that meets a stop another coroutine is submitting does retire it, and a   *)
(* stop given up for lost is retired with its order still to come.           *)
OrderIsTracked ==
  OneStopper => \A i \in StopSlot \union FlatSlot : Resting(i) => st[i] \in Unresolved

(* No stop is sent while another one rests: a stop whose fate is unknown is  *)
(* looked for, never doubled (_place_protective_stop).                       *)
StopIsSingle ==
  [][\A s \in StopSlot : OneStopper /\ s \in wire' \ wire
                            => \A r \in StopSlot : ~Resting(r)]_vars

(* An intent is transmitted at most once, whoever resumes it (_place_exit,   *)
(* _place_protective_stop: only the winner of CREATED to SUBMITTING places). *)
SentOnce == [][\A i \in Slot : i \in wire' \ wire => ord[i] = "none" /\ st[i] = Created]_vars

(* Nothing but decide_exit releases a claimed card; under the manual policy   *)
(* the pass does too (_finish_pending_exit_card).                            *)
OwnRelease == ~manual \/ scene.passing = "never"

(* No two coroutines decide the same sell card (decide_exit's claim), unless *)
(* the pass releases it while its first owner still waits for the fill.      *)
DecidedOnce ==
  OwnRelease => \A v, w \in Worker : v # w /\ job[v].card # NoCard => job[v].card # job[w].card

(* Book and venue that differ on an open position meet again, or the         *)
(* difference is blocked by an incident somebody must resolve                *)
(* (reconcile_position_quantities).                                          *)
BookCatchesUp ==
  (scene.passing = "always" /\ row = "open" /\ rowQty # held) ~> (row = "closed" \/ rowQty = held \/ incident)

(* Where stops are automatic, held shares under no sell order at all do not  *)
(* stay so: they are protected, sold, or blocked (ensure_protection).        *)
Naked == scene.passing = "always" /\ ~manual /\ row = "open" /\ held > 0 /\ \A i \in Slot : ~Resting(i)
NakedIsNoticed == Naked ~> (~Naked \/ incident)

(* Refuted: "terminal broker outcomes release it in reconciliation"          *)
(* (close_position on the claimed card).                                     *)
ExitClaimIsReleased == \A c \in Card : card[c] = "approving" ~> card[c] # "approving"

(* Refuted: the book never shows fewer shares than the venue holds, as       *)
(* apply_exit_to_ledger promises of a crash between status and book.         *)
BookCoversVenue == IF row = "open" THEN rowQty >= held ELSE held = 0

(* Refuted: a terminal state "by definition left no live order behind"       *)
(* (order_intent.py).                                                        *)
TerminalLeavesNoLiveOrder == \A i \in ExitSlot : Resting(i) => st[i] \in Unresolved
=============================================================================
