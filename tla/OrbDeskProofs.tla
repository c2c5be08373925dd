--------------------------- MODULE OrbDeskProofs ---------------------------
(***************************************************************************)
(* Proofs about OrbDesk for any cards, callers, evaluators, queue size and  *)
(* budgets: the strategy's slot, the cards it publishes and the keys of the *)
(* auto trigger agree in every interleaving and across restarts.            *)
(***************************************************************************)
EXTENDS OrbDesk, TLAPS, SequenceTheorems, FiniteSetTheorems

USE NoCardAssumption, CallerAssumption, QueueSizeAssumption, BudgetsAssumption,
    EvaluatorAssumption

(* Whoever is inside decide is there for a card, and so is an evaluator that *)
(* enqueues one.                                                             *)
Owned ==
  /\ \A a \in Caller : of[a] = NoCard <=> at[a] = "idle"
  /\ \A e \in Evaluator : ev[e].at = "enqueue" => ev[e].opp \in Card

TypeInv == TypeOK /\ Owned

-----------------------------------------------------------------------------
(* Types.                                                                    *)

(* decide leaves its card in a status, and its caller nowhere or at its      *)
(* books.                                                                    *)
LEMMA AfterwardsType ==
  ASSUME CardsTypeOK, NEW c \in Card, NEW out \in Outcome, NEW status \in CardStatus,
         Afterwards(c, out, status)
  PROVE  /\ card' \in [Card -> CardStatus]
         /\ cooling' \subseteq Card
         /\ \E stage \in Seat \ {"idle"} : at' = [at EXCEPT !["auto"] = stage]
         /\ copy' \in CardStatus
<1> DEFINE left == IF out = "terminal" /\ status = "awaiting" THEN "dead" ELSE status
<1>1. left \in CardStatus
  BY DEF CardStatus
<1>2. card' = [card EXCEPT ![c] = left]
  BY DEF Afterwards
<1>3. copy' \in {copy, left} /\ \E stage \in {"writing", "audit", "approved"} :
                                 at' = [at EXCEPT !["auto"] = stage]
  BY DEF Afterwards
<1>4. cooling' \in {cooling \union {c}, cooling, cooling \ {c}}
  BY DEF Afterwards
<1> HIDE DEF left
<1>5. card' \in [Card -> CardStatus] /\ copy' \in CardStatus
  BY <1>1, <1>2, <1>3 DEF CardsTypeOK
<1>6. cooling' \subseteq Card
  BY <1>4 DEF CardsTypeOK
<1> QED BY <1>3, <1>5, <1>6 DEF Seat

(* The caller keeps its card for as long as it has something left to do.     *)
LEMMA ReturnType ==
  ASSUME CardsTypeOK, NEW a \in Caller, NEW out \in Outcome, NEW status \in CardStatus,
         at[a] # "idle", \A x \in Caller : of[x] = NoCard <=> at[x] = "idle",
         Return(a, out, status)
  PROVE  /\ card' \in [Card -> CardStatus]
         /\ cooling' \subseteq Card
         /\ at' \in [Caller -> Seat]
         /\ of' \in [Caller -> Card \union {NoCard}]
         /\ \A x \in Caller : of'[x] = NoCard <=> at'[x] = "idle"
         /\ copy' \in CardStatus
<1>1. of[a] \in Card
  BY DEF CardsTypeOK
<1>2. CASE a = "auto"
  <2>1. Afterwards(of[a], out, status) /\ of' = of
    BY <1>2 DEF Return
  <2>2. PICK stage \in Seat \ {"idle"} : at' = [at EXCEPT !["auto"] = stage]
    BY <1>1, <2>1, AfterwardsType
  <2>3. /\ at' \in [Caller -> Seat]
        /\ \A x \in Caller : of'[x] = NoCard <=> at'[x] = "idle"
    BY <1>2, <2>1, <2>2 DEF CardsTypeOK
  <2> QED BY <1>1, <2>1, <2>3, AfterwardsType DEF CardsTypeOK
<1>3. CASE a # "auto"
  BY <1>1, <1>3 DEF Return, CardsTypeOK, Seat
<1> QED BY <1>2, <1>3

(* A decision keeps the cards typed, and owns one while it runs.            *)
LEMMA DecideType ==
  ASSUME TypeInv, NEW a \in Caller, Decide(a)
  PROVE  /\ CardsTypeOK'
         /\ \A x \in Caller : of'[x] = NoCard <=> at'[x] = "idle"
<1>1. CardsTypeOK /\ \A x \in Caller : of[x] = NoCard <=> at[x] = "idle"
  BY DEF TypeInv, TypeOK, Owned
<1>2. at[a] # "idle"
  BY DEF Decide, Refused, Commit, Placed, Rejected, Silent, Unfilled, Unsettled, Flattened,
         Booked, Executed
<1>3. of[a] \in Card /\ card[of[a]] \in CardStatus
  BY <1>1, <1>2 DEF CardsTypeOK
<1>4. {"awaiting", "approving", "executed", "dead"} \subseteq CardStatus
  BY DEF CardStatus
<1>5. {"retry", "terminal", "unknown", "bought"} = Outcome
  BY DEF Outcome
<1>6. CASE \E out \in {"retry", "terminal"} :
             Return(a, out, card[of[a]]) /\ UNCHANGED <<sub, intent, pos>>
  BY <1>1, <1>2, <1>3, <1>5, <1>6, ReturnType DEF CardsTypeOK
<1>7. CASE Refused(a)
  BY <1>6, <1>7 DEF Refused
<1>8. CASE Commit(a)
  BY <1>1, <1>3, <1>4, <1>8 DEF Commit, CardsTypeOK, Seat
<1>9. CASE Placed(a)
  BY <1>1, <1>3, <1>4, <1>9 DEF Placed, CardsTypeOK, Seat
<1>10. CASE Rejected(a)
  <2>1. Return(a, "terminal", "awaiting")
    BY <1>10 DEF Rejected
  <2> QED BY <1>1, <1>2, <1>3, <1>4, <1>5, <1>10, <2>1, ReturnType DEF Rejected, CardsTypeOK
<1>11. CASE Silent(a)
  <2>1. Return(a, "unknown", card[of[a]])
    BY <1>11 DEF Silent
  <2> QED BY <1>1, <1>2, <1>3, <1>5, <1>11, <2>1, ReturnType DEF Silent, CardsTypeOK
<1>12. CASE Unfilled(a)
  <2>1. Return(a, "retry", "awaiting")
    BY <1>12 DEF Unfilled
  <2> QED BY <1>1, <1>2, <1>3, <1>4, <1>5, <1>12, <2>1, ReturnType DEF Unfilled, CardsTypeOK
<1>13. CASE Unsettled(a)
  <2>1. Return(a, "unknown", card[of[a]])
    BY <1>13 DEF Unsettled
  <2> QED BY <1>1, <1>2, <1>3, <1>5, <1>13, <2>1, ReturnType DEF Unsettled, CardsTypeOK
<1>14. CASE Flattened(a)
  <2>1. Return(a, "unknown", "dead")
    BY <1>14 DEF Flattened
  <2> QED BY <1>1, <1>2, <1>3, <1>4, <1>5, <1>14, <2>1, ReturnType DEF Flattened, CardsTypeOK
<1>15. CASE Booked(a)
  BY <1>1, <1>3, <1>15 DEF Booked, CardsTypeOK, Seat
<1>16. CASE Executed(a)
  <2>1. Return(a, "bought", "executed")
    BY <1>16 DEF Executed
  <2> QED BY <1>1, <1>2, <1>3, <1>4, <1>5, <1>16, <2>1, ReturnType DEF Executed, CardsTypeOK
<1> QED BY <1>7, <1>8, <1>9, <1>10, <1>11, <1>12, <1>13, <1>14, <1>15, <1>16 DEF Decide

(* The operator, the clock and the reconciliation pass.                      *)
LEMMA DeskType ==
  ASSUME TypeInv, NEW a \in Caller, NEW c \in Card,
         Approve(a, c) \/ Dismiss(c) \/ CoolDown(c) \/ ReleaseStale \/ Reconciled(c)
  PROVE  /\ CardsTypeOK'
         /\ \A x \in Caller : of'[x] = NoCard <=> at'[x] = "idle"
<1>1. CardsTypeOK /\ \A x \in Caller : of[x] = NoCard <=> at[x] = "idle"
  BY DEF TypeInv, TypeOK, Owned
<1>2. CASE Approve(a, c)
  BY <1>1, <1>2 DEF Approve, CardsTypeOK, Seat
<1>3. CASE Dismiss(c)
  BY <1>1, <1>3 DEF Dismiss, CardsTypeOK, CardStatus
<1>4. CASE CoolDown(c)
  BY <1>1, <1>4 DEF CoolDown, CardsTypeOK
<1>5. CASE ReleaseStale
  <2>1. PICK S \in SUBSET {d \in Card : card[d] = "approving"} :
          card' = [d \in Card |->
                     LET s == IF d \in S THEN "awaiting" ELSE card[d]
                     IN  IF s = "awaiting" /\ PositionOpen THEN "dead" ELSE s]
    BY <1>5 DEF ReleaseStale
  <2>2. card' \in [Card -> CardStatus]
    BY <1>1, <2>1 DEF CardsTypeOK, CardStatus
  <2> QED BY <1>1, <1>5, <2>2 DEF ReleaseStale, CardsTypeOK
<1>6. CASE Reconciled(c)
  BY <1>1, <1>6 DEF Reconciled, CardsTypeOK
<1> QED BY <1>2, <1>3, <1>4, <1>5, <1>6

(* The auto trigger: a queue of cards that Enqueue keeps within its maxsize. *)
LEMMA EnqueueType ==
  ASSUME TriggerTypeOK, NEW c \in Card, Enqueue(c)
  PROVE  queue' \in Seq(Card) /\ Len(queue') <= QueueSize /\ queued' \subseteq Card
<1>1. CASE Accepts(c)
  <2>1. Len(Append(queue, c)) = Len(queue) + 1 /\ Append(queue, c) \in Seq(Card)
    BY DEF TriggerTypeOK
  <2>2. Len(queue) \in Nat /\ Len(queue) < QueueSize
    BY <1>1 DEF Accepts, TriggerTypeOK
  <2> QED BY <1>1, <2>1, <2>2 DEF Enqueue, TriggerTypeOK
<1>2. CASE ~Accepts(c)
  BY <1>2 DEF Enqueue, TriggerTypeOK
<1> QED BY <1>1, <1>2

(* What is left of the queue is a queue.                                    *)
LEMMA TailType ==
  ASSUME TriggerTypeOK, queue # << >>
  PROVE  /\ Head(queue) \in Card
         /\ Tail(queue) \in Seq(Card) /\ Len(Tail(queue)) <= QueueSize
<1>1. queue \in Seq(Card) /\ Len(queue) <= QueueSize
  BY DEF TriggerTypeOK
<1>2. /\ Head(queue) \in Card /\ Tail(queue) \in Seq(Card)
      /\ Len(Tail(queue)) = Len(queue) - 1 /\ Len(queue) \in Nat
  BY <1>1, HeadTailProperties
<1> QED BY <1>1, <1>2

(* A row written back has a status.                                         *)
LEMMA WrittenBackType ==
  ASSUME CardsTypeOK, WrittenBack
  PROVE  card' \in [Card -> CardStatus]
<1>1. PICK status \in {copy, card[of["auto"]]} : card' = [card EXCEPT ![of["auto"]] = status]
  BY DEF WrittenBack
<1> DEFINE c == of["auto"]
<1>2. CASE c \in Card
  BY <1>1, <1>2 DEF CardsTypeOK
<1>3. CASE c \notin Card
  BY <1>1, <1>3 DEF CardsTypeOK
<1> QED BY <1>2, <1>3

(* The auto trigger keeps its queue and its decision typed.                 *)
LEMMA TriggerType ==
  ASSUME TypeInv, Trigger
  PROVE  /\ CardsTypeOK' /\ TriggerTypeOK'
         /\ \A x \in Caller : of'[x] = NoCard <=> at'[x] = "idle"
<1>1. /\ CardsTypeOK /\ TriggerTypeOK /\ "auto" \in Caller
      /\ \A x \in Caller : of[x] = NoCard <=> at[x] = "idle"
  BY DEF TypeInv, TypeOK, Owned
<1>2. CASE Toggle
  BY <1>1, <1>2 DEF Toggle, cards, CardsTypeOK, TriggerTypeOK
<1>3. ASSUME NEW c \in Card, Dispatch(c)
      PROVE  /\ CardsTypeOK' /\ TriggerTypeOK'
             /\ \A x \in Caller : of'[x] = NoCard <=> at'[x] = "idle"
  BY <1>1, <1>3, EnqueueType DEF Dispatch, cards, CardsTypeOK, TriggerTypeOK
<1>4. CASE PickUp
  <2>1. Head(queue) \in Card /\ Tail(queue) \in Seq(Card) /\ Len(Tail(queue)) <= QueueSize
    BY <1>1, <1>4, TailType DEF PickUp
  <2>2. /\ CardsTypeOK'
        /\ \A x \in Caller : of'[x] = NoCard <=> at'[x] = "idle"
    BY <1>1, <1>4, <2>1, DeskType DEF PickUp
  <2>3. TriggerTypeOK'
    BY <1>1, <1>4, <2>1 DEF PickUp, TriggerTypeOK
  <2> QED BY <2>2, <2>3
<1>5. CASE TurnedAway
  <2>1. Head(queue) \in Card /\ Tail(queue) \in Seq(Card) /\ Len(Tail(queue)) <= QueueSize
    BY <1>1, <1>5, TailType DEF TurnedAway
  <2>2. PICK out \in {"retry", "terminal"} : Afterwards(Head(queue), out, "awaiting")
    BY <1>5 DEF TurnedAway
  <2>3. /\ card' \in [Card -> CardStatus] /\ cooling' \subseteq Card /\ copy' \in CardStatus
        /\ \E stage \in Seat \ {"idle"} : at' = [at EXCEPT !["auto"] = stage]
    <3>1. out \in Outcome /\ "awaiting" \in CardStatus
      BY DEF Outcome, CardStatus
    <3> QED BY <1>1, <2>1, <2>2, <3>1, AfterwardsType
  <2>4. of' = [of EXCEPT !["auto"] = Head(queue)] /\ UNCHANGED <<sub, intent, pos>>
    BY <1>5 DEF TurnedAway
  <2>5. CardsTypeOK'
    BY <1>1, <2>1, <2>3, <2>4 DEF CardsTypeOK
  <2>6. \A x \in Caller : of'[x] = NoCard <=> at'[x] = "idle"
    BY <1>1, <2>1, <2>3, <2>4 DEF CardsTypeOK
  <2>7. TriggerTypeOK'
    BY <1>1, <1>5, <2>1 DEF TurnedAway, TriggerTypeOK
  <2> QED BY <2>5, <2>6, <2>7
<1>6. CASE PassOver
  <2>1. Tail(queue) \in Seq(Card) /\ Len(Tail(queue)) <= QueueSize
    BY <1>1, <1>6, TailType DEF PassOver
  <2> QED BY <1>1, <1>6, <2>1 DEF PassOver, cards, CardsTypeOK, TriggerTypeOK
<1>7. CASE Conclude
  <2>1. TriggerTypeOK'
    BY <1>1, <1>7 DEF Conclude, Released, TriggerTypeOK
  <2>2. card' \in [Card -> CardStatus]
    BY <1>1, <1>7, WrittenBackType DEF Conclude, CardsTypeOK
  <2>3. /\ UNCHANGED <<sub, cooling, intent, pos>> /\ copy' = "none"
        /\ at' = [at EXCEPT !["auto"] = "idle"]
        /\ of' = [of EXCEPT !["auto"] = NoCard]
    BY <1>7 DEF Conclude
  <2>4. CardsTypeOK'
    BY <1>1, <2>2, <2>3 DEF CardsTypeOK, CardStatus, Seat
  <2>5. \A x \in Caller : of'[x] = NoCard <=> at'[x] = "idle"
    BY <1>1, <2>3 DEF CardsTypeOK
  <2> QED BY <2>1, <2>4, <2>5
<1>8. CASE (WriteBack \/ ClearRetry) /\ UNCHANGED trigger
  <2>1. at["auto"] # "idle" /\ of["auto"] \in Card
    BY <1>1, <1>8 DEF WriteBack, ClearRetry, CardsTypeOK
  <2>2. card' \in [Card -> CardStatus] /\ copy' \in CardStatus /\ cooling' \subseteq Card
    BY <1>1, <1>8, <2>1, WrittenBackType DEF WriteBack, ClearRetry, CardsTypeOK, CardStatus
  <2>3. UNCHANGED <<sub, intent, pos, of>>
        /\ \E stage \in Seat \ {"idle"} : at' = [at EXCEPT !["auto"] = stage]
    BY <1>8 DEF WriteBack, ClearRetry, Seat
  <2>4. CardsTypeOK'
    BY <1>1, <2>2, <2>3 DEF CardsTypeOK
  <2>5. \A x \in Caller : of'[x] = NoCard <=> at'[x] = "idle"
    BY <1>1, <2>1, <2>3 DEF CardsTypeOK
  <2>6. TriggerTypeOK'
    BY <1>1, <1>8 DEF trigger, TriggerTypeOK
  <2> QED BY <2>4, <2>5, <2>6
<1> QED BY <1>2, <1>3, <1>4, <1>5, <1>6, <1>7, <1>8 DEF Trigger, Serve

-----------------------------------------------------------------------------
(* What an evaluator holds between two of its steps.                         *)
Snapshot ==
  [at : Stage, plan : Plan, next : 0..made, opp : Card \union {NoCard},
   after : 0..made, reset : Card \union {NoCard}, dead : BOOLEAN, rearms : Nat]

(* An evaluator at rest is typed.                                           *)
LEMMA IdleType == ASSUME made \in Nat PROVE Idle \in Snapshot
  BY DEF Idle, Snapshot, Stage, Plan

(* A slot under another plan is a slot, and so is the claim it lets go of.   *)
LEMMA RearmedType ==
  ASSUME slot \in Slot, NEW plan \in Plan, NEW after \in 0..made
  PROVE  /\ Rearmed(plan, after) \in Slot
         /\ Rearmed(plan, after).opp = NoCard /\ Rearmed(plan, after).plan = plan
         /\ Rearmed(plan, after).reset = slot.reset
         /\ Rearmed(plan, after).after = IF after > 0 THEN after ELSE slot.after
<1> DEFINE a == IF after > 0 THEN after ELSE slot.after
           r == IF Claimed THEN slot.rearms + 1 ELSE slot.rearms
<1>1. a \in 0..made /\ r \in Nat
  BY DEF Slot
<1>2. Rearmed(plan, after) =
        [slot EXCEPT !.plan = plan, !.opp = NoCard, !.after = a, !.rearms = r]
  BY DEF Rearmed, Slot
<1>3. Rearmed(plan, after).after = a
  BY DEF Rearmed, Slot
<1> HIDE DEF a, r
<1>4. Rearmed(plan, after) \in Slot
  BY <1>1, <1>2 DEF Slot
<1>5. /\ Rearmed(plan, after).opp = NoCard /\ Rearmed(plan, after).plan = plan
      /\ Rearmed(plan, after).reset = slot.reset
  BY <1>2 DEF Slot
<1> QED BY <1>3, <1>4, <1>5 DEF a

(* Retiring the card of a slot moves that card, if it awaits.               *)
LEMMA RetiredType ==
  ASSUME CardsTypeOK
  PROVE  /\ Retired \in [Card -> CardStatus]
         /\ \A c \in Card : Retired[c] = IF c = slot.opp /\ card[c] = "awaiting"
                                           THEN "dead" ELSE card[c]
<1>1. \A c \in Card : card[c] \in CardStatus /\ "dead" \in CardStatus
  BY DEF CardsTypeOK, CardStatus
<1>2. \A c \in Card : Retired[c] = IF c = slot.opp /\ card[c] = "awaiting"
                                     THEN "dead" ELSE card[c]
  BY DEF Retired
<1> QED BY <1>1, <1>2 DEF Retired

(* The numbers of setups only grow, and what was typed stays typed.          *)
LEMMA ConfirmType ==
  ASSUME SessionTypeOK, Confirm
  PROVE  SessionTypeOK'
<1>1. made \in Nat /\ budget.setups \in Nat /\ made' = made + 1 /\ made' <= budget.setups
  BY DEF SessionTypeOK, Confirm
<1>2. 0..made \subseteq 0..made' /\ made' \in 0..budget.setups
  BY <1>1
<1>3. Plan \subseteq Plan'
  BY <1>2 DEF Plan
<1>4. slot \in Slot'
  BY <1>2, <1>3 DEF Slot, SessionTypeOK
<1>5. \A e \in Evaluator : ev[e] \in Snapshot'
  BY <1>2, <1>3 DEF Snapshot, SessionTypeOK
<1>6. ev \in [Evaluator -> Snapshot']
  BY <1>5 DEF SessionTypeOK
<1>7. closedAt \in [Card -> 0..made'] /\ planOf \in [Card -> Plan']
  BY <1>2, <1>3 DEF SessionTypeOK
<1> QED BY <1>1, <1>2, <1>4, <1>6, <1>7 DEF Confirm, SessionTypeOK, Snapshot

(* A step of one evaluator: what it holds afterwards, and the rows it wrote. *)
LEMMA EvalTyped ==
  ASSUME TypeInv, NEW e \in Evaluator, NEW s \in Snapshot,
         ev' = [f \in Evaluator |-> IF f = e THEN s ELSE ev[f]],
         s.at = "enqueue" => s.opp \in Card,
         slot' \in Slot, planOf' \in [Card -> Plan], card' \in [Card -> CardStatus],
         UNCHANGED <<sub, cooling, intent, pos, at, of, copy>>, made' = made,
         budget' = budget, revised' = revised, closedAt' = closedAt, mishaps' \in 0..budget.mishaps
  PROVE  CardsTypeOK' /\ SessionTypeOK' /\ Owned'
<1>1. CardsTypeOK'
  BY DEF TypeInv, TypeOK, CardsTypeOK
<1>2. Owned'
  BY DEF TypeInv, Owned
<1>3. Plan' = Plan /\ Slot' = Slot
  BY DEF Plan, Slot
<1>4. ev \in [Evaluator -> Snapshot]
  BY DEF TypeInv, TypeOK, SessionTypeOK, Snapshot
<1>5. ev' \in [Evaluator -> Snapshot]
  BY <1>4
<1>6. Snapshot' = Snapshot
  BY <1>3 DEF Snapshot
<1>7. SessionTypeOK'
  BY <1>3, <1>5, <1>6 DEF TypeInv, TypeOK, SessionTypeOK, Snapshot
<1> QED BY <1>1, <1>2, <1>7

(* What the types say of one evaluator's snapshot and of the slot.           *)
LEMMA Parts ==
  ASSUME TypeInv, NEW e \in Evaluator
  PROVE  /\ made \in Nat /\ slot \in Slot /\ ev[e] \in Snapshot
         /\ slot.plan \in Plan /\ slot.after \in 0..made /\ slot.rearms \in Nat
         /\ slot.opp \in Card \union {NoCard} /\ slot.reset \in Card \union {NoCard}
         /\ ev[e].plan \in Plan /\ ev[e].next \in 0..made /\ ev[e].after \in 0..made
         /\ ev[e].opp \in Card \union {NoCard} /\ ev[e].reset \in Card \union {NoCard}
         /\ ev[e].at \in Stage /\ ev[e].dead \in BOOLEAN /\ ev[e].rearms \in Nat
         /\ card \in [Card -> CardStatus] /\ planOf \in [Card -> Plan]
         /\ closedAt \in [Card -> 0..made]
         /\ budget.mishaps \in Nat /\ mishaps \in 0..budget.mishaps
         /\ ev = [f \in Evaluator |-> ev[f]]
<1>1. budget \in [overlap : Nat, setups : Nat, mishaps : Nat, late : BOOLEAN,
                 revisions : Nat]
  BY DEF TypeInv, TypeOK, SessionTypeOK
<1>2. made \in 0..budget.setups /\ slot \in Slot /\ ev \in [Evaluator -> Snapshot]
  BY DEF TypeInv, TypeOK, SessionTypeOK, Snapshot
<1>3. made \in Nat
  BY <1>1, <1>2
<1>4. ev[e] \in Snapshot
  BY <1>2
<1>5. /\ slot.plan \in Plan /\ slot.after \in 0..made /\ slot.rearms \in Nat
      /\ slot.opp \in Card \union {NoCard} /\ slot.reset \in Card \union {NoCard}
  BY <1>2 DEF Slot
<1>6. /\ ev[e].plan \in Plan /\ ev[e].next \in 0..made /\ ev[e].after \in 0..made
      /\ ev[e].opp \in Card \union {NoCard} /\ ev[e].reset \in Card \union {NoCard}
      /\ ev[e].at \in Stage /\ ev[e].dead \in BOOLEAN /\ ev[e].rearms \in Nat
  BY <1>4 DEF Snapshot
<1>7. /\ card \in [Card -> CardStatus] /\ planOf \in [Card -> Plan]
      /\ closedAt \in [Card -> 0..made] /\ mishaps \in 0..budget.mishaps
  BY DEF TypeInv, TypeOK, SessionTypeOK, CardsTypeOK
<1>8. ev = [f \in Evaluator |-> ev[f]]
  BY <1>2
<1> QED BY <1>1, <1>2, <1>3, <1>4, <1>5, <1>6, <1>7, <1>8

(* Steps that only move an evaluator on: reading, deciding and giving up.    *)
LEMMA ReadType ==
  ASSUME TypeInv, NEW e \in Evaluator,
         \/ Begin(e) \/ RearmRead(e) \/ Refresh(e) \/ ReadLinked(e) \/ Rebuild(e)
         \/ Reread(e) \/ Decline(e) \/ Admit(e) \/ PublishRefused(e) \/ Timeout(e)
  PROVE  CardsTypeOK' /\ SessionTypeOK' /\ Owned'
<1>1. /\ slot' \in Slot /\ planOf' \in [Card -> Plan] /\ card' \in [Card -> CardStatus]
      /\ UNCHANGED <<sub, cooling, intent, pos, at, of, copy>> /\ made' = made
      /\ budget' = budget /\ revised' = revised /\ closedAt' = closedAt
      /\ mishaps' \in 0..budget.mishaps
  <2>1. KeepsRows /\ UNCHANGED <<budget, made, revised, closedAt>>
    BY DEF Begin, RearmRead, Refresh, ReadLinked, Rebuild, Reread, Decline, Admit,
           PublishRefused, Timeout, Elsewhere
  <2>2. mishaps' = mishaps \/ (mishaps < budget.mishaps /\ mishaps' = mishaps + 1)
    BY DEF Begin, RearmRead, Refresh, ReadLinked, Rebuild, Reread, Decline, Admit,
           PublishRefused, Timeout, Elsewhere
  <2>3. mishaps' \in 0..budget.mishaps
    BY <2>2, Parts
  <2> QED BY <2>1, <2>3, Parts DEF KeepsRows, cards
<1>2. ASSUME NEW s \in Snapshot, s.at # "enqueue",
             ev' = [f \in Evaluator |-> IF f = e THEN s ELSE ev[f]]
      PROVE  CardsTypeOK' /\ SessionTypeOK' /\ Owned'
  <2> HIDE DEF Snapshot
  <2> QED BY <1>1, <1>2, EvalTyped
<1>3. Idle \in Snapshot /\ Idle.at # "enqueue"
  BY Parts, IdleType DEF Idle
<1>4. CASE Done(e)
  <2>1. ev' = [f \in Evaluator |-> IF f = e THEN Idle ELSE ev[f]]
    BY <1>4, Parts DEF Done
  <2> QED BY <1>2, <1>3, <2>1
<1>5. ASSUME NEW stage \in Stage \ {"enqueue"}, Goto(e, stage)
      PROVE  CardsTypeOK' /\ SessionTypeOK' /\ Owned'
  <2>1. ev' = [f \in Evaluator |-> IF f = e THEN [ev[e] EXCEPT !.at = stage] ELSE ev[f]]
    BY <1>5, Parts DEF Goto
  <2>2. /\ [ev[e] EXCEPT !.at = stage] \in Snapshot
        /\ [ev[e] EXCEPT !.at = stage].at # "enqueue"
    BY Parts DEF Snapshot
  <2> QED BY <1>2, <2>1, <2>2
<1>6. ASSUME NEW stage \in Stage \ {"enqueue"}, Reads(e, stage)
      PROVE  CardsTypeOK' /\ SessionTypeOK' /\ Owned'
  <2> DEFINE s == [Idle EXCEPT !.at = stage, !.plan = slot.plan, !.opp = slot.opp,
                               !.after = slot.after, !.reset = slot.reset]
  <2>1. ev' = [f \in Evaluator |-> IF f = e THEN s ELSE ev[f]]
    BY <1>6, Parts DEF Reads
  <2>2. s \in Snapshot /\ s.at # "enqueue"
    BY <1>3, Parts DEF Snapshot
  <2> QED BY <1>2, <2>1, <2>2
<1>7. {"linked", "recommit", "rearm", "rebuild", "mark", "entry", "replace", "publish"}
        \subseteq Stage \ {"enqueue"}
  BY DEF Stage
<1>8. CASE Begin(e)
  <2>1. (IF Claimed THEN "rearm" ELSE "rebuild") \in Stage \ {"enqueue"}
    BY <1>7
  <2> QED BY <1>6, <1>8, <2>1 DEF Begin
<1>9. CASE RearmRead(e)
  BY <1>5, <1>7, <1>9 DEF RearmRead
<1>10. CASE Refresh(e)
  BY <1>6, <1>7, <1>10 DEF Refresh
<1>11. CASE ReadLinked(e) /\ ~Done(e)
  <2> DEFINE dead == ev[e].opp # NoCard /\ Dead(ev[e].opp)
             stage == IF dead /\ ev[e].reset # ev[e].opp THEN "mark" ELSE "rebuild"
             s == [ev[e] EXCEPT !.dead = dead, !.at = stage]
  <2>1. dead \in BOOLEAN /\ stage \in Stage \ {"enqueue"}
    BY <1>7
  <2>2. ev' = [ev EXCEPT ![e].dead = dead, ![e].at = stage]
    BY <1>11 DEF ReadLinked
  <2> HIDE DEF dead, stage
  <2>3. ev' = [f \in Evaluator |-> IF f = e THEN s ELSE ev[f]]
    BY <2>2, Parts
  <2>4. s \in Snapshot /\ s.at # "enqueue"
    BY <2>1, Parts DEF Snapshot
  <2> QED BY <1>2, <2>3, <2>4
<1>12. CASE Rebuild(e)
  <2>1. PICK n \in {0} \union {x \in {made} : x > ev[e].after} :
          ev' = [ev EXCEPT ![e] = IF n # ev[e].plan.setup \/ ev[e].dead
                   THEN [@ EXCEPT !.at = "replace", !.next = n, !.reset = NoCard, !.dead = FALSE]
                   ELSE [Idle EXCEPT !.at = "entry", !.plan = ev[e].plan, !.opp = ev[e].opp]]
    BY <1>12 DEF Rebuild
  <2> DEFINE s == [ev[e] EXCEPT !.at = "replace", !.next = n, !.reset = NoCard, !.dead = FALSE]
             t == [Idle EXCEPT !.at = "entry", !.plan = ev[e].plan, !.opp = ev[e].opp]
  <2>2. n \in 0..made
    BY Parts
  <2>3. s \in Snapshot /\ s.at # "enqueue" /\ t \in Snapshot /\ t.at # "enqueue"
    BY <1>3, <1>7, <2>2, Parts DEF Snapshot
  <2>4. \/ ev' = [f \in Evaluator |-> IF f = e THEN s ELSE ev[f]]
        \/ ev' = [f \in Evaluator |-> IF f = e THEN t ELSE ev[f]]
    BY <2>1, Parts
  <2> QED BY <1>2, <2>3, <2>4
<1>13. CASE Reread(e)
  <2> DEFINE s == [ev[e] EXCEPT !.at = "entry", !.opp = slot.opp]
  <2>1. ev' = [f \in Evaluator |-> IF f = e THEN s ELSE ev[f]]
    BY <1>13, Parts DEF Reread
  <2>2. s \in Snapshot /\ s.at # "enqueue"
    BY <1>7, Parts DEF Snapshot
  <2> QED BY <1>2, <2>1, <2>2
<1>14. CASE Admit(e)
  <2> DEFINE s == [Idle EXCEPT !.at = "publish", !.plan = ev[e].plan, !.rearms = slot.rearms]
  <2>1. ev' = [f \in Evaluator |-> IF f = e THEN s ELSE ev[f]]
    BY <1>14, Parts DEF Admit
  <2>2. s \in Snapshot /\ s.at # "enqueue"
    BY <1>3, <1>7, Parts DEF Snapshot
  <2> QED BY <1>2, <2>1, <2>2
<1>15. CASE Decline(e) \/ PublishRefused(e) \/ Timeout(e)
  BY <1>4, <1>15 DEF Decline, PublishRefused, Timeout
<1> QED BY <1>4, <1>8, <1>9, <1>10, <1>11, <1>12, <1>13, <1>14, <1>15

(* Steps that write the session row: the re-entry, the mark of a dead card,  *)
(* a plan replaced, a setup invalidated, a card published.                   *)
LEMMA WriteType ==
  ASSUME TypeInv, NEW e \in Evaluator,
         RearmCommit(e) \/ MarkReset(e) \/ Replace(e) \/ Invalidate(e) \/ Publish(e)
  PROVE  CardsTypeOK' /\ SessionTypeOK' /\ Owned'
<1>1. /\ UNCHANGED <<sub, cooling, intent, pos, at, of, copy>> /\ made' = made
      /\ budget' = budget /\ revised' = revised /\ closedAt' = closedAt
      /\ mishaps' \in 0..budget.mishaps
  BY Parts DEF RearmCommit, MarkReset, Replace, Invalidate, Publish, Elsewhere, cards
<1>2. ASSUME NEW s \in Snapshot, s.at = "enqueue" => s.opp \in Card,
             ev' = [f \in Evaluator |-> IF f = e THEN s ELSE ev[f]],
             slot' \in Slot, planOf' \in [Card -> Plan], card' \in [Card -> CardStatus]
      PROVE  CardsTypeOK' /\ SessionTypeOK' /\ Owned'
  <2> HIDE DEF Snapshot
  <2> QED BY <1>1, <1>2, EvalTyped
<1>3. Idle \in Snapshot /\ Idle.at # "enqueue"
  BY Parts, IdleType DEF Idle
<1>4. ASSUME NEW stage \in Stage \ {"enqueue"}, Goto(e, stage),
             slot' \in Slot, planOf' \in [Card -> Plan], card' \in [Card -> CardStatus]
      PROVE  CardsTypeOK' /\ SessionTypeOK' /\ Owned'
  <2>1. ev' = [f \in Evaluator |-> IF f = e THEN [ev[e] EXCEPT !.at = stage] ELSE ev[f]]
    BY <1>4, Parts DEF Goto
  <2>2. /\ [ev[e] EXCEPT !.at = stage] \in Snapshot
        /\ [ev[e] EXCEPT !.at = stage].at # "enqueue"
    BY Parts DEF Snapshot
  <2> QED BY <1>2, <1>4, <2>1, <2>2
<1>5. {"linked", "refresh", "rebuild", "reread"} \subseteq Stage \ {"enqueue"}
  BY DEF Stage
<1>6. CASE RearmCommit(e)
  <2>1. planOf' \in [Card -> Plan] /\ card' \in [Card -> CardStatus]
    BY <1>6, Parts DEF RearmCommit, cards
  <2>2. CASE Goto(e, "linked") /\ UNCHANGED slot
    BY <1>4, <1>5, <2>1, <2>2, Parts
  <2>3. CASE /\ TradeClosed /\ Goto(e, "refresh")
             /\ slot' = [Rearmed([base |-> slot.plan.base + 1, setup |-> 0],
                                 closedAt[slot.opp]) EXCEPT !.reset = NoCard]
    <3>1. slot.plan.base \in Nat /\ 0 \in 0..made
      BY Parts DEF Plan
    <3>2. [base |-> slot.plan.base + 1, setup |-> 0] \in Plan
      BY <3>1 DEF Plan
    <3>3. closedAt[slot.opp] \in 0..made
      BY <2>3, Parts DEF TradeClosed, Claimed
    <3>4. Rearmed([base |-> slot.plan.base + 1, setup |-> 0], closedAt[slot.opp]) \in Slot
      BY <3>2, <3>3, Parts, RearmedType
    <3>5. slot' \in Slot
      BY <2>3, <3>4 DEF Slot
    <3> QED BY <1>4, <1>5, <2>1, <2>3, <3>5
  <2> QED BY <1>6, <2>2, <2>3 DEF RearmCommit
<1>7. CASE MarkReset(e)
  <2> DEFINE s == [ev[e] EXCEPT !.at = "rebuild", !.after = made]
  <2>1. ev' = [f \in Evaluator |-> IF f = e THEN s ELSE ev[f]]
    BY <1>7, Parts DEF MarkReset
  <2>2. made \in 0..made /\ "rebuild" \in Stage
    BY <1>5, Parts
  <2>3. s \in Snapshot /\ s.at # "enqueue"
    BY <2>2, Parts DEF Snapshot
  <2>4. slot' \in Slot
    <3>1. slot' = [slot EXCEPT !.after = made, !.reset = ev[e].opp]
      BY <1>7 DEF MarkReset
    <3> QED BY <2>2, <3>1, Parts DEF Slot
  <2> QED BY <1>2, <1>7, <2>1, <2>3, <2>4, Parts DEF MarkReset, cards
<1>8. CASE Replace(e)
  <2> DEFINE plan == [ev[e].plan EXCEPT !.setup = ev[e].next]
             s == [ev[e] EXCEPT !.at = "reread", !.plan = plan, !.next = 0, !.after = 0]
  <2>1. plan \in Plan /\ 0 \in 0..made
    BY Parts DEF Plan
  <2>2. CASE Done(e) /\ UNCHANGED <<slot, card>>
    BY <1>2, <1>3, <1>8, <2>2, Parts DEF Replace, Done
  <2>3. CASE /\ slot' = Rearmed(plan, ev[e].after) /\ card' = Retired
             /\ ev' = [ev EXCEPT ![e].at = "reread", ![e].plan = plan,
                                 ![e].next = 0, ![e].after = 0]
    <3> HIDE DEF plan
    <3>1. ev' = [f \in Evaluator |-> IF f = e THEN s ELSE ev[f]]
      BY <2>3, Parts
    <3>2. s \in Snapshot /\ s.at # "enqueue"
      BY <1>5, <2>1, Parts DEF Snapshot
    <3>3. slot' \in Slot
      BY <2>1, <2>3, Parts, RearmedType
    <3>4. card' \in [Card -> CardStatus]
      BY <2>3, RetiredType DEF TypeInv, TypeOK
    <3> QED BY <1>2, <1>8, <3>1, <3>2, <3>3, <3>4, Parts DEF Replace
  <2> QED BY <1>8, <2>2, <2>3 DEF Replace
<1>9. CASE Invalidate(e)
  <2> DEFINE plan == [ev[e].plan EXCEPT !.setup = 0]
  <2>1. plan \in Plan /\ made \in 0..made
    BY Parts DEF Plan
  <2>2. ev' = [f \in Evaluator |-> IF f = e THEN Idle ELSE ev[f]]
    BY <1>9, Parts DEF Invalidate, Done
  <2>3. slot' \in Slot /\ card' \in [Card -> CardStatus]
    <3>1. CASE UNCHANGED <<slot, card>>
      BY <3>1, Parts
    <3>2. CASE slot' = Rearmed(plan, made) /\ card' = Retired
      <4> HIDE DEF plan
      <4> QED BY <2>1, <3>2, Parts, RearmedType, RetiredType DEF TypeInv, TypeOK
    <3> QED BY <1>9, <3>1, <3>2 DEF Invalidate
  <2> QED BY <1>2, <1>3, <1>9, <2>2, <2>3, Parts DEF Invalidate
<1>10. CASE Publish(e)
  <2>1. PICK c \in Card :
          /\ ev' = [ev EXCEPT ![e] = [Idle EXCEPT !.at = "enqueue", !.opp = c]]
          /\ \/ UNCHANGED <<slot, card, planOf>>
             \/ /\ card' = [card EXCEPT ![c] = "awaiting"]
                /\ planOf' = [planOf EXCEPT ![c] = ev[e].plan]
                /\ slot' = [slot EXCEPT !.opp = c]
    <3>1. Fresh # {} => (CHOOSE x \in Fresh : TRUE) \in Card
      BY DEF Fresh
    <3>2. Claimed => slot.opp \in Card
      BY Parts DEF Claimed
    <3> QED BY <1>10, <3>1, <3>2 DEF Publish
  <2> DEFINE s == [Idle EXCEPT !.at = "enqueue", !.opp = c]
  <2>2. ev' = [f \in Evaluator |-> IF f = e THEN s ELSE ev[f]]
    BY <2>1, Parts
  <2>3. s \in Snapshot /\ s.opp \in Card
    BY <1>3 DEF Snapshot, Stage, Idle
  <2>4. slot' \in Slot
    BY <2>1, Parts DEF Slot
  <2>5. planOf' \in [Card -> Plan] /\ card' \in [Card -> CardStatus]
    BY <2>1, Parts DEF CardStatus
  <2> QED BY <1>2, <2>2, <2>3, <2>4, <2>5
<1> QED BY <1>6, <1>7, <1>8, <1>9, <1>10

(* The session's own writers.                                                *)
LEMMA WritersType ==
  ASSUME TypeInv, Select \/ RestoreInstrument \/ Rollout
  PROVE  CardsTypeOK' /\ SessionTypeOK' /\ Owned'
<1>1. /\ made \in Nat /\ slot \in Slot /\ slot.plan \in Plan
      /\ card \in [Card -> CardStatus] /\ revised \subseteq {"rollout", "instrument"}
  <2>1. budget \in [overlap : Nat, setups : Nat, mishaps : Nat, late : BOOLEAN,
                 revisions : Nat]
    BY DEF TypeInv, TypeOK, SessionTypeOK
  <2> QED BY <2>1 DEF TypeInv, TypeOK, SessionTypeOK, CardsTypeOK, Slot
<1>2. /\ UNCHANGED <<budget, made, closedAt, planOf, ev, mishaps>>
      /\ UNCHANGED <<sub, cooling, intent, pos, at, of, copy>>
      /\ revised' \subseteq {"rollout", "instrument"}
  BY <1>1 DEF Select, RestoreInstrument, Rollout, cards
<1>3. \A n \in Nat : [slot EXCEPT !.plan.base = n] \in Slot
  <2>1. \A n \in Nat : [slot.plan EXCEPT !.base = n] \in Plan
    BY <1>1 DEF Plan
  <2> QED BY <1>1, <2>1 DEF Slot
<1>4. slot.plan.base \in Nat
  BY <1>1 DEF Plan
<1>5. slot' \in Slot /\ card' \in [Card -> CardStatus]
  <2>1. CASE Select
    BY <1>1, <1>3, <2>1 DEF Select, cards
  <2>2. CASE RestoreInstrument
    <3>1. slot' = [slot EXCEPT !.plan.base = slot.plan.base + 1]
      BY <1>1, <2>2 DEF RestoreInstrument, Slot
    <3> QED BY <1>1, <1>3, <1>4, <2>2, <3>1 DEF RestoreInstrument, cards
  <2>3. CASE Rollout
    <3>1. CASE UNCHANGED <<slot, card>>
      BY <1>1, <3>1
    <3>2. CASE /\ slot' = Rearmed([base |-> slot.plan.base + 1, setup |-> 0], 0)
               /\ card' = Retired
      <4>1. [base |-> slot.plan.base + 1, setup |-> 0] \in Plan /\ 0 \in 0..made
        BY <1>1, <1>4 DEF Plan
      <4> QED BY <1>1, <3>2, <4>1, RearmedType, RetiredType DEF TypeInv, TypeOK
    <3> QED BY <2>3, <3>1, <3>2 DEF Rollout
  <2> QED BY <2>1, <2>2, <2>3
<1>6. Plan' = Plan /\ Slot' = Slot
  BY <1>2 DEF Plan, Slot
<1>7. CardsTypeOK' /\ Owned'
  BY <1>2, <1>5 DEF TypeInv, TypeOK, CardsTypeOK, Owned
<1>8. SessionTypeOK'
  BY <1>2, <1>5, <1>6 DEF TypeInv, TypeOK, SessionTypeOK
<1> QED BY <1>7, <1>8

(* A restart keeps the types.                                               *)
LEMMA CrashType ==
  ASSUME TypeInv, Crash
  PROVE  TypeInv'
<1>1. made \in Nat /\ budget.mishaps \in Nat /\ mishaps \in 0..budget.mishaps
  <2>1. budget \in [overlap : Nat, setups : Nat, mishaps : Nat, late : BOOLEAN,
                 revisions : Nat]
    BY DEF TypeInv, TypeOK, SessionTypeOK
  <2> QED BY <2>1 DEF TypeInv, TypeOK, SessionTypeOK
<1>2. CardsTypeOK'
  BY DEF TypeInv, TypeOK, CardsTypeOK, CardStatus, Seat, Crash
<1>3. TriggerTypeOK'
  BY DEF TypeInv, TypeOK, TriggerTypeOK, Crash
<1>4. Owned'
  BY DEF TypeInv, Owned, Crash, Idle
<1>5. Plan' = Plan /\ Slot' = Slot
  BY DEF Plan, Slot, Crash
<1>6. ev' \in [Evaluator -> Snapshot]
  BY <1>1, IdleType DEF Crash
<1>7. mishaps' \in 0..budget.mishaps
  BY <1>1 DEF Crash
<1>8. SessionTypeOK'
  BY <1>5, <1>6, <1>7 DEF TypeInv, TypeOK, SessionTypeOK, Snapshot, Crash
<1> QED BY <1>2, <1>3, <1>4, <1>8 DEF TypeInv, TypeOK

(* Enqueueing what was just published ends the evaluation.                   *)
LEMMA EnqueuePublishedType ==
  ASSUME TypeInv, NEW e \in Evaluator, EnqueuePublished(e)
  PROVE  TypeInv'
<1>1. ev[e].opp \in Card
  BY DEF EnqueuePublished, Step, TypeInv, Owned
<1>2. TriggerTypeOK'
  BY <1>1, EnqueueType DEF EnqueuePublished, TypeInv, TypeOK, TriggerTypeOK
<1>3. Idle \in Snapshot /\ Idle.at # "enqueue"
  BY Parts, IdleType DEF Idle
<1>4. ev' = [f \in Evaluator |-> IF f = e THEN Idle ELSE ev[f]]
  BY Parts DEF EnqueuePublished, Done
<1>5. /\ UNCHANGED <<slot, planOf, card, sub, cooling, intent, pos, at, of, copy>>
      /\ UNCHANGED <<budget, made, revised, closedAt, mishaps>>
  BY DEF EnqueuePublished, KeepsRows, Elsewhere, cards
<1>6. CardsTypeOK' /\ SessionTypeOK' /\ Owned'
  <2> HIDE DEF Snapshot
  <2> QED BY <1>3, <1>4, <1>5, Parts, EvalTyped
<1> QED BY <1>2, <1>6 DEF TypeInv, TypeOK

(* A step at a bad moment is one more mishap at the most.                   *)
LEMMA HitsType ==
  ASSUME SessionTypeOK, NEW late, Hits(late)
  PROVE  SessionTypeOK'
<1>1. budget \in [overlap : Nat, setups : Nat, mishaps : Nat, late : BOOLEAN,
                  revisions : Nat] /\ mishaps \in 0..budget.mishaps
  BY DEF SessionTypeOK
<1>2. budget.mishaps \in Nat
  BY <1>1
<1>3. mishaps' = mishaps \/ (mishaps < budget.mishaps /\ mishaps' = mishaps + 1)
  BY DEF Hits
<1>4. mishaps' \in 0..budget.mishaps
  BY <1>1, <1>2, <1>3
<1>5. UNCHANGED <<budget, made, slot, revised, closedAt, planOf, ev>>
  BY DEF Hits
<1>6. Plan' = Plan /\ Slot' = Slot
  BY <1>5 DEF Plan, Slot
<1> QED BY <1>4, <1>5, <1>6 DEF SessionTypeOK

(* The types hold at first.                                                 *)
LEMMA TypeInit == Init => TypeInv
<1> SUFFICES ASSUME Init PROVE TypeInv
  OBVIOUS
<1>1. CardsTypeOK
  BY DEF Init, CardsInit, CardsTypeOK, CardStatus, Seat
<1>2. budget \in [overlap : Nat, setups : Nat, mishaps : Nat, late : BOOLEAN,
                 revisions : Nat] /\ made = 0
  BY DEF Init, SessionInit
<1>3. Idle.plan \in Plan /\ Idle \in Snapshot
  BY <1>2, IdleType DEF Idle, Plan
<1>4. slot \in Slot
  BY <1>2, <1>3 DEF Init, SessionInit, Slot
<1>5. SessionTypeOK
  BY <1>2, <1>3, <1>4 DEF Init, SessionInit, SessionTypeOK, Snapshot
<1>6. TriggerTypeOK
  BY DEF Init, TriggerInit, TriggerTypeOK
<1>7. Owned
  BY DEF Init, CardsInit, SessionInit, Owned, Idle
<1> QED BY <1>1, <1>5, <1>6, <1>7 DEF TypeInv, TypeOK

(* Every step keeps the types.                                              *)
LEMMA TypeStep == TypeInv /\ [Next]_vars => TypeInv'
<1> SUFFICES ASSUME TypeInv, [Next]_vars PROVE TypeInv'
  OBVIOUS
<1>1. CardsTypeOK /\ SessionTypeOK /\ TriggerTypeOK /\ Owned
  BY DEF TypeInv, TypeOK
<1>2. ASSUME CardsTypeOK', SessionTypeOK', Owned', UNCHANGED trigger PROVE TypeInv'
  BY <1>1, <1>2 DEF trigger, TriggerTypeOK, TypeInv, TypeOK
<1>3. ASSUME CardsTypeOK', \A x \in Caller : of'[x] = NoCard <=> at'[x] = "idle",
             UNCHANGED <<session, trigger>>
      PROVE  TypeInv'
  <2>1. SessionTypeOK' /\ Owned'
    BY <1>1, <1>3 DEF session, SessionTypeOK, Slot, Plan, Owned
  <2> QED BY <1>2, <1>3, <2>1
<1>4. CASE UNCHANGED vars
  BY <1>1, <1>3, <1>4 DEF vars, cards, CardsTypeOK, Owned
<1>5. CASE Market
  <2>1. CardsTypeOK' /\ Owned'
    BY <1>1, <1>5 DEF Market, Confirm, cards, CardsTypeOK, Owned
  <2> QED BY <1>1, <1>2, <1>5, <2>1, ConfirmType DEF Market
<1>6. CASE Writers
  BY <1>2, <1>6, WritersType DEF Writers
<1>7. CASE Operator
  <2>1. PICK c \in Card : ("operator" \in Caller /\ Approve("operator", c)) \/ Dismiss(c)
    BY <1>7 DEF Operator
  <2>2. PICK a \in Caller : Approve(a, c) \/ Dismiss(c)
    BY <2>1
  <2> QED BY <1>3, <1>7, <2>2, DeskType DEF Operator
<1>8. CASE Reconcile
  <2>1. CardsTypeOK' /\ \A x \in Caller : of'[x] = NoCard <=> at'[x] = "idle"
    <3>1. "auto" \in Caller
      OBVIOUS
    <3>2. CASE ReleaseStale /\ Card = {}
      BY <1>1, <3>2 DEF ReleaseStale, CardsTypeOK, Owned
    <3> QED BY <1>8, <3>1, <3>2, DeskType DEF Reconcile
  <2>2. SessionTypeOK' /\ ev' = ev
    BY <1>1, <1>8, HitsType DEF Reconcile, Hits, session, SessionTypeOK, Slot, Plan
  <2>3. Owned'
    BY <1>1, <2>1, <2>2 DEF Owned
  <2> QED BY <1>2, <1>8, <2>1, <2>2, <2>3 DEF Reconcile
<1>9. CASE AutoStep
  <2>1. SessionTypeOK' /\ ev' = ev
    BY <1>1, <1>9, HitsType DEF AutoStep, Hits
  <2> QED BY <1>1, <1>9, <2>1, TriggerType DEF AutoStep, TypeInv, TypeOK, Owned
<1>10. CASE Crash
  BY <1>10, CrashType
<1>11. ASSUME NEW c \in Card, Sold(c) PROVE TypeInv'
  <2>1. CardsTypeOK' /\ Owned'
    BY <1>1, <1>11 DEF Sold, Close, CardsTypeOK, Owned
  <2>2. made \in 0..made
    <3>1. budget \in [overlap : Nat, setups : Nat, mishaps : Nat, late : BOOLEAN,
                 revisions : Nat]
      BY <1>1 DEF SessionTypeOK
    <3> QED BY <1>1, <3>1 DEF SessionTypeOK
  <2>3. SessionTypeOK'
    BY <1>1, <1>11, <2>2 DEF Sold, Close, SessionTypeOK, Slot, Plan
  <2> QED BY <1>2, <1>11, <2>1, <2>3 DEF Sold
<1>12. ASSUME NEW c \in Card, Wait(c) PROVE TypeInv'
  BY <1>3, <1>12, DeskType DEF Wait
<1>13. ASSUME NEW e \in Evaluator, Watch(e) PROVE TypeInv'
  BY <1>2, <1>13, ReadType, WriteType DEF Watch, Evaluate
<1>14. ASSUME NEW e \in Evaluator, CutOff(e) PROVE TypeInv'
  BY <1>2, <1>14, ReadType DEF CutOff
<1>15. ASSUME NEW e \in Evaluator, EnqueuePublished(e) PROVE TypeInv'
  BY <1>15, EnqueuePublishedType
<1>16. ASSUME NEW a \in Caller, Attempt(a) PROVE TypeInv'
  BY <1>3, <1>16, DecideType DEF Attempt
<1> QED BY <1>4, <1>5, <1>6, <1>7, <1>8, <1>9, <1>10, <1>11, <1>12, <1>13, <1>14, <1>15,
           <1>16 DEF Next

(* Types of the strategy's desk, for every constant: every evaluator's       *)
(* snapshot and every caller of decide stays on cards that exist, and the    *)
(* queue within its maxsize.                                                 *)
THEOREM DeskTyped == Spec => []TypeOK
<1>1. TypeInv => TypeOK
  BY DEF TypeInv
<1>2. Spec => []TypeInv
  BY TypeInit, TypeStep, PTL DEF Spec
<1> QED BY <1>1, <1>2, PTL

-----------------------------------------------------------------------------
(* The keys of the auto trigger.  The worker has the card of its attempt,    *)
(* and no card waits while the worker has it.                                *)
KeysInv ==
  /\ inFlight = IF at["auto"] = "idle" THEN {} ELSE {of["auto"]}
  /\ \A i \in 1..Len(queue) : queue[i] \notin inFlight
  /\ KeysMatchQueue

(* A key that is accepted is new to the queue and to the worker.             *)
LEMMA EnqueueKeeps ==
  ASSUME TypeInv, KeysInv, NEW c \in Card, Enqueue(c),
         UNCHANGED inFlight, at'["auto"] = at["auto"], of'["auto"] = of["auto"]
  PROVE  KeysInv'
<1>1. queue \in Seq(Card)
  BY DEF TypeInv, TypeOK, TriggerTypeOK
<1>2. CASE ~Accepts(c)
  BY <1>2 DEF Enqueue, KeysInv, KeysMatchQueue
<1>3. CASE Accepts(c)
  <2>1. queue' = Append(queue, c) /\ queued' = queued \union {c} /\ c \notin queued \union inFlight
    BY <1>3 DEF Enqueue, Accepts
  <2>2. /\ Len(queue) \in Nat /\ Len(queue') = Len(queue) + 1
        /\ \A i \in 1..Len(queue) : queue'[i] = queue[i]
        /\ queue'[Len(queue) + 1] = c
    BY <1>1, <2>1, AppendProperties
  <2>3. /\ \A i \in 1..Len(queue) : queue[i] # c /\ queue[i] \notin inFlight
        /\ \A i, j \in 1..Len(queue) : queue[i] = queue[j] => i = j
        /\ queued = {queue[i] : i \in 1..Len(queue)} \union inFlight
    BY <2>1 DEF KeysInv, KeysMatchQueue
  <2>4. 1..Len(queue') = (1..Len(queue)) \union {Len(queue) + 1}
    BY <2>2
  <2>5. \A i, j \in 1..Len(queue') : queue'[i] = queue'[j] => i = j
    BY <2>2, <2>3, <2>4
  <2>6. {queue'[i] : i \in 1..Len(queue')} = {queue[i] : i \in 1..Len(queue)} \union {c}
    BY <2>2, <2>4
  <2>7. \A i \in 1..Len(queue') : queue'[i] \notin inFlight
    BY <2>1, <2>2, <2>3, <2>4
  <2> QED BY <2>1, <2>3, <2>5, <2>6, <2>7 DEF KeysInv, KeysMatchQueue
<1> QED BY <1>2, <1>3

(* The head leaves; the rest stays distinct and apart from it.               *)
LEMMA TailKeys ==
  ASSUME TypeInv, KeysInv, queue # << >>
  PROVE  LET t == Tail(queue) IN
         /\ \A i, j \in 1..Len(t) : t[i] = t[j] => i = j
         /\ \A i \in 1..Len(t) : t[i] # Head(queue) /\ t[i] \notin inFlight
         /\ {t[i] : i \in 1..Len(t)} = {queue[i] : i \in 1..Len(queue)} \ {Head(queue)}
         /\ Head(queue) \in queued /\ Head(queue) \notin inFlight
<1> DEFINE t == Tail(queue)
<1>1. queue \in Seq(Card)
  BY DEF TypeInv, TypeOK, TriggerTypeOK
<1>2. /\ Len(queue) \in Nat \ {0} /\ Head(queue) = queue[1]
      /\ Len(t) = Len(queue) - 1 /\ \A i \in 1..Len(t) : t[i] = queue[i + 1]
  BY <1>1, HeadTailProperties
<1>3. /\ \A i, j \in 1..Len(queue) : queue[i] = queue[j] => i = j
      /\ \A i \in 1..Len(queue) : queue[i] \notin inFlight
      /\ queued = {queue[i] : i \in 1..Len(queue)} \union inFlight
  BY DEF KeysInv, KeysMatchQueue
<1> HIDE DEF t
<1>4. 1 \in 1..Len(queue) /\ \A i \in 1..Len(t) : i + 1 \in 1..Len(queue) /\ i + 1 # 1
  BY <1>2
<1>5. \A i, j \in 1..Len(t) : t[i] = t[j] => i = j
  <2> SUFFICES ASSUME NEW i \in 1..Len(t), NEW j \in 1..Len(t), t[i] = t[j] PROVE i = j
    OBVIOUS
  <2>1. i + 1 = j + 1
    BY <1>2, <1>3, <1>4
  <2> QED BY <1>2, <2>1
<1>6. \A i \in 1..Len(t) : t[i] # Head(queue) /\ t[i] \notin inFlight
  BY <1>2, <1>3, <1>4
<1>7. {t[i] : i \in 1..Len(t)} = {queue[i] : i \in 1..Len(queue)} \ {Head(queue)}
  <2>1. ASSUME NEW i \in 1..Len(queue), queue[i] # Head(queue)
        PROVE  \E j \in 1..Len(t) : t[j] = queue[i]
    <3>1. i # 1
      BY <1>2, <2>1
    <3>2. i - 1 \in 1..Len(t) /\ (i - 1) + 1 = i
      BY <1>2, <3>1
    <3> QED BY <1>2, <3>2
  <2> QED BY <1>2, <1>4, <1>6, <2>1
<1>8. Head(queue) \in queued /\ Head(queue) \notin inFlight
  BY <1>2, <1>3, <1>4
<1> QED BY <1>5, <1>6, <1>7, <1>8 DEF t

(* The trigger takes the head of its queue, and its key is in flight.       *)
LEMMA ServeKeeps ==
  ASSUME TypeInv, KeysInv, Serve
  PROVE  KeysInv'
<1>1. /\ "auto" \in Caller /\ at \in [Caller -> Seat]
      /\ of \in [Caller -> Card \union {NoCard}]
  BY DEF TypeInv, TypeOK, CardsTypeOK
<1>2. CASE PickUp \/ TurnedAway
  <2>1. /\ queue # << >> /\ inFlight = {} /\ inFlight' = {Head(queue)}
        /\ queue' = Tail(queue) /\ queued' = queued
        /\ at'["auto"] # "idle" /\ of'["auto"] = Head(queue)
    BY <1>1, <1>2 DEF PickUp, TurnedAway, WorkerFree, Approve, Afterwards
  <2>2. queued = {queue[i] : i \in 1..Len(queue)} \union inFlight
    BY DEF KeysInv, KeysMatchQueue
  <2> DEFINE t == Tail(queue)
  <2>3. /\ \A i, j \in 1..Len(t) : t[i] = t[j] => i = j
        /\ \A i \in 1..Len(t) : t[i] # Head(queue)
        /\ {t[i] : i \in 1..Len(t)} = {queue[i] : i \in 1..Len(queue)} \ {Head(queue)}
        /\ Head(queue) \in queued
    BY <2>1, TailKeys
  <2>4. queue' = t
    BY <2>1
  <2> HIDE DEF t
  <2>5. queued' = {t[i] : i \in 1..Len(t)} \union inFlight'
    <3> DEFINE A == {queue[i] : i \in 1..Len(queue)}
               B == {t[i] : i \in 1..Len(t)}
    <3>1. queued' = A /\ Head(queue) \in A /\ B = A \ {Head(queue)} /\ inFlight' = {Head(queue)}
      BY <2>1, <2>2, <2>3
    <3> HIDE DEF A, B
    <3>2. queued' = B \union inFlight'
      BY <3>1
    <3> QED BY <3>2 DEF B
  <2>6. KeysMatchQueue'
    BY <2>3, <2>4, <2>5 DEF KeysMatchQueue
  <2>7. \A i \in 1..Len(queue') : queue'[i] \notin inFlight'
    BY <2>1, <2>3, <2>4
  <2>8. inFlight' = IF at'["auto"] = "idle" THEN {} ELSE {of'["auto"]}
    BY <2>1
  <2> QED BY <2>6, <2>7, <2>8 DEF KeysInv
<1>3. CASE PassOver
  <2>1. /\ queue # << >> /\ inFlight = {} /\ inFlight' = {}
        /\ queue' = Tail(queue) /\ queued' = queued \ {Head(queue)}
        /\ at' = at /\ of' = of /\ at["auto"] = "idle"
    BY <1>3 DEF PassOver, WorkerFree, cards
  <2>2. queued = {queue[i] : i \in 1..Len(queue)} \union inFlight
    BY DEF KeysInv, KeysMatchQueue
  <2>3. /\ \A i, j \in 1..Len(queue') : queue'[i] = queue'[j] => i = j
        /\ {queue'[i] : i \in 1..Len(queue')} = {queue[i] : i \in 1..Len(queue)} \ {Head(queue)}
    <3> DEFINE t == Tail(queue)
    <3>1. /\ \A i, j \in 1..Len(t) : t[i] = t[j] => i = j
          /\ {t[i] : i \in 1..Len(t)} = {queue[i] : i \in 1..Len(queue)} \ {Head(queue)}
      BY <2>1, TailKeys
    <3>2. queue' = t
      BY <2>1
    <3> HIDE DEF t
    <3> QED BY <3>1, <3>2
  <2>4. queued' = {queue'[i] : i \in 1..Len(queue')} \union inFlight'
    BY <2>1, <2>2, <2>3
  <2> QED BY <2>1, <2>3, <2>4 DEF KeysInv, KeysMatchQueue
<1>4. CASE Conclude
  <2>1. /\ inFlight' = {} /\ queued' = queued \ inFlight /\ queue' = queue
        /\ at'["auto"] = "idle"
    BY <1>1, <1>4 DEF Conclude, Released
  <2>2. /\ \A i \in 1..Len(queue) : queue[i] \notin inFlight
        /\ \A i, j \in 1..Len(queue) : queue[i] = queue[j] => i = j
        /\ queued = {queue[i] : i \in 1..Len(queue)} \union inFlight
    BY DEF KeysInv, KeysMatchQueue
  <2>3. queued' = {queue[i] : i \in 1..Len(queue)}
    BY <2>1, <2>2
  <2> QED BY <2>1, <2>2, <2>3 DEF KeysInv, KeysMatchQueue
<1>5. CASE (WriteBack \/ ClearRetry) /\ UNCHANGED trigger
  <2>1. at["auto"] # "idle" /\ at'["auto"] # "idle" /\ of' = of
    BY <1>1, <1>5 DEF WriteBack, ClearRetry
  <2> QED BY <1>5, <2>1 DEF trigger, KeysInv, KeysMatchQueue
<1> QED BY <1>2, <1>3, <1>4, <1>5 DEF Serve

(* decide never takes the worker off its card, nor lets it go: that is       *)
(* Conclude's.                                                               *)
LEMMA AttemptKeepsWorker ==
  ASSUME TypeInv, NEW a \in Caller, Decide(a)
  PROVE  of'["auto"] = of["auto"] /\ (at'["auto"] = "idle" <=> at["auto"] = "idle")
<1>1. /\ "auto" \in Caller /\ at \in [Caller -> Seat]
      /\ of \in [Caller -> Card \union {NoCard}]
  BY DEF TypeInv, TypeOK, CardsTypeOK
<1>2. at[a] # "idle"
  BY DEF Decide, Refused, Commit, Placed, Rejected, Silent, Unfilled, Unsettled, Flattened,
         Booked, Executed
<1>3. CASE \E out, status : Return(a, out, status)
  <2>1. CASE a = "auto"
    BY <1>1, <1>2, <1>3, <2>1 DEF Return, Afterwards
  <2>2. CASE a # "auto"
    BY <1>1, <1>3, <2>2 DEF Return
  <2> QED BY <2>1, <2>2
<1>4. CASE Commit(a) \/ Placed(a) \/ Booked(a)
  BY <1>1, <1>2, <1>4 DEF Commit, Placed, Booked
<1> QED BY <1>3, <1>4 DEF Decide, Refused, Rejected, Silent, Unfilled, Unsettled, Flattened,
                          Executed

(* No key is queued at first, and none in flight.                           *)
LEMMA KeysInit == Init => KeysInv
<1> SUFFICES ASSUME Init PROVE KeysInv
  OBVIOUS
<1>1. "auto" \in Caller /\ queue = << >> /\ queued = {} /\ inFlight = {} /\ at["auto"] = "idle"
  BY DEF Init, CardsInit, TriggerInit
<1>2. 1..Len(queue) = {}
  BY <1>1
<1> QED BY <1>1, <1>2 DEF KeysInv, KeysMatchQueue

(* Every step keeps queue and keys in agreement.                            *)
LEMMA KeysStep == TypeInv /\ KeysInv /\ [Next]_vars => KeysInv'
<1> SUFFICES ASSUME TypeInv, KeysInv, [Next]_vars PROVE KeysInv'
  OBVIOUS
<1>1. /\ "auto" \in Caller /\ at \in [Caller -> Seat]
      /\ of \in [Caller -> Card \union {NoCard}]
  BY DEF TypeInv, TypeOK, CardsTypeOK
<1>2. ASSUME UNCHANGED <<queue, queued, inFlight>>, of'["auto"] = of["auto"],
             at'["auto"] = "idle" <=> at["auto"] = "idle"
      PROVE  KeysInv'
  BY <1>2 DEF KeysInv, KeysMatchQueue
<1>3. ASSUME NEW a \in Caller, Attempt(a) PROVE KeysInv'
  BY <1>2, <1>3, AttemptKeepsWorker DEF Attempt, trigger
<1>4. CASE Operator
  <2>1. PICK c \in Card : Approve("operator", c) \/ Dismiss(c)
    BY <1>4 DEF Operator
  <2>2. of'["auto"] = of["auto"] /\ at'["auto"] = at["auto"]
    BY <1>1, <2>1 DEF Approve, Dismiss
  <2> QED BY <1>2, <1>4, <2>2 DEF Operator, trigger
<1>5. CASE AutoStep
  <2>1. CASE Toggle
    BY <1>2, <2>1 DEF Toggle, cards
  <2>2. ASSUME NEW c \in Card, Dispatch(c) PROVE KeysInv'
    BY <2>2, EnqueueKeeps DEF Dispatch, cards
  <2> QED BY <1>5, <2>1, <2>2, ServeKeeps DEF AutoStep, Trigger
<1>6. ASSUME NEW e \in Evaluator, EnqueuePublished(e) PROVE KeysInv'
  <2>1. ev[e].opp \in Card
    BY <1>6 DEF EnqueuePublished, Step, TypeInv, Owned
  <2> QED BY <1>6, <2>1, EnqueueKeeps DEF EnqueuePublished, KeepsRows, cards
<1>7. CASE Crash
  <2>1. 1..Len(<< >>) = {}
    OBVIOUS
  <2>2. queue' = << >> /\ queued' = {} /\ inFlight' = {} /\ at'["auto"] = "idle"
    BY <1>1, <1>7 DEF Crash
  <2> QED BY <2>1, <2>2 DEF KeysInv, KeysMatchQueue
<1>8. CASE Reconcile \/ Market \/ Writers \/ UNCHANGED vars
  BY <1>2, <1>8 DEF Reconcile, ReleaseStale, Reconciled, Market, Confirm, Writers, Select,
                    RestoreInstrument, Rollout, vars, cards, trigger
<1>9. ASSUME NEW c \in Card, Sold(c) \/ Wait(c) PROVE KeysInv'
  BY <1>2, <1>9 DEF Sold, Close, Wait, CoolDown, trigger
<1>10. ASSUME NEW e \in Evaluator, Watch(e) \/ CutOff(e) PROVE KeysInv'
  <2>1. UNCHANGED <<at, of>>
    BY <1>10 DEF Watch, CutOff, Evaluate, Begin, RearmRead, RearmCommit, Refresh, ReadLinked,
                 MarkReset, Rebuild, Replace, Reread, Invalidate, Decline, Admit, Publish,
                 PublishRefused, Timeout, KeepsRows, cards
  <2> QED BY <1>2, <1>10, <2>1, SMTT(40) DEF Watch, CutOff, trigger
<1> QED BY <1>3, <1>4, <1>5, <1>6, <1>7, <1>8, <1>9, <1>10 DEF Next

(* The types hold of every state.                                           *)
LEMMA DeskTypeInv == Spec => []TypeInv
  BY TypeInit, TypeStep, PTL DEF Spec

(* The keys of the auto trigger and its queue agree through publications,    *)
(* dispatches, refusals, attempts and restarts: no card is shut out by a key *)
(* left behind, none is queued twice.                                        *)
THEOREM KeysAgree == Spec => []KeysMatchQueue
<1>1. KeysInv => KeysMatchQueue
  BY DEF KeysInv
<1> QED BY <1>1, KeysInit, KeysStep, DeskTypeInv, PTL DEF Spec

-----------------------------------------------------------------------------
(* What decide and the trigger hold, and the plan of a slot: the card of a   *)
(* caller was published, as was the one whose row is in hand; a slot without *)
(* a plan is linked to nothing, and nobody evaluates it.                     *)
HeldInv ==
  /\ \A a \in Caller : at[a] # "idle" => card[of[a]] # "none"
  /\ InHand => copy # "none"

PlanInv == slot.plan.base = 0 => slot.opp = NoCard /\ \A e \in Evaluator : ev[e].at = "idle"

(* What decide leaves its card with is a status of a published card.        *)
LEMMA DecideHolds ==
  ASSUME TypeInv, HeldInv, NEW a \in Caller, Decide(a)
  PROVE  /\ \A c \in Card : card'[c] # card[c] => c = of[a] /\ card'[c] # "none"
         /\ \A b \in Caller : at'[b] # "idle" => at[b] # "idle" /\ of'[b] = of[b]
         /\ InHand' => copy' # "none"
<1>1. /\ card \in [Card -> CardStatus] /\ at \in [Caller -> Seat]
      /\ of \in [Caller -> Card \union {NoCard}] /\ "auto" \in Caller
  BY DEF TypeInv, TypeOK, CardsTypeOK
<1>2. at[a] # "idle"
  BY DEF Decide, Refused, Commit, Placed, Rejected, Silent, Unfilled, Unsettled, Flattened,
         Booked, Executed
<1>3. of[a] \in Card /\ card[of[a]] # "none"
  BY <1>1, <1>2 DEF TypeInv, Owned, HeldInv
<1>4. ASSUME NEW out, NEW status, Return(a, out, status), status # "none"
      PROVE  /\ \A c \in Card : card'[c] # card[c] => c = of[a] /\ card'[c] # "none"
             /\ \A b \in Caller : at'[b] # "idle" => at[b] # "idle" /\ of'[b] = of[b]
             /\ InHand' => copy' # "none"
  <2>1. CASE a = "auto"
    <3> DEFINE left == IF out = "terminal" /\ status = "awaiting" THEN "dead" ELSE status
    <3>1. left # "none"
      BY <1>4
    <3>2. /\ card' = [card EXCEPT ![of[a]] = left] /\ of' = of
          /\ \E stage : at' = [at EXCEPT !["auto"] = stage] /\ (stage = "writing" => copy' = left)
                        /\ stage # "clearing"
      BY <1>4, <2>1 DEF Return, Afterwards
    <3> HIDE DEF left
    <3> QED BY <1>1, <1>2, <1>3, <2>1, <3>1, <3>2 DEF InHand
  <2>2. CASE a # "auto"
    <3>1. /\ card' = [card EXCEPT ![of[a]] = status] /\ copy' = copy
          /\ at' = [at EXCEPT ![a] = "idle"] /\ of' = [of EXCEPT ![a] = NoCard]
      BY <1>4, <2>2 DEF Return
    <3>2. InHand' = InHand
      BY <1>1, <2>2, <3>1 DEF InHand
    <3> QED BY <1>1, <1>2, <1>3, <1>4, <3>1, <3>2 DEF HeldInv
  <2> QED BY <2>1, <2>2
<1>5. CASE Commit(a) \/ Placed(a) \/ Booked(a)
  <2>1. /\ \E stage \in {"placing", "waiting", "booked"} : at' = [at EXCEPT ![a] = stage]
        /\ of' = of /\ copy' = copy
        /\ card' = card \/ card' = [card EXCEPT ![of[a]] = "approving"]
    BY <1>5 DEF Commit, Placed, Booked
  <2>2. InHand' => InHand
    BY <1>1, <2>1 DEF InHand
  <2> QED BY <1>1, <1>2, <1>3, <2>1, <2>2 DEF HeldInv
<1>6. CASE Refused(a) \/ Rejected(a) \/ Silent(a) \/ Unfilled(a) \/ Unsettled(a) \/ Flattened(a)
           \/ Executed(a)
  BY <1>3, <1>4, <1>6 DEF Refused, Rejected, Silent, Unfilled, Unsettled, Flattened, Executed
<1> QED BY <1>5, <1>6 DEF Decide

(* A step of the desk or the trigger publishes no card and loses none: it    *)
(* moves those that exist, and callers come for one that exists.             *)
LEMMA DeskHolds ==
  ASSUME TypeInv, HeldInv,
         Operator \/ Reconcile \/ AutoStep \/ \E c \in Card : Sold(c) \/ Wait(c)
  PROVE  /\ \A c \in Card : card'[c] # card[c] => card[c] # "none" /\ card'[c] # "none"
         /\ \A b \in Caller : at'[b] # "idle" =>
              \/ at[b] # "idle" /\ of'[b] = of[b]
              \/ of'[b] \in Card /\ card[of'[b]] # "none"
         /\ InHand' => copy' # "none"
<1> DEFINE Goal ==
      /\ \A c \in Card : card'[c] # card[c] => card[c] # "none" /\ card'[c] # "none"
      /\ \A b \in Caller : at'[b] # "idle" =>
           \/ at[b] # "idle" /\ of'[b] = of[b]
           \/ of'[b] \in Card /\ card[of'[b]] # "none"
      /\ InHand' => copy' # "none"
<1>1. /\ card \in [Card -> CardStatus] /\ at \in [Caller -> Seat]
      /\ of \in [Caller -> Card \union {NoCard}] /\ "auto" \in Caller
  BY DEF TypeInv, TypeOK, CardsTypeOK
<1>2. InHand => of["auto"] \in Card /\ card[of["auto"]] # "none" /\ copy # "none"
  BY <1>1 DEF InHand, TypeInv, Owned, HeldInv
<1>3. ASSUME UNCHANGED <<at, of, copy>>,
             \A c \in Card : card'[c] # card[c] => card[c] # "none" /\ card'[c] # "none"
      PROVE  Goal
  BY <1>3 DEF HeldInv, InHand
<1>4. ASSUME NEW a \in Caller, NEW c \in Card, Approve(a, c) PROVE Goal
  <2>1. /\ at' = [at EXCEPT ![a] = "gates"] /\ of' = [of EXCEPT ![a] = c]
        /\ card[c] = "awaiting" /\ UNCHANGED <<card, copy>>
    BY <1>4 DEF Approve
  <2>2. InHand' => InHand
    BY <1>1, <2>1 DEF InHand
  <2> QED BY <1>1, <2>1, <2>2 DEF HeldInv
<1>5. ASSUME NEW c \in Card, Dismiss(c) PROVE Goal
  BY <1>1, <1>3, <1>5 DEF Dismiss
<1>6. CASE ReleaseStale
  <2>1. PICK S \in SUBSET {d \in Card : card[d] = "approving"} :
          card' = [d \in Card |->
                     LET s == IF d \in S THEN "awaiting" ELSE card[d]
                     IN  IF s = "awaiting" /\ PositionOpen THEN "dead" ELSE s]
    BY <1>6 DEF ReleaseStale
  <2> QED BY <1>3, <1>6, <2>1 DEF ReleaseStale
<1>7. CASE TurnedAway
  <2> DEFINE c == Head(queue)
  <2>1. c \in Card /\ card[c] = "awaiting"
    BY <1>7, TailType DEF TurnedAway, TypeInv, TypeOK
  <2>2. PICK out \in {"retry", "terminal"} : Afterwards(c, out, "awaiting")
    BY <1>7 DEF TurnedAway
  <2>3. of' = [of EXCEPT !["auto"] = c]
    BY <1>7 DEF TurnedAway
  <2> HIDE DEF c
  <2>4. /\ \E left \in {"awaiting", "dead"}, stage \in {"writing", "audit"} :
             /\ card' = [card EXCEPT ![c] = left]
             /\ at' = [at EXCEPT !["auto"] = stage]
             /\ stage = "writing" => copy' = left
    BY <2>2 DEF Afterwards
  <2> QED BY <1>1, <2>1, <2>3, <2>4 DEF InHand
<1>8. CASE Conclude \/ ((WriteBack \/ ClearRetry) /\ UNCHANGED trigger)
  <2>1. /\ \E stage \in {"idle", "audit", "clearing"} : at' = [at EXCEPT !["auto"] = stage]
        /\ \A b \in Caller : b # "auto" => at'[b] = at[b] /\ of'[b] = of[b]
        /\ at["auto"] # "idle" /\ (at'["auto"] # "idle" => of' = of)
    BY <1>1, <1>8 DEF Conclude, WriteBack, ClearRetry
  <2>2. card' = card \/ (InHand /\ WrittenBack)
    BY <1>8 DEF Conclude, WriteBack, ClearRetry, InHand
  <2>3. \A c \in Card : card'[c] # card[c] => card[c] # "none" /\ card'[c] # "none"
    BY <1>1, <1>2, <2>2 DEF WrittenBack
  <2>4. InHand' => copy' # "none"
    <3>1. CASE ClearRetry
      <4>1. of["auto"] \in Card /\ card[of["auto"]] # "none" /\ copy' = card[of["auto"]]
        BY <1>1, <3>1 DEF ClearRetry, TypeInv, Owned, HeldInv
      <4> QED BY <4>1
    <3>2. CASE Conclude \/ WriteBack
      BY <1>1, <3>2 DEF Conclude, WriteBack, InHand
    <3> QED BY <1>8, <3>1, <3>2
  <2> QED BY <1>1, <2>1, <2>3, <2>4
<1>9. CASE Toggle \/ PassOver \/ \E c \in Card : Dispatch(c)
  BY <1>3, <1>9 DEF Toggle, PassOver, Dispatch, cards
<1>10. CASE PickUp
  <2>1. Head(queue) \in Card
    BY <1>10, TailType DEF PickUp, TypeInv, TypeOK
  <2> QED BY <1>1, <1>4, <1>10, <2>1 DEF PickUp
<1>11. CASE \E c \in Card : Sold(c) \/ Wait(c) \/ Reconciled(c)
  BY <1>3, <1>11 DEF Sold, Close, Wait, CoolDown, Reconciled
<1>12. CASE Operator
  BY <1>4, <1>5, <1>12 DEF Operator
<1>13. CASE Reconcile
  BY <1>6, <1>11, <1>13 DEF Reconcile
<1>14. CASE AutoStep
  BY <1>7, <1>8, <1>9, <1>10, <1>14 DEF AutoStep, Trigger, Serve
<1> QED BY <1>11, <1>12, <1>13, <1>14

(* Nobody but publish_orb makes a card that did not exist, and it is linked  *)
(* to its slot, for the plan the slot has.                                   *)
LEMMA OnlyPublished ==
  ASSUME TypeInv, HeldInv, [Next]_vars, NEW d \in Card,
         card[d] = "none", card'[d] # "none"
  PROVE  \E e \in Evaluator : /\ Publish(e) /\ ~Claimed /\ planOf'[d] = ev[e].plan
                             /\ slot' = [slot EXCEPT !.opp = d]
<1>1. card \in [Card -> CardStatus] /\ planOf \in [Card -> Plan]
  BY DEF TypeInv, TypeOK, CardsTypeOK, SessionTypeOK
<1>2. card' # card /\ card' # Retired
  BY RetiredType DEF TypeInv, TypeOK
<1>3. CASE UNCHANGED vars \/ Market \/ Crash
  BY <1>2, <1>3 DEF vars, Market, Confirm, Crash, cards
<1>4. CASE Writers
  BY <1>2, <1>4 DEF Writers, Select, RestoreInstrument, Rollout, cards
<1>5. CASE Operator \/ Reconcile \/ AutoStep \/ \E c \in Card : Sold(c) \/ Wait(c)
  BY <1>5, DeskHolds
<1>6. ASSUME NEW a \in Caller, Attempt(a) PROVE FALSE
  <2>1. d = of[a] /\ at[a] # "idle"
    BY <1>6, DecideHolds DEF Attempt, Decide, Refused, Commit, Placed, Rejected, Silent, Unfilled,
                             Unsettled, Flattened, Booked, Executed
  <2> QED BY <2>1 DEF HeldInv
<1>7. ASSUME NEW e \in Evaluator, Watch(e) \/ CutOff(e) \/ EnqueuePublished(e)
      PROVE  /\ Publish(e) /\ ~Claimed /\ planOf'[d] = ev[e].plan
             /\ slot' = [slot EXCEPT !.opp = d]
  <2>1. CASE Publish(e)
    <3>1. ~Claimed
      BY <1>2, <2>1 DEF Publish
    <3>2. PICK c \in Fresh : /\ card' = [card EXCEPT ![c] = "awaiting"]
                             /\ planOf' = [planOf EXCEPT ![c] = ev[e].plan]
                             /\ slot' = [slot EXCEPT !.opp = c]
      <4>1. Fresh # {} => (CHOOSE x \in Fresh : TRUE) \in Fresh
        OBVIOUS
      <4> QED BY <2>1, <3>1, <4>1 DEF Publish
    <3>3. c = d
      BY <1>1, <3>2
    <3> QED BY <1>1, <2>1, <3>1, <3>2, <3>3
  <2> QED BY <1>2, <1>7, <2>1 DEF Watch, CutOff, Evaluate, Begin, RearmRead, RearmCommit,
                 Refresh, ReadLinked, MarkReset, Rebuild, Replace, Reread, Invalidate, Decline,
                 Admit, PublishRefused, Timeout, EnqueuePublished, KeepsRows, cards
<1> QED BY <1>3, <1>4, <1>5, <1>6, <1>7 DEF Next

(* A card that was published stays so, and keeps its plan.                   *)
LEMMA StaysPublished ==
  ASSUME TypeInv, HeldInv, [Next]_vars
  PROVE  \A c \in Card : card[c] # "none" => card'[c] # "none" /\ planOf'[c] = planOf[c]
<1>1. card \in [Card -> CardStatus] /\ planOf \in [Card -> Plan]
  BY DEF TypeInv, TypeOK, CardsTypeOK, SessionTypeOK
<1>2. CASE UNCHANGED planOf /\ \A c \in Card : card'[c] # card[c] => card'[c] # "none"
  BY <1>2
<1>3. CASE UNCHANGED planOf /\ (card' = card \/ card' = Retired)
  BY <1>2, <1>3, RetiredType DEF TypeInv, TypeOK
<1>4. ASSUME NEW a \in Caller, Attempt(a)
      PROVE  UNCHANGED planOf /\ \A c \in Card : card'[c] # card[c] => card'[c] # "none"
  BY <1>4, DecideHolds DEF Attempt, session
<1>5. CASE Operator \/ Reconcile \/ AutoStep \/ \E c \in Card : Sold(c) \/ Wait(c)
  <2>1. UNCHANGED planOf
    BY <1>5 DEF Operator, Reconcile, AutoStep, Hits, Sold, Close, Wait, session
  <2> QED BY <1>2, <1>5, <2>1, DeskHolds
<1>6. CASE Writers \/ Market \/ Crash \/ UNCHANGED vars
  BY <1>3, <1>6 DEF Writers, Select, RestoreInstrument, Rollout, Market, Confirm, Crash, vars,
                    session, cards
<1>7. ASSUME NEW e \in Evaluator, Watch(e) \/ CutOff(e) \/ EnqueuePublished(e)
      PROVE  \A c \in Card : card[c] # "none" => card'[c] # "none" /\ planOf'[c] = planOf[c]
  <2>1. CASE Publish(e) /\ ~Claimed
    <3>1. PICK d \in Fresh : /\ card' = [card EXCEPT ![d] = "awaiting"]
                             /\ planOf' = [planOf EXCEPT ![d] = ev[e].plan]
      <4>1. Fresh # {} => (CHOOSE x \in Fresh : TRUE) \in Fresh
        OBVIOUS
      <4> QED BY <2>1, <4>1 DEF Publish
    <3> QED BY <1>1, <3>1 DEF Fresh
  <2>2. CASE UNCHANGED planOf /\ (card' = card \/ card' = Retired)
    BY <1>3, <2>2
  <2> QED BY <1>7, <2>1, <2>2 DEF Watch, CutOff, Evaluate, Begin, RearmRead, RearmCommit, Refresh,
                 ReadLinked, MarkReset, Rebuild, Replace, Reread, Invalidate, Decline, Admit,
                 Publish, PublishRefused, Timeout, EnqueuePublished, KeepsRows, cards
<1> QED BY <1>4, <1>5, <1>6, <1>7, <1>2 DEF Next

(* Every step keeps what is held.                                           *)
LEMMA HeldStep == TypeInv /\ HeldInv /\ [Next]_vars => HeldInv'
<1> SUFFICES ASSUME TypeInv, HeldInv, [Next]_vars PROVE HeldInv'
  OBVIOUS
<1>1. \A b \in Caller : at[b] # "idle" => of[b] \in Card
  BY DEF TypeInv, TypeOK, CardsTypeOK, Owned
<1>2. \A c \in Card : card[c] # "none" => card'[c] # "none"
  BY StaysPublished
<1>3. ASSUME \A b \in Caller : at'[b] # "idle" =>
               \/ at[b] # "idle" /\ of'[b] = of[b]
               \/ of'[b] \in Card /\ card[of'[b]] # "none",
             InHand' => copy' # "none"
      PROVE  HeldInv'
  BY <1>1, <1>2, <1>3 DEF HeldInv
<1>4. CASE UNCHANGED <<at, of, copy>>
  BY <1>3, <1>4 DEF HeldInv, InHand
<1>5. ASSUME NEW a \in Caller, Attempt(a) PROVE HeldInv'
  BY <1>3, <1>5, DecideHolds DEF Attempt
<1>6. CASE Operator \/ Reconcile \/ AutoStep \/ \E c \in Card : Sold(c) \/ Wait(c)
  BY <1>3, <1>6, DeskHolds
<1>7. CASE Crash
  <2>1. "auto" \in Caller
    OBVIOUS
  <2> QED BY <1>7, <2>1 DEF Crash, HeldInv, InHand
<1>8. CASE Writers \/ Market \/ UNCHANGED vars
  BY <1>4, <1>8 DEF Writers, Select, RestoreInstrument, Rollout, Market, Confirm, vars, cards
<1>9. ASSUME NEW e \in Evaluator, Watch(e) \/ CutOff(e) \/ EnqueuePublished(e) PROVE HeldInv'
  <2>1. UNCHANGED <<at, of, copy>>
    BY <1>9 DEF Watch, CutOff, Evaluate, Begin, RearmRead, RearmCommit, Refresh, ReadLinked,
                MarkReset, Rebuild, Replace, Reread, Invalidate, Decline, Admit, Publish,
                PublishRefused, Timeout, EnqueuePublished, KeepsRows, cards
  <2> QED BY <1>4, <2>1
<1> QED BY <1>5, <1>6, <1>7, <1>8, <1>9 DEF Next

(* What a step of an evaluator, or of a writer, makes of the slot: it keeps  *)
(* link and plan; or it retires the card of a claim that no attempt has      *)
(* committed; or the claim is a trade that closed; or a card is published.   *)
LEMMA SlotStep ==
  ASSUME TypeInv, PlanInv, [Next]_vars, slot' # slot
  PROVE  /\ slot.plan.base # 0 => slot'.plan.base # 0
         /\ slot.plan.base = 0 => slot'.plan.base # 0
         /\ \/ slot'.opp = slot.opp /\ slot'.plan = slot.plan
            \/ slot.opp = NoCard
            \/ card' = Retired /\ card[slot.opp] # "approving"
            \/ TradeClosed
<1> DEFINE Goal ==
      /\ slot'.plan.base # 0
      /\ \/ slot'.opp = slot.opp /\ slot'.plan = slot.plan
         \/ slot.opp = NoCard
         \/ card' = Retired /\ card[slot.opp] # "approving"
         \/ TradeClosed
<1> SUFFICES Goal
  OBVIOUS
<1>1. /\ slot \in Slot /\ slot.plan \in Plan /\ slot.plan.base \in Nat /\ made \in Nat
      /\ slot.opp \in Card \union {NoCard}
  <2>1. budget \in [overlap : Nat, setups : Nat, mishaps : Nat, late : BOOLEAN,
                    revisions : Nat]
    BY DEF TypeInv, TypeOK, SessionTypeOK
  <2> QED BY <2>1 DEF TypeInv, TypeOK, SessionTypeOK, Slot, Plan
<1>2. CASE Market \/ Operator \/ Reconcile \/ AutoStep \/ Crash \/ UNCHANGED vars
  BY <1>2 DEF Market, Confirm, Operator, Reconcile, AutoStep, Hits, Crash, vars, session
<1>3. ASSUME NEW c \in Card, Sold(c) \/ Wait(c) PROVE FALSE
  BY <1>3 DEF Sold, Close, Wait, session
<1>4. ASSUME NEW a \in Caller, Attempt(a) PROVE FALSE
  BY <1>4 DEF Attempt, session
<1>5. CASE Select
  <2>1. slot.opp = NoCard /\ slot'.plan.base = 1
    BY <1>1, <1>5 DEF Select, PlanInv, Slot, Plan
  <2> QED BY <2>1
<1>6. CASE RestoreInstrument
  <2>1. slot.opp = NoCard /\ slot'.plan.base = slot.plan.base + 1
    BY <1>1, <1>6 DEF RestoreInstrument, Claimed, Slot, Plan
  <2> QED BY <1>1, <2>1
<1>7. CASE Rollout
  <2>1. /\ slot' = Rearmed([base |-> slot.plan.base + 1, setup |-> 0], 0)
        /\ card' = Retired /\ (Claimed => card[slot.opp] = "awaiting")
    BY <1>7 DEF Rollout
  <2>2. [base |-> slot.plan.base + 1, setup |-> 0] \in Plan /\ 0 \in 0..made
    BY <1>1 DEF Plan
  <2>3. slot'.plan = [base |-> slot.plan.base + 1, setup |-> 0]
    BY <1>1, <2>1, <2>2, RearmedType
  <2> QED BY <1>1, <2>1, <2>3 DEF Claimed
<1>8. ASSUME NEW e \in Evaluator, Watch(e) \/ CutOff(e) \/ EnqueuePublished(e) PROVE Goal
  <2>1. CASE Begin(e) \/ EnqueuePublished(e)
    BY <2>1 DEF Begin, EnqueuePublished, KeepsRows
  <2>2. CASE ~Begin(e) /\ ~EnqueuePublished(e)
    <3>1. ev[e].at # "idle"
      BY <1>8, <2>2 DEF Watch, CutOff, Evaluate, RearmRead, RearmCommit, Refresh, ReadLinked,
                  MarkReset, Rebuild, Replace, Reread, Invalidate, Decline, Admit, Publish,
                  PublishRefused, Timeout, Step
    <3>2. slot.plan.base # 0
      BY <3>1 DEF PlanInv
    <3>3. CASE RearmCommit(e)
      <4>1. /\ TradeClosed
            /\ slot' = [Rearmed([base |-> slot.plan.base + 1, setup |-> 0],
                                closedAt[slot.opp]) EXCEPT !.reset = NoCard]
        BY <3>3 DEF RearmCommit
      <4>2. /\ [base |-> slot.plan.base + 1, setup |-> 0] \in Plan
            /\ closedAt[slot.opp] \in 0..made
        BY <1>1, <4>1, Parts DEF Plan, TradeClosed, Claimed
      <4>3. slot'.plan = [base |-> slot.plan.base + 1, setup |-> 0]
        BY <1>1, <4>1, <4>2, RearmedType DEF Slot
      <4> QED BY <1>1, <4>1, <4>3
    <3>4. CASE MarkReset(e)
      <4>1. slot'.opp = slot.opp /\ slot'.plan = slot.plan
        BY <1>1, <3>4 DEF MarkReset, Slot
      <4> QED BY <3>2, <4>1
    <3>5. ASSUME NEW plan \in Plan, NEW after \in 0..made, plan.base = slot.plan.base,
                 Replaceable, slot' = Rearmed(plan, after), card' = Retired
          PROVE  Goal
      <4>1. slot'.plan = plan
        BY <1>1, <3>5, RearmedType
      <4>2. slot.opp # NoCard => card[slot.opp] # "approving"
        BY <3>5 DEF Replaceable, Claimed
      <4> QED BY <3>2, <3>5, <4>1, <4>2
    <3>6. CASE Replace(e)
      <4> DEFINE plan == [ev[e].plan EXCEPT !.setup = ev[e].next]
      <4>1. plan \in Plan /\ plan.base = ev[e].plan.base
        BY Parts DEF Plan
      <4>2. /\ slot.plan = ev[e].plan /\ Replaceable
            /\ slot' = Rearmed(plan, ev[e].after) /\ card' = Retired
        BY <3>6 DEF Replace
      <4> HIDE DEF plan
      <4> QED BY <3>5, <4>1, <4>2, Parts
    <3>7. CASE Invalidate(e)
      <4> DEFINE plan == [ev[e].plan EXCEPT !.setup = 0]
      <4>1. plan \in Plan /\ plan.base = ev[e].plan.base /\ made \in 0..made
        BY Parts DEF Plan
      <4>2. /\ slot.plan = ev[e].plan /\ Replaceable
            /\ slot' = Rearmed(plan, made) /\ card' = Retired
        BY <3>7 DEF Invalidate
      <4> HIDE DEF plan
      <4> QED BY <3>5, <4>1, <4>2
    <3>8. CASE Publish(e)
      <4>1. ~Claimed /\ \E c : slot' = [slot EXCEPT !.opp = c]
        BY <3>8 DEF Publish
      <4>2. slot'.plan = slot.plan
        BY <1>1, <4>1 DEF Slot
      <4> QED BY <3>2, <4>1, <4>2 DEF Claimed
    <3> QED BY <1>8, <2>2, <3>3, <3>4, <3>6, <3>7, <3>8
            DEF Watch, CutOff, Evaluate, RearmRead, Refresh, ReadLinked, Rebuild, Reread, Decline,
                Admit, PublishRefused, Timeout, KeepsRows
  <2> QED BY <2>1, <2>2
<1> QED BY <1>2, <1>3, <1>4, <1>5, <1>6, <1>7, <1>8 DEF Next, Writers

(* Every step leaves a slot without a plan alone, but Select.               *)
LEMMA PlanStep == TypeInv /\ PlanInv /\ [Next]_vars => PlanInv'
<1> SUFFICES ASSUME TypeInv, PlanInv, [Next]_vars PROVE PlanInv'
  OBVIOUS
<1>1. CASE slot' # slot
  <2>1. slot'.plan.base # 0
    BY <1>1, SlotStep
  <2> QED BY <2>1 DEF PlanInv
<1>2. CASE slot' = slot /\ slot.plan.base # 0
  BY <1>2 DEF PlanInv
<1>3. CASE slot' = slot /\ slot.plan.base = 0
  <2>1. slot.opp = NoCard /\ \A e \in Evaluator : ev[e].at = "idle"
    BY <1>3 DEF PlanInv
  <2>2. CASE ev' = ev
    BY <1>3, <2>1, <2>2 DEF PlanInv
  <2>3. CASE Crash
    BY <1>3, <2>1, <2>3 DEF Crash, Idle, PlanInv
  <2>4. ASSUME NEW e \in Evaluator, Watch(e) \/ CutOff(e) \/ EnqueuePublished(e) PROVE FALSE
    BY <1>3, <2>1, <2>4 DEF Watch, CutOff, Evaluate, Begin, RearmRead, RearmCommit, Refresh,
                ReadLinked, MarkReset, Rebuild, Replace, Reread, Invalidate, Decline, Admit,
                Publish, PublishRefused, Timeout, EnqueuePublished, Step
  <2>5. CASE UNCHANGED vars \/ Market \/ Writers \/ Operator \/ Reconcile \/ AutoStep
    BY <2>2, <2>5 DEF vars, Market, Confirm, Writers, Select, RestoreInstrument, Rollout,
                      Operator, Reconcile, AutoStep, Hits, session
  <2>6. ASSUME NEW c \in Card, Sold(c) \/ Wait(c) PROVE PlanInv'
    BY <2>2, <2>6 DEF Sold, Close, Wait, session
  <2>7. ASSUME NEW a \in Caller, Attempt(a) PROVE PlanInv'
    BY <2>2, <2>7 DEF Attempt, session
  <2> QED BY <2>3, <2>4, <2>5, <2>6, <2>7 DEF Next
<1> QED BY <1>1, <1>2, <1>3

(* Both hold at first.                                                       *)
LEMMA HeldInit == Init => HeldInv /\ PlanInv
<1> SUFFICES ASSUME Init PROVE HeldInv /\ PlanInv
  OBVIOUS
<1>1. \A a \in Caller : at[a] = "idle"
  BY DEF Init, CardsInit
<1>2. slot.opp = NoCard /\ \A e \in Evaluator : ev[e].at = "idle"
  BY DEF Init, SessionInit, Idle
<1>3. "auto" \in Caller
  OBVIOUS
<1> QED BY <1>1, <1>2, <1>3 DEF HeldInv, PlanInv, InHand

(* So they hold of every state.                                             *)
LEMMA DeskHeld == Spec => []HeldInv /\ []PlanInv
<1>1. Spec => []HeldInv
  BY HeldInit, HeldStep, DeskTypeInv, PTL DEF Spec
<1>2. Spec => []PlanInv
  BY HeldInit, PlanStep, DeskTypeInv, PTL DEF Spec
<1> QED BY <1>1, <1>2, PTL

(* A card is published as the one its slot links to, for the plan the slot   *)
(* has; and while it lives the slot turns to another plan or card only in a  *)
(* step that retires it.                                                     *)
LEMMA LiveStep ==
  ASSUME TypeInv, HeldInv, PlanInv, [Next]_vars, NEW c \in Card,
         card[c] = "none" \/ (Live(c) /\ Current(c)), Live(c)'
  PROVE  Current(c)'
<1>1. card \in [Card -> CardStatus] /\ slot \in Slot
  BY DEF TypeInv, TypeOK, CardsTypeOK, SessionTypeOK
<1>2. CASE card[c] = "none"
  <2>1. PICK e \in Evaluator : /\ Publish(e) /\ ~Claimed /\ planOf'[c] = ev[e].plan
                              /\ slot' = [slot EXCEPT !.opp = c]
    BY <1>2, OnlyPublished DEF Live
  <2>2. slot'.opp = c /\ slot'.plan = slot.plan
    BY <1>1, <2>1 DEF Slot
  <2>3. slot.plan = ev[e].plan
    BY <2>1 DEF Publish, Publishable
  <2> QED BY <2>1, <2>2, <2>3 DEF Current
<1>3. CASE Live(c) /\ Current(c)
  <2>1. slot.opp = c /\ c # NoCard /\ planOf[c] = slot.plan /\ card[c] \in {"awaiting", "approving"}
    BY <1>3 DEF Live, Current
  <2>2. planOf'[c] = planOf[c]
    BY <2>1, StaysPublished
  <2>3. ~TradeClosed
    BY <2>1 DEF TradeClosed
  <2>4. ~(card' = Retired /\ card[slot.opp] # "approving")
    <3>1. Retired[c] = IF card[c] = "awaiting" THEN "dead" ELSE card[c]
      BY <2>1, RetiredType DEF TypeInv, TypeOK
    <3> QED BY <2>1, <3>1 DEF Live
  <2>5. slot'.opp = slot.opp /\ slot'.plan = slot.plan
    BY <2>1, <2>3, <2>4, SlotStep
  <2> QED BY <2>1, <2>2, <2>5 DEF Current
<1> QED BY <1>2, <1>3

(* A card that can be approved, or is being bought, is published as the one  *)
(* its slot links to, for the plan the slot has, and stays so while it lives *)
(* (publish_orb, replace_unclaimed_plan, the rollout): only a card that is   *)
(* written back from the dead lives for a plan that has gone.                *)
THEOREM LiveCardsStayCurrent == Spec => LiveCardStaysCurrent
<1>1. TypeInv /\ HeldInv /\ PlanInv /\ [Next]_vars =>
        [\A c \in Card :
           (card[c] = "none" \/ (Live(c) /\ Current(c))) /\ Live(c)' => Current(c)']_vars
  BY LiveStep
<1> QED BY <1>1, DeskHeld, DeskTypeInv, PTL DEF Spec, LiveCardStaysCurrent

-----------------------------------------------------------------------------
(* A claim that has executed.                                                *)

(* A slot turns from an executed card only once its position is closed.     *)
LEMMA ClaimStep ==
  ASSUME TypeInv, [Next]_vars, NEW c \in Card,
         slot.opp = c, card[c] = "executed", slot'.opp # c
  PROVE  pos[c] = "closed"
<1>1. Claimed /\ ~Replaceable /\ slot \in Slot
  BY DEF Claimed, Replaceable, TypeInv, TypeOK, SessionTypeOK
<1>2. slot' # slot
  OBVIOUS
<1>3. \A b : [slot EXCEPT !.plan.base = b].opp = slot.opp
  BY <1>1 DEF Slot
<1>4. \A a, r : [slot EXCEPT !.after = a, !.reset = r].opp = slot.opp
  BY <1>1 DEF Slot
<1>5. CASE UNCHANGED vars
  BY <1>2, <1>5 DEF vars, session
<1>6. CASE Market \/ Operator \/ Reconcile \/ AutoStep \/ Crash
  BY <1>2, <1>6 DEF Market, Confirm, Operator, Reconcile, AutoStep, Hits, Crash, session
<1>7. CASE Writers
  BY <1>1, <1>2, <1>3, <1>7 DEF Writers, Select, RestoreInstrument, Rollout, Slot, Plan
<1>8. ASSUME NEW d \in Card, Sold(d) \/ Wait(d) PROVE FALSE
  BY <1>2, <1>8 DEF Sold, Close, Wait, session
<1>9. ASSUME NEW a \in Caller, Attempt(a) PROVE FALSE
  BY <1>2, <1>9 DEF Attempt, session
<1>10. ASSUME NEW e \in Evaluator, Watch(e) \/ CutOff(e) \/ EnqueuePublished(e)
       PROVE  pos[c] = "closed"
  <2>1. CASE RearmCommit(e)
    BY <1>2, <2>1 DEF RearmCommit, TradeClosed
  <2>2. CASE MarkReset(e)
    BY <1>4, <2>2 DEF MarkReset
  <2>3. CASE Replace(e) \/ Invalidate(e) \/ Publish(e)
    BY <1>1, <1>2, <2>3 DEF Replace, Invalidate, Publish
  <2>4. CASE \/ Begin(e) \/ RearmRead(e) \/ Refresh(e) \/ ReadLinked(e) \/ Rebuild(e)
             \/ Reread(e) \/ Decline(e) \/ Admit(e) \/ PublishRefused(e) \/ Timeout(e)
             \/ EnqueuePublished(e)
    BY <1>2, <2>4 DEF Begin, RearmRead, Refresh, ReadLinked, Rebuild, Reread, Decline, Admit,
                      PublishRefused, Timeout, EnqueuePublished, KeepsRows
  <2> QED BY <1>10, <2>1, <2>2, <2>3, <2>4 DEF Watch, CutOff, Evaluate
<1> QED BY <1>5, <1>6, <1>7, <1>8, <1>9, <1>10 DEF Next

(* The slot of a card that was bought is given to another plan only when its *)
(* position is closed, whatever an evaluator read before (rearm_closed_trade *)
(* and replace_unclaimed_plan look at the rows again).                       *)
THEOREM ExecutedClaimsAreKept == Spec => ExecutedClaimIsKept
<1>1. TypeInv /\ [Next]_vars =>
        [\A c \in Card : slot.opp = c /\ card[c] = "executed" /\ slot.opp' # c
                           => pos[c] = "closed"]_vars
  BY ClaimStep
<1> QED BY <1>1, DeskTypeInv, PTL DEF Spec, ExecutedClaimIsKept

-----------------------------------------------------------------------------
(* Spent setups.  With one evaluator at work, what it read of the marks in   *)
(* the slot is still so when it writes; and the setup of a slot is gone, or  *)
(* newer than the one of the dead card it is marked for.                     *)
Published(c) == c \in Card => card[c] # "none"

Marking == {"rearm", "recommit", "linked", "mark"}
Reading == Marking \union {"rebuild", "replace"}

(* What is marked: the setup of the dead card lies before retest_after.      *)
MarkHolds ==
  slot.reset # NoCard =>
    /\ planOf[slot.reset].setup <= slot.after
    /\ slot.opp # slot.reset =>
         slot.plan.setup = 0 \/ slot.plan.setup > planOf[slot.reset].setup

(* What an evaluator that runs alone knows.                                  *)
Knows(e) ==
  /\ ev[e].at \in Reading => ev[e].after = slot.after
  /\ ev[e].at \in Marking => slot.opp = ev[e].opp \/ slot.plan.setup = 0
  /\ ev[e].at = "replace" => ev[e].next = 0 \/ ev[e].next > slot.after

Links(e) == Published(ev[e].opp) /\ (ev[e].at = "publish" => ev[e].plan.setup # 0)

SpentInv ==
  /\ Published(slot.opp) /\ Published(slot.reset)
  /\ \A e \in Evaluator : Links(e)
  /\ budget.overlap = 1 =>
       /\ \A e, f \in Evaluator : ev[e].at # "idle" /\ ev[f].at # "idle" => e = f
       /\ MarkHolds
       /\ \A e \in Evaluator : Knows(e)

(* A step of one evaluator: what it links to is published, and when it runs  *)
(* alone, the marks hold after it and it knows them.                         *)
LEMMA SpentEval ==
  ASSUME SpentInv, NEW e \in Evaluator, budget' = budget,
         \A f \in Evaluator : f # e => ev'[f] = ev[f],
         \A c \in Card : card[c] # "none" => card'[c] # "none",
         Published(slot.opp)', Published(slot.reset)', Links(e)',
         budget.overlap = 1 =>
           /\ \A f \in Evaluator : f # e => ev[f].at = "idle"
           /\ MarkHolds' /\ Knows(e)'
  PROVE  SpentInv'
<1>1. \A f \in Evaluator : f # e => Links(f)'
  BY DEF SpentInv, Links, Published
<1>2. ASSUME budget.overlap = 1
      PROVE  /\ \A f, g \in Evaluator : ev'[f].at # "idle" /\ ev'[g].at # "idle" => f = g
             /\ \A f \in Evaluator : Knows(f)'
  <2>1. \A f \in Evaluator : f # e => ev'[f].at = "idle"
    BY <1>2
  <2>2. \A f \in Evaluator : f # e => Knows(f)'
    BY <2>1 DEF Knows, Marking, Reading
  <2> QED BY <1>2, <2>1, <2>2
<1> QED BY <1>1, <1>2 DEF SpentInv

(* Steps that change neither the slot's marks nor an evaluator.              *)
LEMMA SpentFrame ==
  ASSUME SpentInv, UNCHANGED <<budget, ev>>,
         \A c \in Card : card[c] # "none" => card'[c] # "none" /\ planOf'[c] = planOf[c],
         slot.reset \in Card \union {NoCard},
         slot'.after = slot.after, slot'.reset = slot.reset,
         \/ slot'.opp = slot.opp /\ slot'.plan.setup = slot.plan.setup
         \/ slot'.opp = NoCard /\ slot'.plan.setup = 0
  PROVE  SpentInv'
<1>1. Published(slot.opp)' /\ Published(slot.reset)' /\ \A e \in Evaluator : Links(e)'
  BY DEF SpentInv, Links, Published
<1>2. slot.reset # NoCard => planOf'[slot.reset] = planOf[slot.reset]
  BY DEF SpentInv, Published
<1>3. ASSUME budget.overlap = 1 PROVE MarkHolds'
  BY <1>2, <1>3 DEF SpentInv, MarkHolds
<1>4. ASSUME budget.overlap = 1, NEW e \in Evaluator PROVE Knows(e)'
  BY <1>4 DEF SpentInv, Knows
<1> QED BY <1>1, <1>3, <1>4 DEF SpentInv

(* An evaluator begins only when no other is at work.                        *)
LEMMA BeginsAlone ==
  ASSUME TypeInv, NEW e \in Evaluator, Begin(e), budget.overlap = 1
  PROVE  \A f \in Evaluator : ev[f].at = "idle"
<1>1. Cardinality(Busy) < 1 /\ Busy \subseteq Evaluator
  BY DEF Begin, Busy
<1>2. IsFiniteSet(Busy)
  BY <1>1, FS_Subset
<1>3. Cardinality(Busy) \in Nat
  BY <1>2, FS_CardinalityType
<1>4. Cardinality(Busy) = 0
  BY <1>1, <1>3
<1>5. Busy = {}
  BY <1>2, <1>4, FS_EmptySet
<1> QED BY <1>5 DEF Busy

(* The evaluator reads, decides or gives up.                                 *)
LEMMA ReadSpent ==
  ASSUME TypeInv, SpentInv, NEW e \in Evaluator, UNCHANGED <<slot, budget>>,
         \A c \in Card : card[c] # "none" => card'[c] # "none" /\ planOf'[c] = planOf[c],
         \/ Begin(e) \/ RearmRead(e) \/ Refresh(e) \/ ReadLinked(e) \/ Rebuild(e)
         \/ Reread(e) \/ Decline(e) \/ Admit(e) \/ PublishRefused(e) \/ Timeout(e)
         \/ EnqueuePublished(e) \/ (RearmCommit(e) /\ Goto(e, "linked"))
         \/ (Done(e) /\ ev[e].at # "idle")
  PROVE  SpentInv'
<1>1. /\ ev[e] \in Snapshot /\ slot.reset \in Card \union {NoCard}
      /\ ev = [f \in Evaluator |-> ev[f]] /\ Links(e)
  BY Parts DEF SpentInv
<1>2. Published(slot.opp)' /\ Published(slot.reset)'
  BY DEF SpentInv, Published
<1>3. budget.overlap = 1 => MarkHolds'
  BY <1>1 DEF SpentInv, Published, MarkHolds
<1>4. budget.overlap = 1 => \A f \in Evaluator : f # e => ev[f].at = "idle"
  <2>1. CASE Begin(e)
    BY <2>1, BeginsAlone
  <2>2. CASE ~Begin(e)
    BY <2>2 DEF SpentInv, RearmRead, Refresh, ReadLinked, Rebuild, Reread, Decline, Admit,
                PublishRefused, Timeout, EnqueuePublished, RearmCommit, Step
  <2> QED BY <2>1, <2>2
<1>5. ASSUME \A f \in Evaluator : f # e => ev'[f] = ev[f], Links(e)',
             budget.overlap = 1 => Knows(e)'
      PROVE  SpentInv'
  BY <1>2, <1>3, <1>4, <1>5, SpentEval
<1>6. budget.overlap = 1 => Knows(e)
  BY DEF SpentInv
<1>7. CASE Done(e)
  <2>1. ev'[e] = Idle /\ \A f \in Evaluator : f # e => ev'[f] = ev[f]
    BY <1>1, <1>7 DEF Done
  <2> QED BY <1>5, <2>1 DEF Links, Published, Knows, Idle, Marking, Reading
<1>8. ASSUME NEW stage, Reads(e, stage), stage \in {"rearm", "rebuild", "linked"} PROVE SpentInv'
  <2>1. \A f \in Evaluator : f # e => ev'[f] = ev[f]
    BY <1>1, <1>8 DEF Reads
  <2>2. /\ ev'[e].at = stage /\ ev'[e].opp = slot.opp /\ ev'[e].after = slot.after
    BY <1>1, <1>8 DEF Reads, Idle
  <2>3. Links(e)'
    BY <1>2, <1>8, <2>2 DEF Links, Published
  <2> QED BY <1>5, <1>8, <2>1, <2>2, <2>3 DEF Knows, Marking, Reading
<1>9. ASSUME NEW stage, Goto(e, stage), stage \in {"recommit", "linked"}, ev[e].at \in Marking
      PROVE  SpentInv'
  <2>1. \A f \in Evaluator : f # e => ev'[f] = ev[f]
    BY <1>1, <1>9 DEF Goto
  <2>2. ev'[e].at = stage /\ ev'[e].opp = ev[e].opp /\ ev'[e].after = ev[e].after
    BY <1>1, <1>9 DEF Goto, Snapshot
  <2>3. Links(e)'
    BY <1>1, <1>9, <2>2 DEF Links, Published
  <2> QED BY <1>5, <1>6, <1>9, <2>1, <2>2, <2>3 DEF Knows, Marking, Reading
<1>10. CASE Begin(e) \/ Refresh(e)
  BY <1>8, <1>10 DEF Begin, Refresh
<1>11. CASE RearmRead(e) \/ (RearmCommit(e) /\ Goto(e, "linked"))
  BY <1>9, <1>11 DEF RearmRead, RearmCommit, Step, Marking
<1>12. CASE ReadLinked(e) /\ ~Done(e)
  <2>1. PICK dead, stage : /\ ev' = [ev EXCEPT ![e].dead = dead, ![e].at = stage]
                           /\ stage \in {"mark", "rebuild"}
    BY <1>12 DEF ReadLinked
  <2>2. \A f \in Evaluator : f # e => ev'[f] = ev[f]
    BY <1>1, <2>1
  <2>3. ev'[e].at = stage /\ ev'[e].opp = ev[e].opp /\ ev'[e].after = ev[e].after
    BY <1>1, <2>1 DEF Snapshot
  <2>4. Links(e)'
    BY <1>1, <2>1, <2>3 DEF Links, Published
  <2>5. ev[e].at = "linked"
    BY <1>12 DEF ReadLinked, Step
  <2> QED BY <1>5, <1>6, <2>1, <2>2, <2>3, <2>4, <2>5 DEF Knows, Marking, Reading
<1>13. CASE Rebuild(e)
  <2>1. PICK n \in {0} \union {x \in {made} : x > ev[e].after} :
          ev' = [ev EXCEPT ![e] = IF n # ev[e].plan.setup \/ ev[e].dead
                   THEN [@ EXCEPT !.at = "replace", !.next = n, !.reset = NoCard, !.dead = FALSE]
                   ELSE [Idle EXCEPT !.at = "entry", !.plan = ev[e].plan, !.opp = ev[e].opp]]
    BY <1>13 DEF Rebuild
  <2>2. \A f \in Evaluator : f # e => ev'[f] = ev[f]
    BY <1>1, <2>1
  <2>3. /\ ev'[e].opp = ev[e].opp
        /\ \/ ev'[e].at = "replace" /\ ev'[e].next = n /\ ev'[e].after = ev[e].after
           \/ ev'[e].at = "entry"
    <3> DEFINE s == [ev[e] EXCEPT !.at = "replace", !.next = n, !.reset = NoCard, !.dead = FALSE]
               t == [Idle EXCEPT !.at = "entry", !.plan = ev[e].plan, !.opp = ev[e].opp]
    <3>1. ev'[e] = s \/ ev'[e] = t
      BY <1>1, <2>1
    <3>2. s.opp = ev[e].opp /\ s.at = "replace" /\ s.next = n /\ s.after = ev[e].after
      BY <1>1 DEF Snapshot
    <3>3. t.opp = ev[e].opp /\ t.at = "entry"
      BY DEF Idle
    <3> QED BY <3>1, <3>2, <3>3
  <2>4. Links(e)'
    BY <1>1, <2>3 DEF Links, Published
  <2>5. ev[e].at = "rebuild" /\ (n = 0 \/ n > ev[e].after)
    BY <1>13 DEF Rebuild, Step
  <2> QED BY <1>5, <1>6, <2>2, <2>3, <2>4, <2>5 DEF Knows, Marking, Reading
<1>14. CASE Reread(e)
  <2>1. \A f \in Evaluator : f # e => ev'[f] = ev[f]
    BY <1>1, <1>14 DEF Reread
  <2>2. ev'[e].at = "entry" /\ ev'[e].opp = slot.opp
    BY <1>1, <1>14 DEF Reread, Snapshot
  <2>3. Links(e)'
    BY <1>2, <2>2 DEF Links, Published
  <2> QED BY <1>5, <2>1, <2>2, <2>3 DEF Knows, Marking, Reading
<1>15. CASE Admit(e)
  <2>1. \A f \in Evaluator : f # e => ev'[f] = ev[f]
    BY <1>1, <1>15 DEF Admit
  <2>2. /\ ev'[e].at = "publish" /\ ev'[e].opp = NoCard
        /\ ev'[e].plan = ev[e].plan /\ ev[e].plan.setup # 0
    BY <1>1, <1>15 DEF Admit, Idle
  <2>3. Links(e)'
    BY <2>2 DEF Links, Published
  <2> QED BY <1>5, <2>1, <2>2, <2>3 DEF Knows, Marking, Reading
<1> QED BY <1>7, <1>10, <1>11, <1>12, <1>13, <1>14, <1>15
        DEF Decline, PublishRefused, Timeout, EnqueuePublished, ReadLinked

(* The evaluator writes the slot: the re-entry, the mark, another plan, no   *)
(* setup, or the card it publishes.                                          *)
LEMMA WriteSpent ==
  ASSUME TypeInv, SpentInv, NEW e \in Evaluator, budget' = budget, slot' # slot,
         \A c \in Card : card[c] # "none" => card'[c] # "none" /\ planOf'[c] = planOf[c],
         RearmCommit(e) \/ MarkReset(e) \/ Replace(e) \/ Invalidate(e) \/ Publish(e)
  PROVE  SpentInv'
<1>1. /\ ev[e] \in Snapshot /\ slot \in Slot /\ slot.reset \in Card \union {NoCard}
      /\ ev = [f \in Evaluator |-> ev[f]] /\ Links(e) /\ made \in Nat
      /\ slot.after \in 0..made /\ ev[e].plan \in Plan /\ ev[e].opp \in Card \union {NoCard}
      /\ \A c \in Card : planOf[c].setup \in 0..made
  BY Parts DEF SpentInv, Plan
<1>2. budget.overlap = 1 =>
        /\ \A f \in Evaluator : f # e => ev[f].at = "idle"
        /\ MarkHolds /\ Knows(e)
  BY DEF SpentInv, RearmCommit, MarkReset, Replace, Invalidate, Publish, Step
<1>3. \A f \in Evaluator : f # e => ev'[f] = ev[f]
  BY <1>1 DEF RearmCommit, MarkReset, Replace, Invalidate, Publish, Goto, Done
<1>4. ASSUME Published(slot.opp)', Published(slot.reset)', Links(e)',
             budget.overlap = 1 => MarkHolds' /\ Knows(e)'
      PROVE  SpentInv'
  BY <1>2, <1>3, <1>4, SpentEval
<1>5. Published(slot.reset) /\ (slot.reset # NoCard => planOf'[slot.reset] = planOf[slot.reset])
  BY <1>1 DEF SpentInv, Published
<1>6. CASE RearmCommit(e)
  <2>1. /\ TradeClosed /\ Goto(e, "refresh")
        /\ slot' = [Rearmed([base |-> slot.plan.base + 1, setup |-> 0],
                            closedAt[slot.opp]) EXCEPT !.reset = NoCard]
    BY <1>6 DEF RearmCommit
  <2>2. [base |-> slot.plan.base + 1, setup |-> 0] \in Plan /\ closedAt[slot.opp] \in 0..made
    <3>1. slot.plan.base \in Nat
      BY Parts DEF Plan
    <3> QED BY <1>1, <2>1, <3>1, Parts DEF Plan, TradeClosed, Claimed
  <2>3. slot'.opp = NoCard /\ slot'.reset = NoCard
    BY <1>1, <2>1, <2>2, RearmedType DEF Slot
  <2>4. ev'[e].at = "refresh" /\ ev'[e].opp = ev[e].opp
    BY <1>1, <2>1 DEF Goto, Snapshot
  <2>5. Links(e)'
    BY <1>1, <1>6, <2>4 DEF Links, Published, RearmCommit, cards
  <2> QED BY <1>4, <2>3, <2>4, <2>5 DEF Published, MarkHolds, Knows, Marking, Reading
<1>7. CASE MarkReset(e)
  <2>1. /\ slot'.opp = slot.opp /\ slot'.plan = slot.plan
        /\ slot'.after = made /\ slot'.reset = ev[e].opp
    BY <1>1, <1>7 DEF MarkReset, Slot
  <2>2. ev'[e].at = "rebuild" /\ ev'[e].after = made /\ ev'[e].opp = ev[e].opp
    BY <1>1, <1>7 DEF MarkReset, Snapshot
  <2>3. Published(slot.opp)' /\ Published(slot.reset)' /\ Links(e)'
    BY <1>1, <1>7, <2>1, <2>2 DEF SpentInv, Links, Published, MarkReset, cards
  <2>4. planOf' = planOf
    BY <1>7 DEF MarkReset
  <2>5. ASSUME budget.overlap = 1 PROVE MarkHolds'
    <3>1. slot.opp = ev[e].opp \/ slot.plan.setup = 0
      BY <1>2, <1>7, <2>5 DEF Knows, MarkReset, Step, Marking
    <3>2. ev[e].opp # NoCard => planOf[ev[e].opp].setup \in 0..made
      BY <1>1
    <3> QED BY <1>1, <2>1, <2>4, <3>1, <3>2 DEF MarkHolds
  <2>6. Knows(e)'
    BY <2>1, <2>2 DEF Knows, Marking, Reading
  <2> QED BY <1>4, <2>3, <2>5, <2>6
<1>8. CASE Replace(e)
  <2> DEFINE plan == [ev[e].plan EXCEPT !.setup = ev[e].next]
  <2>1. slot.plan = ev[e].plan /\ slot' = Rearmed(plan, ev[e].after) /\ card' = Retired
        /\ ev' = [ev EXCEPT ![e].at = "reread", ![e].plan = plan, ![e].next = 0, ![e].after = 0]
    BY <1>8 DEF Replace
  <2>2. plan \in Plan /\ plan.setup = ev[e].next /\ ev[e].after \in 0..made
    BY <1>1, Parts DEF Plan
  <2> HIDE DEF plan
  <2>3. /\ slot'.opp = NoCard /\ slot'.plan.setup = ev[e].next /\ slot'.reset = slot.reset
        /\ slot'.after = IF ev[e].after > 0 THEN ev[e].after ELSE slot.after
    BY <1>1, <2>1, <2>2, RearmedType
  <2>4. ev'[e].at = "reread" /\ ev'[e].opp = ev[e].opp
    BY <1>1, <2>1 DEF Snapshot
  <2>5. Published(slot.opp)' /\ Published(slot.reset)' /\ Links(e)'
    BY <1>1, <1>5, <2>3, <2>4 DEF Links, Published
  <2>6. ASSUME budget.overlap = 1 PROVE MarkHolds'
    <3>1. /\ ev[e].after = slot.after
          /\ ev[e].next = 0 \/ ev[e].next > slot.after
      BY <1>2, <1>8, <2>6 DEF Knows, Replace, Step, Reading
    <3>2. slot'.after = slot.after
      BY <2>3, <3>1
    <3>3. slot.reset # NoCard => planOf[slot.reset].setup <= slot.after
                                 /\ planOf[slot.reset].setup \in 0..made
      BY <1>1, <1>2, <2>6 DEF MarkHolds
    <3>4. ev[e].next \in 0..made
      BY Parts
    <3> QED BY <1>1, <1>5, <2>3, <3>1, <3>2, <3>3, <3>4 DEF MarkHolds
  <2>7. Knows(e)'
    BY <2>4 DEF Knows, Marking, Reading
  <2> QED BY <1>4, <2>5, <2>6, <2>7
<1>9. CASE Invalidate(e)
  <2> DEFINE plan == [ev[e].plan EXCEPT !.setup = 0]
  <2>1. slot' = Rearmed(plan, made) /\ Done(e)
    BY <1>9 DEF Invalidate
  <2>2. plan \in Plan /\ plan.setup = 0 /\ made \in 0..made
    BY <1>1 DEF Plan
  <2> HIDE DEF plan
  <2>3. /\ slot'.opp = NoCard /\ slot'.plan.setup = 0 /\ slot'.reset = slot.reset
        /\ slot'.after = IF made > 0 THEN made ELSE slot.after
    BY <1>1, <2>1, <2>2, RearmedType
  <2>4. ev'[e].at = "idle" /\ ev'[e].opp = NoCard
    BY <1>1, <2>1 DEF Done, Idle
  <2>5. Published(slot.opp)' /\ Published(slot.reset)' /\ Links(e)'
    BY <1>1, <1>5, <2>3, <2>4 DEF Links, Published
  <2>6. MarkHolds'
    <3>1. slot.reset # NoCard => planOf[slot.reset].setup \in 0..made
      BY <1>1
    <3> QED BY <1>1, <1>5, <2>3, <3>1 DEF MarkHolds
  <2>7. Knows(e)'
    BY <2>4 DEF Knows, Marking, Reading
  <2> QED BY <1>4, <2>5, <2>6, <2>7
<1>10. CASE Publish(e)
  <2>1. PICK c \in Card : /\ card[c] = "none" /\ card' = [card EXCEPT ![c] = "awaiting"]
                          /\ slot' = [slot EXCEPT !.opp = c]
                          /\ ev' = [ev EXCEPT ![e] = [Idle EXCEPT !.at = "enqueue", !.opp = c]]
    <3>1. Fresh # {} => (CHOOSE x \in Fresh : TRUE) \in Fresh
      OBVIOUS
    <3> QED BY <1>10, <3>1 DEF Publish, Fresh
  <2>2. slot.opp = NoCard
    BY <1>10 DEF Publish, Claimed
  <2>3. /\ slot'.opp = c /\ slot'.plan = slot.plan /\ slot'.after = slot.after
        /\ slot'.reset = slot.reset
    BY <1>1, <2>1 DEF Slot
  <2>4. ev'[e].at = "enqueue" /\ ev'[e].opp = c
    BY <1>1, <2>1 DEF Idle
  <2>5. card'[c] = "awaiting"
    BY <2>1, Parts
  <2>6. Published(slot.opp)' /\ Published(slot.reset)' /\ Links(e)'
    BY <1>1, <1>5, <2>3, <2>4, <2>5 DEF Links, Published
  <2>7. ASSUME budget.overlap = 1 PROVE MarkHolds'
    BY <1>2, <1>5, <2>2, <2>3, <2>7 DEF MarkHolds
  <2>8. Knows(e)'
    BY <2>4 DEF Knows, Marking, Reading
  <2> QED BY <1>4, <2>6, <2>7, <2>8
<1> QED BY <1>6, <1>7, <1>8, <1>9, <1>10

(* No setup is marked at first.                                             *)
LEMMA SpentInit == Init => SpentInv
<1> SUFFICES ASSUME Init PROVE SpentInv
  OBVIOUS
<1>1. slot.opp = NoCard /\ slot.reset = NoCard
  BY DEF Init, SessionInit
<1>2. \A e \in Evaluator : ev[e] = Idle
  BY DEF Init, SessionInit
<1> QED BY <1>1, <1>2 DEF SpentInv, Published, Links, MarkHolds, Knows, Idle, Marking, Reading

(* Every step keeps marked setups spent.                                    *)
LEMMA SpentStep == TypeInv /\ HeldInv /\ SpentInv /\ [Next]_vars => SpentInv'
<1> SUFFICES ASSUME TypeInv, HeldInv, SpentInv, [Next]_vars PROVE SpentInv'
  OBVIOUS
<1>1. \A c \in Card : card[c] # "none" => card'[c] # "none" /\ planOf'[c] = planOf[c]
  BY StaysPublished
<1>2. /\ slot \in Slot /\ slot.reset \in Card \union {NoCard} /\ made \in Nat
      /\ slot.plan \in Plan /\ slot.plan.base \in Nat
  <2>1. budget \in [overlap : Nat, setups : Nat, mishaps : Nat, late : BOOLEAN,
                 revisions : Nat]
    BY DEF TypeInv, TypeOK, SessionTypeOK
  <2> QED BY <2>1 DEF TypeInv, TypeOK, SessionTypeOK, Slot, Plan
<1>3. CASE UNCHANGED <<slot, budget, ev>>
  BY <1>1, <1>2, <1>3, SpentFrame
<1>4. CASE Market \/ Operator \/ Reconcile \/ AutoStep \/ UNCHANGED vars
  BY <1>3, <1>4 DEF Market, Confirm, Operator, Reconcile, AutoStep, Hits, vars, session
<1>5. ASSUME NEW c \in Card, Sold(c) \/ Wait(c) PROVE SpentInv'
  BY <1>3, <1>5 DEF Sold, Close, Wait, session
<1>6. ASSUME NEW a \in Caller, Attempt(a) PROVE SpentInv'
  BY <1>3, <1>6 DEF Attempt, session
<1>7. CASE Crash
  <2>1. \A e \in Evaluator : ev'[e] = Idle
    BY <1>7 DEF Crash
  <2>2. Published(slot.opp)' /\ Published(slot.reset)'
    BY <1>7 DEF Crash, SpentInv, Published
  <2>3. \A e \in Evaluator : Links(e)' /\ Knows(e)'
    BY <2>1 DEF Links, Published, Knows, Idle, Marking, Reading
  <2>4. budget.overlap = 1 => MarkHolds'
    BY <1>7 DEF Crash, SpentInv, MarkHolds
  <2>5. \A e \in Evaluator : ev'[e].at = "idle"
    BY <2>1 DEF Idle
  <2>6. budget' = budget
    BY <1>7 DEF Crash
  <2> QED BY <2>2, <2>3, <2>4, <2>5, <2>6 DEF SpentInv
<1>8. CASE Writers
  <2>1. UNCHANGED <<budget, ev>>
    BY <1>8 DEF Writers, Select, RestoreInstrument, Rollout
  <2>2. CASE UNCHANGED slot
    BY <1>3, <2>1, <2>2
  <2>3. CASE Select \/ RestoreInstrument
    <3>1. /\ slot'.opp = slot.opp /\ slot'.plan.setup = slot.plan.setup
          /\ slot'.after = slot.after /\ slot'.reset = slot.reset
      BY <1>2, <2>3 DEF Select, RestoreInstrument, Slot, Plan
    <3> QED BY <1>1, <1>2, <2>1, <3>1, SpentFrame
  <2>4. CASE slot' = Rearmed([base |-> slot.plan.base + 1, setup |-> 0], 0)
    <3>1. [base |-> slot.plan.base + 1, setup |-> 0] \in Plan /\ 0 \in 0..made
      BY <1>2 DEF Plan
    <3>2. /\ slot'.opp = NoCard /\ slot'.plan = [base |-> slot.plan.base + 1, setup |-> 0]
          /\ slot'.reset = slot.reset /\ slot'.after = slot.after
      BY <1>2, <2>4, <3>1, RearmedType
    <3>3. slot'.plan.setup = 0
      BY <3>2
    <3> QED BY <1>1, <1>2, <2>1, <3>2, <3>3, SpentFrame
  <2> QED BY <1>8, <2>2, <2>3, <2>4 DEF Writers, Rollout
<1>9. ASSUME NEW e \in Evaluator, Watch(e) \/ CutOff(e) \/ EnqueuePublished(e) PROVE SpentInv'
  <2>1. budget' = budget
    BY <1>9 DEF Watch, CutOff, Evaluate, Begin, RearmRead, RearmCommit, Refresh, ReadLinked,
                MarkReset, Rebuild, Replace, Reread, Invalidate, Decline, Admit, Publish,
                PublishRefused, Timeout, EnqueuePublished, Elsewhere
  <2>2. CASE slot' # slot
    <3>1. RearmCommit(e) \/ MarkReset(e) \/ Replace(e) \/ Invalidate(e) \/ Publish(e)
      BY <1>9, <2>2 DEF Watch, CutOff, Evaluate, Begin, RearmRead, Refresh, ReadLinked, Rebuild,
                  Reread, Decline, Admit, PublishRefused, Timeout, EnqueuePublished, KeepsRows
    <3> QED BY <1>1, <2>1, <2>2, <3>1, WriteSpent
  <2>3. CASE slot' = slot
    <3>1. CASE MarkReset(e)
      <4>1. ev' = [ev EXCEPT ![e].at = "rebuild", ![e].after = made] /\ slot.after = made
            /\ slot.reset = ev[e].opp
        <5>1. slot'.after = made /\ slot'.reset = ev[e].opp
          BY <1>2, <3>1 DEF MarkReset, Slot
        <5> QED BY <2>3, <3>1, <5>1 DEF MarkReset
      <4>2. /\ ev[e] \in Snapshot /\ ev = [f \in Evaluator |-> ev[f]]
        BY Parts
      <4>3. ev'[e].at = "rebuild" /\ ev'[e].after = made /\ ev'[e].opp = ev[e].opp
        BY <4>1, <4>2 DEF Snapshot
      <4>4. \A f \in Evaluator : f # e => ev'[f] = ev[f]
        BY <4>1, <4>2
      <4>5. Published(slot.opp)' /\ Published(slot.reset)' /\ Links(e)'
        BY <1>1, <2>3, <4>3 DEF SpentInv, Links, Published
      <4>6. budget.overlap = 1 => /\ \A f \in Evaluator : f # e => ev[f].at = "idle"
                                  /\ MarkHolds' /\ Knows(e)'
        <5>1. Knows(e)'
          BY <2>3, <4>1, <4>3 DEF Knows, Marking, Reading
        <5>2. slot.reset # NoCard => planOf'[slot.reset] = planOf[slot.reset]
          BY <1>1, <1>2 DEF SpentInv, Published
        <5>3. budget.overlap = 1 => MarkHolds'
          BY <2>3, <5>2 DEF SpentInv, MarkHolds
        <5>4. ev[e].at = "mark"
          BY <3>1 DEF MarkReset, Step
        <5> QED BY <5>1, <5>3, <5>4 DEF SpentInv
      <4> QED BY <1>1, <2>1, <4>4, <4>5, <4>6, SpentEval
    <3>2. CASE RearmCommit(e) /\ ~Goto(e, "linked")
      <4>1. /\ slot' = [Rearmed([base |-> slot.plan.base + 1, setup |-> 0],
                                closedAt[slot.opp]) EXCEPT !.reset = NoCard]
            /\ TradeClosed
        BY <3>2 DEF RearmCommit
      <4>2. [base |-> slot.plan.base + 1, setup |-> 0] \in Plan /\ closedAt[slot.opp] \in 0..made
        BY <1>2, <4>1, Parts DEF Plan, TradeClosed, Claimed
      <4>3. slot'.plan.base = slot.plan.base + 1
        BY <1>2, <4>1, <4>2, RearmedType DEF Slot
      <4> QED BY <1>2, <2>3, <4>3
    <3>3. CASE Replace(e) /\ ~Done(e)
      <4>1. Replaceable /\ slot' = Rearmed([ev[e].plan EXCEPT !.setup = ev[e].next], ev[e].after)
            /\ slot.plan = ev[e].plan
            /\ ev' = [ev EXCEPT ![e].at = "reread",
                                ![e].plan = [ev[e].plan EXCEPT !.setup = ev[e].next],
                                ![e].next = 0, ![e].after = 0]
        BY <3>3 DEF Replace
      <4>2. \A f \in Evaluator : f # e => ev'[f] = ev[f]
        BY <4>1, Parts
      <4>3. ev'[e].at = "reread" /\ ev'[e].opp = ev[e].opp
        BY <4>1, Parts DEF Snapshot
      <4>4. Published(slot.opp)' /\ Published(slot.reset)' /\ Links(e)'
        BY <1>1, <2>3, <4>3 DEF SpentInv, Links, Published
      <4>5. budget.overlap = 1 => /\ \A f \in Evaluator : f # e => ev[f].at = "idle"
                                  /\ MarkHolds' /\ Knows(e)'
        <5>1. Knows(e)'
          BY <4>3 DEF Knows, Marking, Reading
        <5>2. slot.reset # NoCard => planOf'[slot.reset] = planOf[slot.reset]
          BY <1>1, <1>2 DEF SpentInv, Published
        <5>3. budget.overlap = 1 => MarkHolds'
          BY <2>3, <5>2 DEF SpentInv, MarkHolds
        <5>4. ev[e].at = "replace"
          BY <3>3 DEF Replace, Step
        <5> QED BY <5>1, <5>3, <5>4 DEF SpentInv
      <4> QED BY <1>1, <2>1, <4>2, <4>4, <4>5, SpentEval
    <3>4. CASE Publish(e)
      <4>1. ev' = [ev EXCEPT ![e] = [Idle EXCEPT !.at = "enqueue", !.opp = slot.opp]]
        <5>1. CASE Claimed
          BY <3>4, <5>1 DEF Publish
        <5>2. CASE ~Claimed
          <6>1. Fresh # {} /\ slot' = [slot EXCEPT !.opp = CHOOSE x \in Fresh : TRUE]
            BY <3>4, <5>2 DEF Publish
          <6>2. (CHOOSE x \in Fresh : TRUE) \in Card
            BY <6>1 DEF Fresh
          <6>3. slot'.opp \in Card
            BY <1>2, <6>1, <6>2 DEF Slot
          <6> QED BY <2>3, <5>2, <6>3 DEF Claimed
        <5> QED BY <5>1, <5>2
      <4>2. \A f \in Evaluator : f # e => ev'[f] = ev[f]
        BY <4>1, Parts
      <4>3. ev'[e].at = "enqueue" /\ ev'[e].opp = slot.opp
        BY <4>1, Parts DEF Idle
      <4>4. Published(slot.opp)' /\ Published(slot.reset)' /\ Links(e)'
        BY <1>1, <2>3, <4>3 DEF SpentInv, Links, Published
      <4>5. budget.overlap = 1 => /\ \A f \in Evaluator : f # e => ev[f].at = "idle"
                                  /\ MarkHolds' /\ Knows(e)'
        <5>1. Knows(e)'
          BY <4>3 DEF Knows, Marking, Reading
        <5>2. slot.reset # NoCard => planOf'[slot.reset] = planOf[slot.reset]
          BY <1>1, <1>2 DEF SpentInv, Published
        <5>3. budget.overlap = 1 => MarkHolds'
          BY <2>3, <5>2 DEF SpentInv, MarkHolds
        <5>4. ev[e].at = "publish"
          BY <3>4 DEF Publish, Step
        <5> QED BY <5>1, <5>3, <5>4 DEF SpentInv
      <4> QED BY <1>1, <2>1, <4>2, <4>4, <4>5, SpentEval
    <3>5. ev[e].at # "idle" \/ Begin(e)
      BY <1>9 DEF Watch, CutOff, Evaluate, RearmRead, RearmCommit, Refresh, ReadLinked,
                MarkReset, Rebuild, Replace, Reread, Invalidate, Decline, Admit, Publish,
                PublishRefused, Timeout, EnqueuePublished, Step
    <3>6. CASE \/ (RearmCommit(e) /\ Goto(e, "linked")) \/ (Done(e) /\ ev[e].at # "idle")
      BY <1>1, <2>1, <2>3, <3>6, ReadSpent
    <3>7. CASE \/ Begin(e) \/ RearmRead(e) \/ Refresh(e) \/ ReadLinked(e) \/ Rebuild(e)
               \/ Reread(e) \/ Decline(e) \/ Admit(e) \/ PublishRefused(e) \/ Timeout(e)
               \/ EnqueuePublished(e)
      BY <1>1, <2>1, <2>3, <3>7, ReadSpent
    <3>8. Invalidate(e) => Done(e) /\ ev[e].at # "idle"
      BY DEF Invalidate, Step
    <3>9. Replace(e) => ev[e].at # "idle"
      BY DEF Replace, Step
    <3> QED BY <1>9, <3>1, <3>2, <3>3, <3>4, <3>6, <3>7, <3>8, <3>9 DEF Watch, CutOff, Evaluate
  <2> QED BY <2>2, <2>3
<1> QED BY <1>4, <1>5, <1>6, <1>7, <1>8, <1>9 DEF Next

(* The plan that is published is the slot's, and the slot keeps no setup     *)
(* that its mark has spent.                                                  *)
LEMMA SpentPublish ==
  ASSUME TypeInv, HeldInv, SpentInv, [Next]_vars, NEW c \in Card, NEW d \in Card,
         budget.overlap = 1, slot.reset = c, card[d] = "none", card'[d] = "awaiting"
  PROVE  planOf'[d].setup # planOf[c].setup
<1>1. PICK e \in Evaluator : Publish(e) /\ ~Claimed /\ planOf'[d] = ev[e].plan
  BY OnlyPublished
<1>2. slot.plan = ev[e].plan /\ slot.plan.setup # 0
  BY <1>1 DEF Publish, Publishable, Step, SpentInv, Links
<1>3. slot.opp # c /\ c # NoCard
  BY <1>1, NoCardAssumption DEF Claimed
<1>4. slot.plan.setup > planOf[c].setup
  BY <1>2, <1>3 DEF SpentInv, MarkHolds
<1>5. planOf[c].setup \in Nat /\ slot.plan.setup \in Nat
  <2>1. budget \in [overlap : Nat, setups : Nat, mishaps : Nat, late : BOOLEAN,
                 revisions : Nat]
    BY BudgetsAssumption DEF TypeInv, TypeOK, SessionTypeOK
  <2> QED BY <2>1 DEF TypeInv, TypeOK, SessionTypeOK, Slot, Plan
<1> QED BY <1>1, <1>2, <1>4, <1>5

(* Previous bars cannot be recycled: while evaluations do not overlap, no    *)
(* card is published for the setup of the dead card its slot is marked for,  *)
(* whatever the bars, rollouts, repairs, time-outs and restarts do           *)
(* (mark_retest_reset, replace_unclaimed_plan, publish_orb).                 *)
THEOREM MarkedSetupsAreSpent == Spec => MarkedSetupIsSpent
<1>1. Spec => []HeldInv
  BY DeskHeld, PTL
<1>2. Spec => []SpentInv
  BY <1>1, SpentInit, SpentStep, DeskTypeInv, PTL DEF Spec
<1>3. TypeInv /\ HeldInv /\ SpentInv /\ [Next]_vars =>
        [\A c, d \in Card :
           budget.overlap = 1 /\ slot.reset = c /\ card[d] = "none" /\ card'[d] = "awaiting"
             => planOf'[d].setup # planOf[c].setup]_vars
  BY SpentPublish
<1> QED BY <1>1, <1>2, <1>3, DeskTypeInv, PTL DEF Spec, MarkedSetupIsSpent
=============================================================================
