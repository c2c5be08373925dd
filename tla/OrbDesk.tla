------------------------------ MODULE OrbDesk ------------------------------
(***************************************************************************)
(* The strategy's side of the desk for one symbol: the ORB session slot and *)
(* its evaluators, the opportunity rows, the auto trigger, the operator,    *)
(* the reconciliation pass and a process that may restart.                  *)
(***************************************************************************)
EXTENDS OrbSession, AutoTrigger

vars == <<cards, session, trigger>>

(* Statuses, plans, snapshots and stages stay in their domains, and the     *)
(* queue never outgrows its maxsize.                                        *)
TypeOK == CardsTypeOK /\ SessionTypeOK /\ TriggerTypeOK

Init == CardsInit /\ SessionInit /\ TriggerInit

(* Enqueueing follows the publication without an await.                     *)
EnqueuePublished(e) ==
  /\ Step(e, "enqueue")
  /\ Enqueue(ev[e].opp)
  /\ Done(e)
  /\ KeepsRows /\ Elsewhere
  /\ UNCHANGED <<enabled, inFlight>>

Market   == Confirm /\ UNCHANGED trigger
Sold(c)  == Close(c) /\ UNCHANGED trigger
Writers  == (Select \/ RestoreInstrument \/ Rollout) /\ UNCHANGED trigger
Watch(e) == Evaluate(e) /\ UNCHANGED trigger
CutOff(e) == Timeout(e) /\ UNCHANGED trigger

(* While the auto trigger has the row in hand the loop runs no step that     *)
(* would touch it; the other steps may as well be taken before or after.     *)
Attempt(a) == ~InHand /\ Decide(a) /\ UNCHANGED <<session, trigger>>

Operator ==
  /\ ~InHand
  /\ \E c \in Card : ("operator" \in Caller /\ Approve("operator", c)) \/ Dismiss(c)
  /\ UNCHANGED <<session, trigger>>

Wait(c) == CoolDown(c) /\ UNCHANGED <<session, trigger>>

(* Bound: a step that hits a row at a bad moment is a mishap.               *)
Hits(late) ==
  /\ IF late THEN /\ budget.late /\ mishaps < budget.mishaps
                  /\ mishaps' = mishaps + 1
             ELSE UNCHANGED mishaps
  /\ UNCHANGED <<budget, made, slot, revised, closedAt, planOf, ev>>

Reconcile ==
  /\ ~InHand
  /\ \/ ReleaseStale /\ Hits(\E c \in Card : Deciding(c) /\ card'[c] # card[c])
     \/ (\E c \in Card : Reconciled(c)) /\ UNCHANGED session
  /\ UNCHANGED trigger

AutoStep == Trigger /\ Hits(InHand /\ card' # card)

(* The database, the switch and the persisted retry times survive.          *)
Crash ==
  /\ mishaps < budget.mishaps
  /\ mishaps' = mishaps + 1
  /\ at' = [a \in Caller |-> "idle"]
  /\ of' = [a \in Caller |-> NoCard]
  /\ copy' = "none"
  /\ ev' = [e \in Evaluator |-> Idle]
  /\ queue' = << >> /\ queued' = {} /\ inFlight' = {}
  /\ UNCHANGED <<card, sub, cooling, intent, pos, budget, made, slot, revised, closedAt, planOf,
                 enabled>>

Next ==
  \/ Market \/ Writers \/ Operator \/ Reconcile \/ AutoStep \/ Crash
  \/ \E c \in Card : Sold(c) \/ Wait(c)
  \/ \E e \in Evaluator : Watch(e) \/ CutOff(e) \/ EnqueuePublished(e)
  \/ \E a \in Caller : Attempt(a)

Spec == Init /\ [][Next]_vars

(* The loop evaluates the symbol every minute, the dispatcher looks at the  *)
(* open cards every second, the worker takes what is queued, decide is      *)
(* bounded by its timeouts, and the clock runs.  Nobody is obliged to make  *)
(* a setup, press a button, sell or revise the session.                     *)
FairSpec ==
  /\ Spec
  /\ \A e \in Evaluator : WF_vars(Watch(e) \/ EnqueuePublished(e))
  /\ \A c \in Card : WF_vars(Wait(c)) /\ WF_vars(Dispatch(c) /\ UNCHANGED session)
  /\ WF_vars(Serve /\ UNCHANGED session)
  /\ WF_vars(Attempt("auto"))

-----------------------------------------------------------------------------
(* Properties.                                                               *)

Live(c)    == card[c] \in {"awaiting", "approving"}
Current(c) == slot.opp = c /\ planOf[c] = slot.plan

(* A card that can be approved, or is being bought, is published as the one *)
(* its slot links to and for the plan the slot has, and stays so for as     *)
(* long as it lives: letting go of a claim retires its card in the same     *)
(* transaction, and publication refuses a plan that has moved on while the  *)
(* admission was awaited (replace_unclaimed_plan, publish_orb).  Only a     *)
(* card written back from the dead is live for a plan of the past.          *)
LiveCardStaysCurrent ==
  [][\A c \in Card :
       (card[c] = "none" \/ (Live(c) /\ Current(c))) /\ Live(c)' => Current(c)']_vars

(* "Unclaimed proposals are retired atomically and must be admitted again   *)
(* under a new ID" (upgrade_unpublished_entry_limits): a retired card is    *)
(* not offered again.  It is, by whoever read the row before and writes the *)
(* whole of it back after: the retry bookkeeping of the auto trigger.       *)
RetiredStaysRetired ==
  [][\A c \in Card : card[c] = "dead" => card'[c] # "awaiting"]_vars

(* "Filled/in-flight/unknown claims are not reset" (orb-retest-v2.md): a    *)
(* slot does not let go of a card whose entry may still be at the venue.    *)
(* It does: an UNKNOWN card released after 90 seconds is awaiting again,    *)
(* unsubmitted, and the guards on the stored outcome never see "UNKNOWN".   *)
UnresolvedClaimIsKept ==
  [][\A c \in Card : slot.opp = c /\ Unresolved(c) => slot.opp' = c]_vars

(* "Previous bars cannot be recycled": once the reset of a dead card is     *)
(* marked in the slot, no card is published for the setup that card had,    *)
(* whatever the bars, the rollouts and the restarts say in between.  It     *)
(* takes evaluations that do not overlap: a plan is compared by value, and  *)
(* one that began before the mark may put the spent setup back.             *)
MarkedSetupIsSpent ==
  [][\A c, d \in Card :
       budget.overlap = 1 /\ slot.reset = c /\ card[d] = "none" /\ card'[d] = "awaiting"
         => planOf'[d].setup # planOf[c].setup]_vars

(* The slot of an executed card is given to another plan only when its      *)
(* position is closed: rearm_closed_trade asks for the journaled close, and *)
(* replace_unclaimed_plan refuses a claim that has executed meanwhile.      *)
ExecutedClaimIsKept ==
  [][\A c \in Card : slot.opp = c /\ card[c] = "executed" /\ slot.opp' # c
                       => pos[c] = "closed"]_vars

(* _queued holds exactly the cards that wait in the queue or are with the   *)
(* worker, each once: a key that stayed behind would shut its card out for  *)
(* good, a missing one would let it be approved twice.                      *)
KeysMatchQueue ==
  /\ \A i, j \in 1..Len(queue) : queue[i] = queue[j] => i = j
  /\ queued = {queue[i] : i \in 1..Len(queue)} \union inFlight

(* With the switch on, an awaiting card no entry was ever attempted for is  *)
(* eventually tried, unless it goes first: through full backoffs, restarts  *)
(* that lose the queue, and other cards of the symbol (dispatch_due_buys,   *)
(* the worker).                                                             *)
TriedWhenDue ==
  \A c \in Card :
    card[c] = "awaiting" /\ intent[c] = "none" /\ enabled
      ~> of["auto"] = c \/ card[c] # "awaiting" \/ intent[c] # "none" \/ ~enabled

(* "No second decide(). Reconciliation only" (execution-failure-matrix.md): *)
(* the trigger starts no attempt on a card whose entry is UNKNOWN.  It does, *)
(* once the claim was released by age and the card is listed as open again. *)
UnknownIsNotRetried ==
  [][\A c \in Card : Unresolved(c) /\ of["auto"] # c => of'["auto"] # c]_vars

(* A skipped, discarded or expired card that was never submitted does not   *)
(* hold its slot for ever: the evaluator marks its setups and frees the     *)
(* slot (evaluate_symbol, replace_unclaimed_plan), unless an attempt that   *)
(* was still running submits the card or writes it back alive.              *)
DeadCardIsReplaced ==
  \A c \in Card :
    LET holds == slot.opp = c /\ Dead(c) /\ c \notin sub IN holds ~> ~holds

=============================================================================
