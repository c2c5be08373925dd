----------------------------- MODULE OrbSession -----------------------------
(***************************************************************************)
(* One symbol's slot in the ORB session row: its plan, the opportunity      *)
(* published for it, and what the evaluator, the closed-trade re-entry, the *)
(* policy rollout and the instrument repair do to them.                     *)
(*                                                                          *)
(* Every store operation locks the session row and is one step; an          *)
(* evaluator awaits the venue or a worker thread between any two of them.   *)
(* The market appears as numbered retest setups: `made` counts those        *)
(* confirmed so far, and is the clock that retest_after is compared with.   *)
(***************************************************************************)
EXTENDS OpportunityCards

CONSTANTS Evaluator,   \* evaluations of the symbol that may overlap: loop, scan route
          Budgets      \* bounds, of which a behaviour has one: evaluations that overlap,
                       \* setups the market makes, mishaps (evaluations cut off, restarts
                       \* of the process; if late, also releases of a claim still being
                       \* decided and rows written back over a change), rollouts and
                       \* repairs of the session

ASSUME EvaluatorAssumption == IsFiniteSet(Evaluator)
ASSUME BudgetsAssumption ==
  Budgets \in SUBSET [overlap : Nat, setups : Nat, mishaps : Nat, late : BOOLEAN,
                      revisions : Nat]

VARIABLES
  budget,         \* the bounds of this behaviour
  made,           \* retest setups confirmed so far
  slot,           \* plan and state of the symbol in the session row
  revised,        \* of the policy rollout and the instrument repair: those done
  closedAt,       \* [Card -> when its position was closed]
  planOf,         \* [Card -> plan the card was published for]
  ev,             \* [Evaluator -> where evaluate_symbol stands and what it has read]
  mishaps         \* mishaps so far

session == <<budget, made, slot, revised, closedAt, planOf, ev, mishaps>>

(* The base is re-formed by a rollout, a repair or a re-entry; the setup of *)
(* a ready plan is its retest evidence.                                     *)
Plan == [base : Nat, setup : 0..made]

(* after: setups up to this one are refused (retest_after).  reset: the     *)
(* dead card `after` was last moved for (retest_reset_id).  rearms: how     *)
(* often a claim was released (rearmed_at).                                 *)
Slot == [plan : Plan, opp : Card \union {NoCard}, after : 0..made,
         reset : Card \union {NoCard}, rearms : Nat]

Stage == {"idle", "rearm", "recommit", "refresh", "linked", "mark", "rebuild", "replace",
          "reread", "entry", "publish", "enqueue"}

Idle == [at |-> "idle", plan |-> [base |-> 0, setup |-> 0], next |-> 0, opp |-> NoCard,
         after |-> 0, reset |-> NoCard, dead |-> FALSE, rearms |-> 0]

SessionTypeOK ==
  /\ budget \in Budgets
  /\ made \in 0..budget.setups
  /\ slot \in Slot
  /\ revised \subseteq {"rollout", "instrument"}
  /\ closedAt \in [Card -> 0..made]
  /\ planOf \in [Card -> Plan]
  /\ ev \in [Evaluator ->
       [at : Stage, plan : Plan, next : 0..made, opp : Card \union {NoCard},
        after : 0..made, reset : Card \union {NoCard}, dead : BOOLEAN, rearms : Nat]]
  /\ mishaps \in 0..budget.mishaps

SessionInit ==
  /\ budget \in Budgets
  /\ made = 0
  /\ slot = [plan |-> Idle.plan, opp |-> NoCard, after |-> 0, reset |-> NoCard, rearms |-> 0]
  /\ revised = {}
  /\ closedAt = [c \in Card |-> 0]
  /\ planOf = [c \in Card |-> Idle.plan]
  /\ ev = [e \in Evaluator |-> Idle]
  /\ mishaps = 0

-----------------------------------------------------------------------------
(* The market.                                                               *)

Confirm ==
  /\ made < budget.setups
  /\ made' = made + 1
  /\ UNCHANGED <<budget, slot, revised, closedAt, planOf, ev, mishaps, cards>>

(* A position of the symbol is sold and journaled.                          *)
Close(c) ==
  /\ pos[c] = "open"
  /\ pos' = [pos EXCEPT ![c] = "closed"]
  /\ closedAt' = [closedAt EXCEPT ![c] = made]
  /\ UNCHANGED <<card, sub, cooling, intent, at, of, copy>>
  /\ UNCHANGED <<budget, made, slot, revised, planOf, ev, mishaps>>

-----------------------------------------------------------------------------
(* What may be done to the claim of a slot.                                  *)

Claimed == slot.opp # NoCard
Dead(c) == card[c] = "dead"

(* Mutant of Replaceable: only an attempt that is running keeps its claim.  *)
ReplaceableUnlessApproving == Claimed => card[slot.opp] # "approving"

(* Mutant of Replaceable: a dead card is taken for a claim.                 *)
ReplaceableAwaitingOnly == Claimed => slot.opp \notin sub /\ card[slot.opp] = "awaiting"

(* replace_unclaimed_plan: the claim is unsubmitted, and awaiting or dead.  *)
(* The stored outcome it also asks about is never "UNKNOWN": only _set_retry *)
(* writes it, for the outcomes that are retried.                            *)
Replaceable ==
  Claimed => slot.opp \notin sub /\ card[slot.opp] \in {"awaiting", "dead"}

(* Mutant of Retired: the released card keeps its buttons.                  *)
RetiredNot == card

(* An awaiting card is retired in the transaction that lets go of it.       *)
Retired ==
  [c \in Card |-> IF c = slot.opp /\ card[c] = "awaiting" THEN "dead" ELSE card[c]]

(* The slot under another plan, its claim (if any) released.                *)
Rearmed(plan, after) ==
  [slot EXCEPT !.plan = plan, !.opp = NoCard,
               !.after = IF after > 0 THEN after ELSE @,
               !.rearms = IF Claimed THEN @ + 1 ELSE @]

-----------------------------------------------------------------------------
(* The session's own writers.                                                *)

(* create_session and merge_intraday_discovery add a plan, never replace.   *)
Select ==
  /\ slot.plan.base = 0
  /\ slot' = [slot EXCEPT !.plan.base = 1]
  /\ UNCHANGED <<budget, made, revised, closedAt, planOf, ev, mishaps, cards>>

(* restore_unclaimed_instruments                                            *)
RestoreInstrument ==
  /\ slot.plan.base # 0 /\ ~Claimed
  /\ "instrument" \notin revised /\ Cardinality(revised) < budget.revisions
  /\ revised' = revised \union {"instrument"}
  /\ slot' = [slot EXCEPT !.plan.base = @ + 1]
  /\ UNCHANGED <<budget, made, closedAt, planOf, ev, mishaps, cards>>

(* upgrade_unpublished_entry_limits: once per session; a claim that is      *)
(* submitted or not awaiting keeps its plan.                                *)
Rollout ==
  /\ slot.plan.base # 0
  /\ "rollout" \notin revised /\ Cardinality(revised) < budget.revisions
  /\ revised' = revised \union {"rollout"}
  /\ IF Claimed /\ (slot.opp \in sub \/ card[slot.opp] # "awaiting")
       THEN UNCHANGED <<slot, card>>
       ELSE /\ slot' = Rearmed([base |-> slot.plan.base + 1, setup |-> 0], 0)
            /\ card' = Retired
  /\ UNCHANGED <<budget, made, closedAt, planOf, ev, mishaps, sub, cooling, intent, pos, at, of, copy>>

-----------------------------------------------------------------------------
(* evaluate_symbol.                                                          *)

Step(e, stage) == ev[e].at = stage
Goto(e, stage) == ev' = [ev EXCEPT ![e].at = stage]
Done(e)        == ev' = [ev EXCEPT ![e] = Idle]
KeepsRows      == UNCHANGED <<slot, planOf, cards>>
Elsewhere      == UNCHANGED <<budget, made, revised, closedAt, mishaps>>

(* What read_symbol_session returns, on the way to `stage`.                 *)
Reads(e, stage) ==
  ev' = [ev EXCEPT ![e] = [Idle EXCEPT !.at = stage, !.plan = slot.plan, !.opp = slot.opp,
                                       !.after = slot.after, !.reset = slot.reset]]

Busy == {e \in Evaluator : ev[e].at # "idle"}

Begin(e) ==
  /\ Step(e, "idle") /\ slot.plan.base # 0
  /\ Cardinality(Busy) < budget.overlap
  /\ Reads(e, IF Claimed THEN "rearm" ELSE "rebuild")
  /\ KeepsRows /\ Elsewhere

(* The claim in the row now is an executed card whose position is closed    *)
(* and journaled.                                                           *)
TradeClosed == Claimed /\ card[slot.opp] = "executed" /\ pos[slot.opp] = "closed"

(* rearm_closed_trade reads the row again (a whole trade does not fit since *)
(* Begin); the venue must be flat too, and when it is not, or cannot be     *)
(* read, the claim stays.                                                   *)
RearmRead(e) ==
  /\ Step(e, "rearm")
  /\ \/ /\ slot.plan = ev[e].plan /\ slot.opp = ev[e].opp
        /\ TradeClosed
        /\ \A c \in Card : ~Unresolved(c)
        /\ Goto(e, "recommit")
     \/ Goto(e, "linked")
  /\ KeepsRows /\ Elsewhere

RearmCommit(e) ==
  /\ Step(e, "recommit")
  /\ IF /\ slot.plan = ev[e].plan /\ slot.opp = ev[e].opp
        /\ TradeClosed
        /\ ~PositionOpen /\ \A c \in Card : ~Unresolved(c)
       THEN /\ slot' = [Rearmed([base |-> slot.plan.base + 1, setup |-> 0],
                                closedAt[slot.opp]) EXCEPT !.reset = NoCard]
            /\ Goto(e, "refresh")
       ELSE Goto(e, "linked") /\ UNCHANGED slot
  /\ UNCHANGED <<planOf, cards>> /\ Elsewhere

Refresh(e) ==
  /\ Step(e, "refresh")
  /\ Reads(e, "linked")
  /\ KeepsRows /\ Elsewhere

(* The linked card is read.  A claim that is submitted or no longer open    *)
(* ends the evaluation; a dead one is to be replaced.                       *)
ReadLinked(e) ==
  LET c == ev[e].opp
      dead == c # NoCard /\ Dead(c)
  IN
  /\ Step(e, "linked")
  /\ IF c # NoCard /\ (c \in sub \/ card[c] \notin {"awaiting", "dead"})
       THEN Done(e)
       ELSE ev' = [ev EXCEPT ![e].dead = dead,
                             ![e].at = IF dead /\ ev[e].reset # c THEN "mark" ELSE "rebuild"]
  /\ KeepsRows /\ Elsewhere

(* Mutant of MarkReset: the setups seen so far stay welcome.                *)
MarkResetForgotten(e) ==
  /\ Step(e, "mark")
  /\ slot' = [slot EXCEPT !.reset = ev[e].opp]
  /\ Goto(e, "rebuild")
  /\ UNCHANGED <<planOf, cards>> /\ Elsewhere

(* No setup in hand, nor one of the next minute, may follow a dead card.    *)
MarkReset(e) ==
  /\ Step(e, "mark")
  /\ slot' = [slot EXCEPT !.after = made, !.reset = ev[e].opp]
  /\ ev' = [ev EXCEPT ![e].at = "rebuild", ![e].after = made]
  /\ UNCHANGED <<planOf, cards>> /\ Elsewhere

(* Bars are read and the plan replayed from them: ready with the latest     *)
(* setup when it is past `after`, plain when there is none, when it has     *)
(* expired or been touched out, or when the bars have a gap.                *)
Rebuild(e) ==
  /\ Step(e, "rebuild")
  /\ \E s \in {0} \union {x \in {made} : x > ev[e].after} :
       ev' = [ev EXCEPT ![e] = IF s # ev[e].plan.setup \/ ev[e].dead
                 THEN [@ EXCEPT !.at = "replace", !.next = s, !.reset = NoCard, !.dead = FALSE]
                 ELSE [Idle EXCEPT !.at = "entry", !.plan = ev[e].plan, !.opp = ev[e].opp]]
  /\ KeepsRows /\ Elsewhere

(* replace_unclaimed_plan                                                   *)
Replace(e) ==
  LET plan == [ev[e].plan EXCEPT !.setup = ev[e].next] IN
  /\ Step(e, "replace")
  /\ IF slot.plan = ev[e].plan /\ Replaceable
       THEN /\ slot' = Rearmed(plan, ev[e].after)
            /\ card' = Retired
            /\ ev' = [ev EXCEPT ![e].at = "reread", ![e].plan = plan,
                                 ![e].next = 0, ![e].after = 0]
       ELSE Done(e) /\ UNCHANGED <<slot, card>>
  /\ UNCHANGED <<planOf, sub, cooling, intent, pos, at, of, copy>> /\ Elsewhere

Reread(e) ==
  /\ Step(e, "reread")
  /\ ev' = [ev EXCEPT ![e].at = "entry", ![e].opp = slot.opp]
  /\ KeepsRows /\ Elsewhere

(* A quote at the stop or at the target ends the setup.                     *)
Invalidate(e) ==
  /\ Step(e, "entry") /\ ev[e].plan.setup # 0
  /\ IF slot.plan = ev[e].plan /\ Replaceable
       THEN /\ slot' = Rearmed([ev[e].plan EXCEPT !.setup = 0], made)
            /\ card' = Retired
       ELSE UNCHANGED <<slot, card>>
  /\ Done(e)
  /\ UNCHANGED <<planOf, sub, cooling, intent, pos, at, of, copy>> /\ Elsewhere

(* No setup, a claim, a position of the symbol, the trigger, the admission  *)
(* or the risk engine: nothing to publish.                                  *)
Decline(e) ==
  /\ Step(e, "entry")
  /\ Done(e)
  /\ KeepsRows /\ Elsewhere

(* Admitted on a quote of this moment.                                      *)
Admit(e) ==
  /\ Step(e, "entry")
  /\ ev[e].plan.setup # 0 /\ ev[e].opp = NoCard /\ ~PositionOpen
  /\ ev' = [ev EXCEPT ![e] = [Idle EXCEPT !.at = "publish", !.plan = ev[e].plan,
                                            !.rearms = slot.rearms]]
  /\ KeepsRows /\ Elsewhere

Fresh == {c \in Card : card[c] = "none"}

(* publish_orb refuses another plan, or a quote older than the last rearm.  *)
Publishable(e) ==
  /\ slot.plan = ev[e].plan
  /\ ~Claimed => slot.rearms = ev[e].rearms

(* publish_orb: the card and the link to it in one transaction; a card      *)
(* already linked is returned as it is.                                     *)
Publish(e) ==
  /\ Step(e, "publish") /\ Publishable(e)
  /\ \/ /\ Claimed
        /\ ev' = [ev EXCEPT ![e] = [Idle EXCEPT !.at = "enqueue", !.opp = slot.opp]]
        /\ UNCHANGED <<slot, card, planOf>>
     \/ /\ ~Claimed /\ Fresh # {}
        /\ LET c == CHOOSE x \in Fresh : TRUE IN
             /\ card' = [card EXCEPT ![c] = "awaiting"]
             /\ planOf' = [planOf EXCEPT ![c] = ev[e].plan]
             /\ slot' = [slot EXCEPT !.opp = c]
             /\ ev' = [ev EXCEPT ![e] = [Idle EXCEPT !.at = "enqueue", !.opp = c]]
  /\ UNCHANGED <<sub, cooling, intent, pos, at, of, copy>> /\ Elsewhere

(* Refused, or past the deadline of the plan.                               *)
PublishRefused(e) ==
  /\ Step(e, "publish")
  /\ Done(e)
  /\ KeepsRows /\ Elsewhere

(* wait_for gives up, a read fails, or the caller of the scan route goes    *)
(* away.  The thread of a store operation finishes it all the same.         *)
Timeout(e) ==
  /\ ev[e].at # "idle" /\ mishaps < budget.mishaps
  /\ mishaps' = mishaps + 1
  /\ Done(e)
  /\ KeepsRows /\ UNCHANGED <<budget, made, revised, closedAt>>

Evaluate(e) ==
  \/ Begin(e) \/ RearmRead(e) \/ RearmCommit(e) \/ Refresh(e) \/ ReadLinked(e)
  \/ MarkReset(e) \/ Rebuild(e) \/ Replace(e) \/ Reread(e)
  \/ Invalidate(e) \/ Decline(e) \/ Admit(e) \/ Publish(e) \/ PublishRefused(e)

=============================================================================
