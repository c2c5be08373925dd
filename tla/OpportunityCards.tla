-------------------------- MODULE OpportunityCards --------------------------
(***************************************************************************)
(* The opportunity rows of one symbol as the strategy sees them: published, *)
(* decided by the operator or by the auto trigger, submitted, released,     *)
(* withdrawn.  ExecutionService.decide appears here by what it does to the  *)
(* row and by the outcome its caller classifies; module EntryExecution has  *)
(* its venue and its ledger in full.                                        *)
(***************************************************************************)
EXTENDS Naturals, FiniteSets

CONSTANTS Card,       \* opportunities that may be published for the symbol
          NoCard,     \* "no opportunity"
          Caller      \* who may be inside decide at one time

ASSUME NoCardAssumption == NoCard \notin Card
ASSUME CallerAssumption == {"auto"} \subseteq Caller /\ Caller \subseteq {"auto", "operator"}

VARIABLES
  card,     \* [Card -> status of the row, "none" before it is published]
  sub,      \* cards whose submitted_at is set
  cooling,  \* cards whose auto_trigger_retry_at lies ahead
  intent,   \* [Card -> the entry intent of the card]
  pos,      \* [Card -> the ledger row the entry opened]
  at, of,   \* [Caller -> where decide stands, and on which card]
  copy      \* the status in the row the auto trigger is about to write back

cards == <<card, sub, cooling, intent, pos, at, of, copy>>

(* "dead": skipped, discarded or expired; nothing here tells them apart.     *)
CardStatus == {"none", "awaiting", "approving", "executed", "dead"}

(* How decide ends for its caller (outcome_taxonomy.classify).              *)
Outcome == {"bought", "retry", "terminal", "unknown"}

(* Inside decide up to "booked"; then the auto trigger's bookkeeping.        *)
Seat == {"idle", "gates", "placing", "waiting", "booked",
         "writing", "audit", "approved", "clearing"}

CardsTypeOK ==
  /\ card \in [Card -> CardStatus]
  /\ sub \subseteq Card
  /\ cooling \subseteq Card
  /\ intent \in [Card -> {"none", "open", "settled"}]
  /\ pos \in [Card -> {"none", "open", "closed"}]
  /\ at \in [Caller -> Seat]
  /\ of \in [Caller -> Card \union {NoCard}]
  /\ copy \in CardStatus

CardsInit ==
  /\ card = [c \in Card |-> "none"]
  /\ sub = {}
  /\ cooling = {}
  /\ intent = [c \in Card |-> "none"]
  /\ pos = [c \in Card |-> "none"]
  /\ at = [a \in Caller |-> "idle"]
  /\ of = [a \in Caller |-> NoCard]
  /\ copy = "none"

Unresolved(c) == intent[c] = "open"    \* live, or UNKNOWN
PositionOpen  == \E c \in Card : pos[c] = "open"
Deciding(c)   == \E a \in Caller : of[a] = c

-----------------------------------------------------------------------------
(* decide.                                                                   *)

(* What the auto trigger does about an outcome, in the step that raised it.  *)
(* A terminal refusal discards the card unless it moved on; a transient one  *)
(* backs off; after UNKNOWN nothing is written.  _set_retry and _clear_retry *)
(* read the whole row, and write the whole of it back, unless there is no    *)
(* retry to clear; after a purchase the audit log comes first.               *)
Afterwards(c, out, status) ==
  LET left == IF out = "terminal" /\ status = "awaiting" THEN "dead" ELSE status IN
  /\ card' = [card EXCEPT ![c] = left]
  /\ cooling' = CASE out = "retry" -> cooling \union {c}
                  [] out = "terminal" -> cooling \ {c}
                  [] OTHER -> cooling
  /\ \/ /\ out \in {"retry", "terminal"}
        /\ at' = [at EXCEPT !["auto"] = "writing"] /\ copy' = left
     \/ /\ out \in {"terminal", "unknown"}
        /\ at' = [at EXCEPT !["auto"] = "audit"] /\ UNCHANGED copy
     \/ /\ out = "bought"
        /\ at' = [at EXCEPT !["auto"] = "approved"] /\ UNCHANGED copy

(* decide leaves its card with `status`.  The auto trigger has its books to  *)
(* keep before it lets go of the key; the operator just reads.               *)
Return(a, out, status) ==
  IF a = "auto"
    THEN Afterwards(of[a], out, status) /\ UNCHANGED of
    ELSE /\ card' = [card EXCEPT ![of[a]] = status]
         /\ at' = [at EXCEPT ![a] = "idle"]
         /\ of' = [of EXCEPT ![a] = NoCard]
         /\ UNCHANGED <<cooling, copy>>

(* The row is in hand.  The event loop is inside _set_retry or _clear_retry  *)
(* and runs nobody else; a store operation given to a worker thread before   *)
(* goes on.                                                                  *)
InHand == at["auto"] \in {"writing", "clearing"}

(* OPPORTUNITIES.update: the row becomes what was read, whatever was done to *)
(* it since; a write that fails is logged and leaves it alone.               *)
WrittenBack ==
  \E status \in {copy, card[of["auto"]]} :
    card' = [card EXCEPT ![of["auto"]] = status]

WriteBack ==
  /\ at["auto"] = "writing"
  /\ WrittenBack
  /\ at' = [at EXCEPT !["auto"] = "audit"]
  /\ copy' = "none"
  /\ UNCHANGED <<sub, cooling, intent, pos, of>>

ClearRetry ==
  /\ at["auto"] = "approved"
  /\ copy' = card[of["auto"]]
  /\ cooling' = cooling \ {of["auto"]}
  /\ at' = [at EXCEPT !["auto"] = "clearing"]
  /\ UNCHANGED <<card, sub, intent, pos, of>>

SymbolFree(c) == ~PositionOpen /\ \A d \in Card : d # c => ~Unresolved(d)

(* The card is awaiting and nothing else of the symbol is open or           *)
(* unresolved; otherwise decide refuses without a write.                    *)
Approve(a, c) ==
  /\ at[a] = "idle" /\ card[c] = "awaiting" /\ SymbolFree(c)
  /\ at' = [at EXCEPT ![a] = "gates"]
  /\ of' = [of EXCEPT ![a] = c]
  /\ UNCHANGED <<card, sub, cooling, intent, pos, copy>>

(* A gate, the quote or the commit refuses before anything is   *)
(* written; the text of the error decides whether it is worth a retry.      *)
Refused(a) ==
  /\ at[a] = "gates"
  /\ \E out \in {"retry", "terminal"} : Return(a, out, card[of[a]])
  /\ UNCHANGED <<sub, intent, pos>>

(* commit_approval_bundle: a card with any entry intent is refused.         *)
Commit(a) ==
  /\ at[a] = "gates"
  /\ card[of[a]] = "awaiting" /\ intent[of[a]] = "none"
  /\ card' = [card EXCEPT ![of[a]] = "approving"]
  /\ intent' = [intent EXCEPT ![of[a]] = "open"]
  /\ at' = [at EXCEPT ![a] = "placing"]
  /\ UNCHANGED <<sub, cooling, pos, of, copy>>

(* store.update writes back the coroutine's own copy of the row.            *)
Placed(a) ==
  /\ at[a] = "placing"
  /\ card' = [card EXCEPT ![of[a]] = "approving"]
  /\ sub' = sub \union {of[a]}
  /\ at' = [at EXCEPT ![a] = "waiting"]
  /\ UNCHANGED <<cooling, intent, pos, of, copy>>

(* ENTRY_ORDER_REJECTED                                                     *)
Rejected(a) ==
  /\ at[a] = "placing"
  /\ intent' = [intent EXCEPT ![of[a]] = "settled"]
  /\ Return(a, "terminal", "awaiting")
  /\ UNCHANGED <<sub, pos>>

(* ENTRY_STATE_UNKNOWN: the venue is silent, or the last quote check blocks *)
(* the submission and its error is wrapped in the same words.               *)
Silent(a) ==
  /\ at[a] = "placing"
  /\ \E s \in {"open", "settled"} : intent' = [intent EXCEPT ![of[a]] = s]
  /\ Return(a, "unknown", card[of[a]])
  /\ UNCHANGED <<sub, pos>>

(* ENTRY_FILL_FAILED: canceled empty, and released as this coroutine's copy.*)
Unfilled(a) ==
  /\ at[a] = "waiting"
  /\ intent' = [intent EXCEPT ![of[a]] = "settled"]
  /\ Return(a, "retry", "awaiting")
  /\ UNCHANGED <<sub, pos>>

(* The cancel could not be confirmed.                                       *)
Unsettled(a) ==
  /\ at[a] = "waiting"
  /\ Return(a, "unknown", card[of[a]])
  /\ UNCHANGED <<sub, intent, pos>>

(* STOP_FAILED_FLATTENED, confirmed or not.                                 *)
Flattened(a) ==
  /\ at[a] = "waiting"
  /\ \E s \in {"open", "settled"} : intent' = [intent EXCEPT ![of[a]] = s]
  /\ Return(a, "unknown", "dead")
  /\ UNCHANGED <<sub, pos>>

(* The ledger row is opened and the intent resolved; the card comes last.   *)
Booked(a) ==
  /\ at[a] = "waiting"
  /\ ~PositionOpen
  /\ pos' = [pos EXCEPT ![of[a]] = "open"]
  /\ intent' = [intent EXCEPT ![of[a]] = "settled"]
  /\ at' = [at EXCEPT ![a] = "booked"]
  /\ UNCHANGED <<card, sub, cooling, of, copy>>

Executed(a) ==
  /\ at[a] = "booked"
  /\ Return(a, "bought", "executed")
  /\ UNCHANGED <<sub, intent, pos>>

Decide(a) ==
  \/ Refused(a) \/ Commit(a) \/ Placed(a) \/ Rejected(a) \/ Silent(a)
  \/ Unfilled(a) \/ Unsettled(a) \/ Flattened(a) \/ Booked(a) \/ Executed(a)

-----------------------------------------------------------------------------
(* The operator, the clock and the reconciliation pass.                      *)

(* Skipped by the operator, or past its time.                               *)
Dismiss(c) ==
  /\ card[c] = "awaiting"
  /\ card' = [card EXCEPT ![c] = "dead"]
  /\ UNCHANGED <<sub, cooling, intent, pos, at, of, copy>>

(* The retry time of a card comes.                                          *)
CoolDown(c) ==
  /\ c \in cooling
  /\ cooling' = cooling \ {c}
  /\ UNCHANGED <<card, sub, intent, pos, at, of, copy>>

(* release_stale_approving for claims older than 90 seconds, an attempt     *)
(* that is still running or not, then withdraw_unactionable.                *)
ReleaseStale ==
  /\ \E S \in SUBSET {c \in Card : card[c] = "approving"} :
       card' = [c \in Card |->
                  LET s == IF c \in S THEN "awaiting" ELSE card[c]
                  IN  IF s = "awaiting" /\ PositionOpen THEN "dead" ELSE s]
  /\ UNCHANGED <<sub, cooling, intent, pos, at, of, copy>>

(* reconcile_order_intents and recover_entry_positions: the venue tells     *)
(* what became of an entry nobody drives; the card is not touched.          *)
Reconciled(c) ==
  /\ Unresolved(c) /\ ~Deciding(c)
  /\ intent' = [intent EXCEPT ![c] = "settled"]
  /\ \E bought \in BOOLEAN :
       pos' = IF bought /\ ~PositionOpen /\ pos[c] = "none"
                THEN [pos EXCEPT ![c] = "open"] ELSE pos
  /\ UNCHANGED <<card, sub, cooling, at, of, copy>>

=============================================================================
