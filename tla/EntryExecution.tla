-------------------------- MODULE EntryExecution --------------------------
(***************************************************************************)
(* The entry half of the desk: ExecutionService.decide from the click to an *)
(* open position, together with the reconciliation pass that runs beside    *)
(* it, the venue that answers both, and the restart of the process.         *)
(*                                                                          *)
(* Everything here concerns ONE symbol: blocking, orphan incidents, the     *)
(* open position and the venue's net holding are all kept per symbol, and   *)
(* two symbols meet only in the portfolio limits of the risk engine.        *)
(* A step of a coroutine ends where the code awaits the venue, a quote or   *)
(* the audit log; between two awaits the event loop runs nobody else.       *)
(*                                                                          *)
(* The protective stop and the emergency flatten appear by the outcomes     *)
(* their callers see, and the gates that only read (session, risk,          *)
(* liquidity, data freshness) as refusals that may always happen.           *)
(***************************************************************************)
EXTENDS OrderIntent, FiniteSets

CONSTANTS Card,       \* opportunities drawn for the symbol
          Request,    \* request ids of approvals
          Worker,     \* coroutines running decide
          NoKey,      \* "no approval in hand"
          Qty,        \* shares of an entry order
          MaxCrash    \* bound: restarts of the process

ASSUME QtyAssumption == Qty \in Nat \ {0}
ASSUME NoKeyAssumption == NoKey \notin Card \X Request
ASSUME MaxCrashAssumption == MaxCrash \in Nat

Key == Card \X Request          \* the idempotency key entry:{card}:{request}

VARIABLES
  card,      \* [Card -> status of the opportunity row]
  intent,    \* [Key -> status of the entry intent, or "none"]
  order,     \* [Key -> the venue's BUY order for it, or "none"]
  filled,    \* [Key -> shares that order bought]
  wire,      \* submissions whose fate at the venue is undecided
  held,      \* shares of the symbol the venue holds for us
  stop,      \* shares covered by a resting protective stop
  row,       \* [Key -> ledger row of the position: "none", "open", "closed"]
  rowQty,    \* shares of the open ledger row
  incident,  \* an external-position incident blocks the symbol
  fresh,     \* reconciliation succeeded since the process started
  pc, job,   \* [Worker -> where decide stands, and the key it drives]
  seen,      \* [Worker -> intent status in the bundle the commit returned]
  rpc,       \* where the reconciliation pass stands
  snap,      \* [Key -> unresolved status the pass read, "none" once handled]
  at,        \* the intent or recovery candidate the pass is awaiting
  found,     \* what the venue said about it
  rpos,      \* the holding last listed: what the adapter's cache answers
  sweep,     \* stray BUY orders the pass listed for cancellation
  crashes    \* restarts so far

desk  == <<card, intent, row, rowQty, incident>>       \* the database
venue == <<order, filled, wire, held, stop>>           \* the broker
task  == <<pc, job, seen>>                             \* decide
pass  == <<rpc, snap, at, found, rpos, sweep, fresh>>  \* reconciliation
vars  == <<desk, venue, task, pass, crashes>>

CardStatus == {"awaiting", "approving", "executed", "skipped", "expired", "discarded"}
RowStatus  == {"none", "open", "closed"}
TaskPc == {"idle", "gates", "priced", "committed", "locating", "checking", "sending",
           "waiting", "canceling", "rereading", "protecting", "flattening",
           "booking", "booked", "resolved"}
PassPc == {"idle", "intents", "positions", "recover", "confirm", "flat", "orphans",
           "protect", "cards", "sweep", "cancel"}

NoOrder == [st |-> "none", qty |-> 0]

HasIntent(k)    == intent[k] # "none"
IsUnresolved(k) == intent[k] \in Unresolved
Working(k)      == order[k] \in VenueWorking
OpenRow         == \E k \in Key : row[k] = "open"

(* entry_activity.entry_active: this process is inside decide for the card. *)
Active(c) == \E w \in Worker : pc[w] # "idle" /\ job[w][1] = c

TypeOK ==
  /\ card \in [Card -> CardStatus]
  /\ intent \in [Key -> IntentStatus \union {"none"}]
  /\ order \in [Key -> VenueStatus \union {"none"}]
  /\ filled \in [Key -> Nat]
  /\ wire \in SUBSET Key
  /\ held \in Nat
  /\ stop \in Nat
  /\ row \in [Key -> RowStatus]
  /\ rowQty \in Nat
  /\ incident \in BOOLEAN
  /\ fresh \in BOOLEAN
  /\ pc \in [Worker -> TaskPc]
  /\ job \in [Worker -> Key \union {NoKey}]
  /\ \A w \in Worker : pc[w] # "idle" => job[w] \in Key
  /\ seen \in [Worker -> Unresolved \union {"none"}]
  /\ rpc \in PassPc
  /\ snap \in [Key -> Unresolved \union {"none"}]
  /\ at \in Key \union {NoKey}
  /\ rpc = "confirm" => at \in Key
  /\ found \in [st : VenueStatus \union {"none"}, qty : Nat]
  /\ rpos \in Nat
  /\ sweep \in SUBSET Key
  /\ crashes \in Nat

Init ==
  /\ card = [c \in Card |-> "awaiting"]
  /\ intent = [k \in Key |-> "none"]
  /\ order = [k \in Key |-> "none"]
  /\ filled = [k \in Key |-> 0]
  /\ wire = {}
  /\ held = 0 /\ stop = 0
  /\ row = [k \in Key |-> "none"]
  /\ rowQty = 0
  /\ incident = FALSE
  /\ fresh = FALSE
  /\ pc = [w \in Worker |-> "idle"]
  /\ job = [w \in Worker |-> NoKey]
  /\ seen = [w \in Worker |-> "none"]
  /\ rpc = "idle"
  /\ snap = [k \in Key |-> "none"]
  /\ at = NoKey
  /\ found = NoOrder
  /\ rpos = 0
  /\ sweep = {}
  /\ crashes = 0

-----------------------------------------------------------------------------
(* decide: from the click to the committed bundle.                           *)

Goto(w, l) == pc' = [pc EXCEPT ![w] = l]

(* The coroutine returns or raises; what it leaves behind is in the stores. *)
Leave(w) ==
  /\ pc' = [pc EXCEPT ![w] = "idle"]
  /\ job' = [job EXCEPT ![w] = NoKey]
  /\ seen' = [seen EXCEPT ![w] = "none"]

Approve(w, k) ==
  /\ pc[w] = "idle"
  /\ card[k[1]] = "awaiting"
  /\ Goto(w, "gates")
  /\ job' = [job EXCEPT ![w] = k]
  /\ UNCHANGED <<seen, desk, venue, pass, crashes>>

Skip(c) ==
  /\ card[c] = "awaiting"
  /\ card' = [card EXCEPT ![c] = "skipped"]
  /\ UNCHANGED <<intent, row, rowQty, incident, venue, task, pass, crashes>>

(* The hour of the card is over: decide and withdraw_unactionable both      *)
(* claim it away from "awaiting".                                           *)
Lapse(c) ==
  /\ card[c] = "awaiting"
  /\ card' = [card EXCEPT ![c] = "expired"]
  /\ UNCHANGED <<intent, row, rowQty, incident, venue, task, pass, crashes>>

(* A gate, the quote re-read, or evidence that cannot be built refuses.     *)
Refuse(w) ==
  /\ pc[w] \in {"gates", "priced"}
  /\ Leave(w)
  /\ UNCHANGED <<desk, venue, pass, crashes>>

(* Mutant of SymbolFree: an UNKNOWN intent is not counted as exposure.      *)
SymbolFreeForgetsUnknown(c) ==
  /\ \A k \in Key : k[1] # c => ~IsUnresolved(k) \/ intent[k] = Unknown
  /\ stop = 0
  /\ ~incident
  /\ ~OpenRow

(* No unresolved intent of another card (a resting stop is one too), no     *)
(* incident and no open position.                                           *)
SymbolFree(c) ==
  /\ \A k \in Key : k[1] # c => ~IsUnresolved(k)
  /\ stop = 0
  /\ ~incident
  /\ ~OpenRow

CheckSymbol(w) ==
  /\ pc[w] = "gates"
  /\ fresh
  /\ SymbolFree(job[w][1])
  /\ Goto(w, "priced")
  /\ UNCHANGED <<job, seen, desk, venue, pass, crashes>>

(* Mutant of CommitCreates: only an unresolved intent blocks a second one.  *)
CommitCreatesAfterSettled(k) ==
  /\ card[k[1]] = "awaiting"
  /\ \A r \in Request : ~IsUnresolved(<<k[1], r>>)

(* commit_approval_bundle for a card no approval has touched yet.           *)
CommitCreates(k) ==
  /\ card[k[1]] = "awaiting"
  /\ \A r \in Request : ~HasIntent(<<k[1], r>>)

(* The same request meets its own unresolved intent: a transport retry. The *)
(* first unresolved intent of the card decides whose retry it is.           *)
CommitReuses(k) ==
  /\ card[k[1]] \in {"awaiting", "approving"}
  /\ IsUnresolved(k)

CommitNew(w) ==
  LET k == job[w] IN
  /\ pc[w] = "priced"
  /\ CommitCreates(k)
  /\ card' = [card EXCEPT ![k[1]] = "approving"]
  /\ intent' = [intent EXCEPT ![k] = Created]
  /\ seen' = [seen EXCEPT ![w] = Created]
  /\ Goto(w, "committed")
  /\ UNCHANGED <<job, row, rowQty, incident, venue, pass, crashes>>

CommitRetry(w) ==
  LET k == job[w] IN
  /\ pc[w] = "priced"
  /\ CommitReuses(k)
  /\ card' = [card EXCEPT ![k[1]] = "approving"]
  /\ seen' = [seen EXCEPT ![w] = intent[k]]
  /\ Goto(w, "committed")
  /\ UNCHANGED <<intent, job, row, rowQty, incident, venue, pass, crashes>>

-----------------------------------------------------------------------------
(* _place_entry: transmit once, or adopt what an earlier attempt sent.       *)

(* Mutant of SubmitClaim: a plain transition in place of the                *)
(* compare-and-swap.                                                        *)
SubmitClaimUnguarded(w) ==
  LET k == job[w] IN
  /\ pc[w] = "committed"
  /\ MayResubmit(seen[w])
  /\ intent' = [intent EXCEPT ![k] = Submitting]
  /\ Goto(w, "checking")
  /\ UNCHANGED <<card, row, rowQty, incident, job, seen, venue, pass, crashes>>

SubmitClaim(w) ==
  LET k == job[w] IN
  /\ pc[w] = "committed"
  /\ MayResubmit(seen[w])
  /\ intent[k] = Created
  /\ intent' = [intent EXCEPT ![k] = Submitting]
  /\ Goto(w, "checking")
  /\ UNCHANGED <<card, row, rowQty, incident, job, seen, venue, pass, crashes>>

(* The compare-and-swap was lost, or another coroutine owns the settling.   *)
EntryInFlight(w) ==
  /\ pc[w] = "committed"
  /\ \/ MayResubmit(seen[w]) /\ intent[job[w]] # Created
     \/ ~MayResubmit(seen[w]) /\ seen[w] # Unknown
  /\ Leave(w)
  /\ UNCHANGED <<desk, venue, pass, crashes>>

ResumeUnknown(w) ==
  /\ pc[w] = "committed"
  /\ seen[w] = Unknown
  /\ Goto(w, "locating")
  /\ UNCHANGED <<job, seen, desk, venue, pass, crashes>>

(* _recover_entry finds nothing: absence is not evidence.                   *)
RecoverFails(w) ==
  LET k == job[w] IN
  /\ pc[w] = "locating"
  /\ intent' = [intent EXCEPT ![k] = MarkUnknown(@)]
  /\ Leave(w)
  /\ UNCHANGED <<card, row, rowQty, incident, venue, pass, crashes>>

(* _recover_entry adopts the order; an illegal move raises and the attempt  *)
(* ends with the card still claimed.                                        *)
RecoverAdopts(w) ==
  LET k == job[w]
      t == IntentStatusFor(order[k], filled[k]) IN
  /\ pc[w] = "locating"
  /\ order[k] # "none"
  /\ IF intent[k] = t \/ CanTransition(intent[k], t)
       THEN /\ intent' = [intent EXCEPT ![k] = t]
            /\ card' = [card EXCEPT ![k[1]] = "approving"]
            /\ Goto(w, "waiting")
            /\ UNCHANGED <<job, seen>>
       ELSE Leave(w) /\ UNCHANGED <<intent, card>>
  /\ UNCHANGED <<row, rowQty, incident, venue, pass, crashes>>

(* The quote re-read before transmission refuses: provably unsent.          *)
SubmissionBlocked(w) ==
  /\ pc[w] = "checking"
  /\ intent' = [intent EXCEPT ![job[w]] = Rejected]
  /\ Leave(w)
  /\ UNCHANGED <<card, row, rowQty, incident, venue, pass, crashes>>

Transmit(w) ==
  /\ pc[w] = "checking"
  /\ wire' = wire \union {job[w]}
  /\ Goto(w, "sending")
  /\ UNCHANGED <<job, seen, desk, order, filled, held, stop, pass, crashes>>

(* The venue answered with a record. store.update writes the card back as   *)
(* this coroutine last saw it.                                              *)
ReplyRecord(w) ==
  LET k == job[w] IN
  /\ pc[w] = "sending"
  /\ order[k] # "none"
  /\ \E s \in {Submitted, Acknowledged} : intent' = [intent EXCEPT ![k] = s]
  /\ card' = [card EXCEPT ![k[1]] = "approving"]
  /\ Goto(w, "waiting")
  /\ UNCHANGED <<job, seen, row, rowQty, incident, venue, pass, crashes>>

(* The venue said no: no order exists and the card goes back to the queue.  *)
ReplyRejection(w) ==
  LET k == job[w] IN
  /\ pc[w] = "sending"
  /\ k \in wire
  /\ wire' = wire \ {k}
  /\ intent' = [intent EXCEPT ![k] = Rejected]
  /\ card' = [card EXCEPT ![k[1]] = "awaiting"]
  /\ Leave(w)
  /\ UNCHANGED <<row, rowQty, incident, order, filled, held, stop, pass, crashes>>

(* Silence: the order may be live, now or later.                            *)
ReplyLost(w) ==
  /\ pc[w] = "sending"
  /\ intent' = [intent EXCEPT ![job[w]] = MarkUnknown(@)]
  /\ Leave(w)
  /\ UNCHANGED <<card, row, rowQty, incident, venue, pass, crashes>>

-----------------------------------------------------------------------------
(* Settlement: wait for the fill, or cancel and read what happened.          *)

FillSeen(w) ==
  /\ pc[w] = "waiting"
  /\ order[job[w]] = "filled"
  /\ Goto(w, "protecting")
  /\ UNCHANGED <<job, seen, desk, venue, pass, crashes>>

(* wait_for_fill raised: timeout, canceled, rejected.                       *)
FillGivesUp(w) ==
  LET k == job[w] IN
  /\ pc[w] = "waiting"
  /\ intent' = [intent EXCEPT ![k] = SafeTransition(@, CancelPending)]
  /\ Goto(w, "canceling")
  /\ UNCHANGED <<job, seen, card, row, rowQty, incident, venue, pass, crashes>>

(* cancel_order reaches the venue, or fails, and is not waited for.         *)
CancelEntry(w) ==
  LET k == job[w] IN
  /\ pc[w] = "canceling"
  /\ \E reached \in BOOLEAN :
       order' = IF reached /\ Working(k) THEN [order EXCEPT ![k] = "canceled"] ELSE order
  /\ Goto(w, "rereading")
  /\ UNCHANGED <<job, seen, desk, filled, wire, held, stop, pass, crashes>>

(* Unreadable or not terminal: the card stays claimed.                      *)
SettleUnknown(w) ==
  /\ pc[w] = "rereading"
  /\ intent' = [intent EXCEPT ![job[w]] = MarkUnknown(@)]
  /\ Leave(w)
  /\ UNCHANGED <<card, row, rowQty, incident, venue, pass, crashes>>

(* Mutant of SettleEmpty: the filled quantity of the dead order is not read. *)
SettleEmptyUnread(w) ==
  LET k == job[w] IN
  /\ pc[w] = "rereading"
  /\ order[k] \in VenueDone
  /\ intent' = [intent EXCEPT ![k] = SafeTransition(@, Canceled)]
  /\ card' = [card EXCEPT ![k[1]] = "awaiting"]
  /\ Leave(w)
  /\ UNCHANGED <<row, rowQty, incident, venue, pass, crashes>>

SettleEmpty(w) ==
  LET k == job[w] IN
  /\ pc[w] = "rereading"
  /\ order[k] \in VenueDone
  /\ filled[k] = 0
  /\ intent' = [intent EXCEPT ![k] = SafeTransition(@, Canceled)]
  /\ card' = [card EXCEPT ![k[1]] = "awaiting"]
  /\ Leave(w)
  /\ UNCHANGED <<row, rowQty, incident, venue, pass, crashes>>

SettlePartial(w) ==
  LET k == job[w] IN
  /\ pc[w] = "rereading"
  /\ order[k] \in VenueDone
  /\ filled[k] > 0
  /\ intent' = [intent EXCEPT ![k] = SafeTransition(@, PartiallyFilled)]
  /\ Goto(w, "protecting")
  /\ UNCHANGED <<job, seen, card, row, rowQty, incident, venue, pass, crashes>>

-----------------------------------------------------------------------------
(* Protection, the ledger row and the end of decide.                         *)

(* A stop rests: placed now, or one already resting for the symbol adopted. *)
StopRests(w) ==
  /\ pc[w] = "protecting"
  /\ stop' = IF stop > 0 THEN stop ELSE filled[job[w]]
  /\ Goto(w, "booking")
  /\ UNCHANGED <<job, seen, desk, order, filled, wire, held, pass, crashes>>

(* Mutant of StopSwitchedOff: the branch without a stop skips the ledger.   *)
StopSwitchedOffUnbooked(w) ==
  /\ pc[w] = "protecting"
  /\ Goto(w, "resolved")
  /\ UNCHANGED <<job, seen, desk, venue, pass, crashes>>

(* Automatic stops are switched off: the position is booked without one.    *)
StopSwitchedOff(w) ==
  /\ pc[w] = "protecting"
  /\ Goto(w, "booking")
  /\ UNCHANGED <<job, seen, desk, venue, pass, crashes>>

StopFails(w) ==
  /\ pc[w] = "protecting"
  /\ Goto(w, "flattening")
  /\ UNCHANGED <<job, seen, desk, venue, pass, crashes>>

(* Mutant of FlattenConfirmed: shares the venue no longer holds are sold.   *)
FlattenOversold(w) ==
  LET k == job[w] IN
  /\ pc[w] = "flattening"
  /\ held' = held - filled[k]
  /\ stop' = 0
  /\ IF CanTransition(intent[k], Filled)
       THEN /\ intent' = [intent EXCEPT ![k] = Filled]
            /\ card' = [card EXCEPT ![k[1]] = "discarded"]
       ELSE UNCHANGED <<intent, card>>
  /\ Leave(w)
  /\ UNCHANGED <<row, rowQty, incident, order, filled, wire, pass, crashes>>

(* The emergency sell is confirmed: the fill is resolved, the card dies.    *)
FlattenConfirmed(w) ==
  LET k == job[w] IN
  /\ pc[w] = "flattening"
  /\ filled[k] <= held
  /\ held' = held - filled[k]
  /\ stop' = 0
  /\ IF CanTransition(intent[k], Filled)
       THEN /\ intent' = [intent EXCEPT ![k] = Filled]
            /\ card' = [card EXCEPT ![k[1]] = "discarded"]
       ELSE UNCHANGED <<intent, card>>               \* IllegalTransition
  /\ Leave(w)
  /\ UNCHANGED <<row, rowQty, incident, order, filled, wire, pass, crashes>>

(* Not provably flat: any part may have been sold, the intent stays open.   *)
FlattenUnconfirmed(w) ==
  LET k == job[w] IN
  /\ pc[w] = "flattening"
  /\ \E n \in 0..filled[k] : n <= held /\ held' = held - n
  /\ stop' \in {0, stop}
  /\ intent' = [intent EXCEPT ![k] = MarkUnknown(@)]
  /\ card' = [card EXCEPT ![k[1]] = "discarded"]
  /\ Leave(w)
  /\ UNCHANGED <<row, rowQty, incident, order, filled, wire, pass, crashes>>

(* LEDGER.open_from_opportunity, which refuses a second row for the symbol. *)
BookPosition(w) ==
  LET k == job[w] IN
  /\ pc[w] = "booking"
  /\ IF OpenRow
       THEN Leave(w) /\ UNCHANGED <<row, rowQty>>     \* DuplicateOpenPosition
       ELSE /\ row' = [row EXCEPT ![k] = "open"]
            /\ rowQty' = filled[k]
            /\ Goto(w, "booked")
            /\ UNCHANGED <<job, seen>>
  /\ UNCHANGED <<card, intent, incident, venue, pass, crashes>>

ResolveEntry(w) ==
  /\ pc[w] = "booked"
  /\ intent' = [intent EXCEPT ![job[w]] = SafeTransition(@, Filled)]
  /\ Goto(w, "resolved")
  /\ UNCHANGED <<job, seen, card, row, rowQty, incident, venue, pass, crashes>>

(* The last store.update: the card becomes EXECUTED whatever it is by now.  *)
FinishEntry(w) ==
  /\ pc[w] = "resolved"
  /\ card' = [card EXCEPT ![job[w][1]] = "executed"]
  /\ Leave(w)
  /\ UNCHANGED <<intent, row, rowQty, incident, venue, pass, crashes>>

Decide(w) ==
  \/ \E k \in Key : Approve(w, k)
  \/ Refuse(w) \/ CheckSymbol(w) \/ CommitNew(w) \/ CommitRetry(w)
  \/ SubmitClaim(w) \/ EntryInFlight(w) \/ ResumeUnknown(w)
  \/ RecoverFails(w) \/ RecoverAdopts(w)
  \/ SubmissionBlocked(w) \/ Transmit(w)
  \/ ReplyRecord(w) \/ ReplyRejection(w) \/ ReplyLost(w)
  \/ FillSeen(w) \/ FillGivesUp(w) \/ CancelEntry(w)
  \/ SettleUnknown(w) \/ SettleEmpty(w) \/ SettlePartial(w)
  \/ StopRests(w) \/ StopSwitchedOff(w) \/ StopFails(w) \/ FlattenConfirmed(w) \/ FlattenUnconfirmed(w)
  \/ BookPosition(w) \/ ResolveEntry(w) \/ FinishEntry(w)

-----------------------------------------------------------------------------
(* The venue. A submission may arrive long after its sender gave up on it.   *)

Arrive(k) ==
  /\ k \in wire
  /\ wire' = wire \ {k}
  /\ order' = [order EXCEPT ![k] = "accepted"]
  /\ UNCHANGED <<filled, held, stop, desk, task, pass, crashes>>

Vanish(k) ==
  /\ k \in wire
  /\ \A w \in Worker : ~(pc[w] = "sending" /\ job[w] = k)
  /\ wire' = wire \ {k}
  /\ UNCHANGED <<order, filled, held, stop, desk, task, pass, crashes>>

Fill(k) ==
  /\ Working(k)
  /\ filled' = [filled EXCEPT ![k] = @ + 1]
  /\ order' = [order EXCEPT ![k] = IF filled[k] + 1 = Qty THEN "filled" ELSE "partial"]
  /\ held' = held + 1
  /\ UNCHANGED <<wire, stop, desk, task, pass, crashes>>

(* A day order expires, the unfilled part gone; or the venue refuses after  *)
(* all what it had accepted.                                                *)
VenueExpires(k) ==
  /\ Working(k)
  /\ \/ order' = [order EXCEPT ![k] = "expired"]
     \/ filled[k] = 0 /\ order' = [order EXCEPT ![k] = "rejected"]
  /\ UNCHANGED <<filled, wire, held, stop, desk, task, pass, crashes>>

(* The protective stop triggers.                                            *)
StopTriggers ==
  /\ stop > 0 /\ held > 0
  /\ held' = IF stop >= held THEN 0 ELSE held - stop
  /\ stop' = 0
  /\ UNCHANGED <<order, filled, wire, desk, task, pass, crashes>>

Venue ==
  \/ \E k \in Key : Arrive(k) \/ Vanish(k) \/ Fill(k) \/ VenueExpires(k)
  \/ StopTriggers

-----------------------------------------------------------------------------
(* reconcile_positions, one pass at a time (the supervisor is single-flight) *)

PassGoto(l) == rpc' = l

(* Mutant of StartPass: an intent never sent is thought to need no settling. *)
StartPassSentOnly ==
  /\ rpc = "idle"
  /\ snap' = [k \in Key |-> IF IsUnresolved(k) /\ intent[k] # Created THEN intent[k] ELSE "none"]
  /\ PassGoto("intents")
  /\ UNCHANGED <<at, found, rpos, sweep, fresh, desk, venue, task, crashes>>

StartPass ==
  /\ rpc = "idle"
  /\ snap' = [k \in Key |-> IF IsUnresolved(k) THEN intent[k] ELSE "none"]
  /\ PassGoto("intents")
  /\ UNCHANGED <<at, found, rpos, sweep, fresh, desk, venue, task, crashes>>

(* An entry this process is still driving is left to its owner.             *)
SkipActive(k) ==
  /\ rpc = "intents" /\ at = NoKey
  /\ snap[k] # "none" /\ Active(k[1])
  /\ snap' = [snap EXCEPT ![k] = "none"]
  /\ UNCHANGED <<rpc, at, found, rpos, sweep, fresh, desk, venue, task, crashes>>

(* Never transmitted: retired, unless its owner claims it first.            *)
RetireUnsent(k) ==
  /\ rpc = "intents" /\ at = NoKey
  /\ snap[k] = Created /\ ~Active(k[1])
  /\ snap' = [snap EXCEPT ![k] = "none"]
  /\ intent' = [intent EXCEPT ![k] = TransitionFrom(@, Created, Rejected)]
  /\ UNCHANGED <<rpc, at, found, rpos, sweep, fresh, card, row, rowQty, incident,
                 venue, task, crashes>>

(* locate_broker_order answers None both for an order the venue does not    *)
(* have and for a venue that cannot be read.                                *)
LocateAnswer(k) == {NoOrder} \union
  (IF order[k] = "none" THEN {} ELSE {[st |-> order[k], qty |-> filled[k]]})

LocateIntent(k) ==
  /\ rpc = "intents" /\ at = NoKey
  /\ snap[k] \notin {"none", Created} /\ ~Active(k[1])
  /\ at' = k
  /\ found' \in LocateAnswer(k)
  /\ UNCHANGED <<rpc, snap, rpos, sweep, fresh, desk, venue, task, crashes>>

(* The answer is applied to the status the intent has by now.               *)
SettledStatus(s) ==
  LET t == IntentStatusFor(found.st, found.qty) IN
  IF found.st = "none" THEN TransitionFrom(s, snap[at], Unknown)
  ELSE IF s \notin Unresolved \/ s = t THEN s
  ELSE IF CanTransition(s, t) THEN t
  ELSE Unknown

SettleIntent ==
  /\ rpc = "intents" /\ at # NoKey
  /\ intent' = [intent EXCEPT ![at] = SettledStatus(@)]
  /\ snap' = [snap EXCEPT ![at] = "none"]
  /\ at' = NoKey /\ found' = NoOrder
  /\ UNCHANGED <<rpc, rpos, sweep, fresh, card, row, rowQty, incident, venue, task, crashes>>

IntentsDone ==
  /\ rpc = "intents" /\ at = NoKey
  /\ \A k \in Key : snap[k] = "none"
  /\ PassGoto("positions")
  /\ UNCHANGED <<snap, at, found, rpos, sweep, fresh, desk, venue, task, crashes>>

(* list_positions: the adapter's cache answers with an earlier listing, or  *)
(* the venue computes the holding now; the pass uses it awaits later.       *)
ReadPositions ==
  /\ rpc = "positions"
  /\ rpos' \in {held, rpos}
  /\ PassGoto("recover")
  /\ UNCHANGED <<snap, at, found, sweep, fresh, desk, venue, task, crashes>>

(* Another reader of the account (the desk page, the risk check) lists the  *)
(* positions, and the cache keeps the listing.                              *)
ListPositions ==
  /\ rpc \notin {"recover", "confirm", "flat", "orphans"}
  /\ rpos' = held
  /\ UNCHANGED <<rpc, snap, at, found, sweep, fresh, desk, venue, task, crashes>>

PassFails ==
  /\ rpc = "positions"
  /\ PassGoto("idle")
  /\ UNCHANGED <<snap, at, found, rpos, sweep, fresh, desk, venue, task, crashes>>

(* recover_entry_positions: entries whose fill could explain the holding.   *)
Matches ==
  {k \in Key : /\ HasIntent(k) /\ ~Active(k[1])
               /\ filled[k] > 0
               /\ row[k] = "none"}

FindRecovery ==
  /\ rpc = "recover"
  /\ IF rpos > 0 /\ ~OpenRow
       THEN \E M \in SUBSET Matches :      \* the others could not be located
              IF Cardinality(M) = 1
                THEN /\ at' \in M
                     /\ found' = [st |-> order[at'], qty |-> filled[at']]
                     /\ PassGoto("confirm")
                ELSE PassGoto("flat") /\ UNCHANGED <<at, found>>
       ELSE PassGoto("flat") /\ UNCHANGED <<at, found>>
  /\ UNCHANGED <<snap, rpos, sweep, fresh, desk, venue, task, crashes>>

(* Mutant of RecoverPosition: the row takes the ordered quantity.           *)
RecoverOrdered ==
  /\ rpc = "confirm"
  /\ \/ /\ ~Active(at[1])
        /\ found.qty = rpos
        /\ ~OpenRow
        /\ row' = [row EXCEPT ![at] = "open"]
        /\ rowQty' = Qty
     \/ UNCHANGED <<row, rowQty>>
  /\ at' = NoKey /\ found' = NoOrder
  /\ PassGoto("flat")
  /\ UNCHANGED <<snap, rpos, sweep, fresh, card, intent, incident, venue, task, crashes>>

(* Ownership is checked again before the row is restored. Positions and     *)
(* resting sells are listed again too, but through the same cache, so the   *)
(* answer may be the one already in hand; evidence that cannot be read or   *)
(* does not match restores none.                                            *)
RecoverPosition ==
  /\ rpc = "confirm"
  /\ \/ /\ ~Active(at[1])
        /\ found.qty = rpos
        /\ ~OpenRow
        /\ row' = [row EXCEPT ![at] = "open"]
        /\ rowQty' = found.qty
     \/ UNCHANGED <<row, rowQty>>
  /\ at' = NoKey /\ found' = NoOrder
  /\ PassGoto("flat")
  /\ UNCHANGED <<snap, rpos, sweep, fresh, card, intent, incident, venue, task, crashes>>

(* Sizes that disagree are blocked; a row the reply says is flat is closed. *)
CheckPositions ==
  /\ rpc = "flat"
  /\ incident' = (incident \/ (OpenRow /\ rpos > 0 /\ rowQty # rpos))
  /\ row' = IF rpos = 0 THEN [k \in Key |-> IF row[k] = "open" THEN "closed" ELSE row[k]]
                        ELSE row
  /\ rowQty' = IF rpos = 0 THEN 0 ELSE rowQty
  /\ PassGoto("orphans")
  /\ UNCHANGED <<snap, at, found, rpos, sweep, fresh, card, intent, venue, task, crashes>>

(* Mutant of BlockOrphans: any entry ever attempted explains the holding,   *)
(* whether or not this process is still inside it.                          *)
BlockOrphansUnowned ==
  LET orphan == /\ rpos > 0 /\ ~OpenRow
                /\ ~\E k \in Key : HasIntent(k)
  IN
  /\ rpc = "orphans"
  /\ incident' = ((incident \/ orphan) /\ rpos > 0)
  /\ card' = [c \in Card |-> IF orphan /\ card[c] = "awaiting" THEN "expired" ELSE card[c]]
  /\ PassGoto("protect")
  /\ UNCHANGED <<snap, at, found, rpos, sweep, fresh, intent, row, rowQty, venue, task, crashes>>

(* A holding nobody can explain blocks the symbol and withdraws its cards;  *)
(* a block lifts when the venue no longer reports the symbol.               *)
BlockOrphans ==
  LET orphan == /\ rpos > 0 /\ ~OpenRow
                /\ ~\E k \in Key : HasIntent(k) /\ Active(k[1])
  IN
  /\ rpc = "orphans"
  /\ incident' = ((incident \/ orphan) /\ rpos > 0)
  /\ card' = [c \in Card |-> IF orphan /\ card[c] = "awaiting" THEN "expired" ELSE card[c]]
  /\ PassGoto("protect")
  /\ UNCHANGED <<snap, at, found, rpos, sweep, fresh, intent, row, rowQty, venue, task, crashes>>

(* The protective sweep: install the missing stop, or flatten, or fail to   *)
(* look.                                                                    *)
ProtectPosition ==
  /\ rpc = "protect"
  /\ \/ /\ OpenRow /\ stop = 0 /\ held > 0
        /\ \/ stop' = (IF rowQty < held THEN rowQty ELSE held)
              /\ UNCHANGED <<row, rowQty, held>>
           \/ /\ held >= rowQty
              /\ held' = held - rowQty
              /\ row' = [k \in Key |-> IF row[k] = "open" THEN "closed" ELSE row[k]]
              /\ rowQty' = 0
              /\ UNCHANGED stop
     \/ UNCHANGED <<row, rowQty, held, stop>>
  /\ PassGoto("cards")
  /\ UNCHANGED <<snap, at, found, rpos, sweep, fresh, card, intent, incident,
                 order, filled, wire, task, crashes>>

(* release_stale_approving for the claims older than 90 seconds, then       *)
(* withdraw_unactionable.                                                   *)
ReleaseStale ==
  /\ rpc = "cards"
  /\ \E S \in SUBSET {c \in Card : card[c] = "approving"} :
       card' = [c \in Card |->
                  LET s == IF c \in S THEN "awaiting" ELSE card[c]
                  IN  IF s = "awaiting" /\ OpenRow THEN "discarded" ELSE s]
  /\ PassGoto("sweep")
  /\ UNCHANGED <<snap, at, found, rpos, sweep, fresh, intent, row, rowQty, incident,
                 venue, task, crashes>>

(* cancel_orphaned_entry_orders: nothing while any card is APPROVING. The   *)
(* listing is cached too, so an order listed as unfilled may have filled a  *)
(* part by now.                                                             *)
ListStrays ==
  /\ rpc = "sweep"
  /\ sweep' = IF \E c \in Card : card[c] = "approving" THEN {}
              ELSE {k \in Key : Working(k)}
  /\ PassGoto("cancel")
  /\ UNCHANGED <<snap, at, found, rpos, fresh, desk, venue, task, crashes>>

EndPass ==
  /\ rpc = "cancel"
  /\ \E S \in SUBSET sweep :               \* the cancels the venue accepted
       order' = [k \in Key |-> IF k \in S /\ Working(k) THEN "canceled" ELSE order[k]]
  /\ sweep' = {}
  /\ fresh' = TRUE
  /\ PassGoto("idle")
  /\ UNCHANGED <<snap, at, found, rpos, desk, filled, wire, held, stop, task, crashes>>

Reconcile ==
  \/ StartPass
  \/ \E k \in Key : SkipActive(k) \/ RetireUnsent(k) \/ LocateIntent(k)
  \/ SettleIntent \/ IntentsDone \/ ReadPositions \/ PassFails
  \/ FindRecovery \/ RecoverPosition \/ CheckPositions \/ BlockOrphans
  \/ ProtectPosition \/ ReleaseStale \/ ListStrays \/ EndPass

-----------------------------------------------------------------------------
(* The process dies: coroutines and the pass are gone, stores and venue are  *)
(* not, and entries wait for the first successful pass.                      *)
Crash ==
  /\ crashes < MaxCrash
  /\ crashes' = crashes + 1
  /\ pc' = [w \in Worker |-> "idle"]
  /\ job' = [w \in Worker |-> NoKey]
  /\ seen' = [w \in Worker |-> "none"]
  /\ rpc' = "idle"
  /\ snap' = [k \in Key |-> "none"]
  /\ at' = NoKey /\ found' = NoOrder /\ rpos' = held /\ sweep' = {}
  /\ fresh' = FALSE
  /\ UNCHANGED <<desk, venue>>

Next ==
  \/ \E w \in Worker : Decide(w)
  \/ \E c \in Card : Skip(c) \/ Lapse(c)
  \/ Venue
  \/ Reconcile
  \/ ListPositions
  \/ Crash

Spec == Init /\ [][Next]_vars
-----------------------------------------------------------------------------
(* Fairness. A coroutine that is running reaches its next await and is       *)
(* resumed after it (every venue call answers or times out); the supervisor  *)
(* starts a pass every 30 seconds, and list_positions neither fails forever  *)
(* nor answers from its 4-second cache forever.                              *)

Proceed(w) == pc[w] # "idle" /\ Decide(w)

ReadFresh == ReadPositions /\ rpos' = held

Fairness ==
  /\ \A w \in Worker : WF_vars(Proceed(w))
  /\ WF_vars(Reconcile)
  /\ SF_vars(ReadFresh)

FairSpec == Spec /\ Fairness

-----------------------------------------------------------------------------
(* Properties.                                                               *)

(* Statuses an intent never returns from to a state that may be transmitted. *)
PastSubmit == IntentStatus \ {Created, Submitting}

Sending(w) == pc[w] \in {"checking", "sending"}

(* Whoever stands between the claim and the venue's answer is alone there,   *)
(* and still finds the intent SUBMITTING: no retry, no second approval and   *)
(* no pass moved it while place_order was awaited. The unguarded transitions *)
(* of _place_entry therefore never meet an illegal state.                    *)
TransmissionIsOwned ==
  \A w \in Worker : Sending(w) =>
    /\ intent[job[w]] = Submitting
    /\ \A v \in Worker \ {w} : Sending(v) => job[v] # job[w]

(* A settled intent has nothing live behind it: its order cannot arrive,     *)
(* cannot fill, and one that is called dead bought no share. Reconciliation  *)
(* applies answers that are an await old, and a submission may land after    *)
(* its sender gave up, which is how this could go wrong.                     *)
SettledIsOver ==
  \A k \in Key : intent[k] \in Terminal =>
    /\ k \notin wire
    /\ ~Working(k)
    /\ intent[k] = Filled <=> filled[k] > 0

(* The ledger never claims shares its entry order did not buy, whether the   *)
(* row was written by decide or restored by recovery.                        *)
RowBacked ==
  \A k \in Key :
    /\ row[k] # "none" => filled[k] > 0
    /\ row[k] = "open" => rowQty \in 1..filled[k]

(* A card says EXECUTED only after a position was booked for it.             *)
ExecutedIsBooked ==
  \A c \in Card : card[c] = "executed" => \E r \in Request : row[<<c, r>>] # "none"

(* The desk buys as EntryAttempt promises: one attempt per card, sent once,  *)
(* no share bought outside it, dead only when it bought nothing.             *)
AttemptPhase(s) ==
  CASE s = "none"  -> "none"
    [] s = Created -> "prepared"
    [] s = Filled  -> "bought"
    [] s \in {Rejected, Canceled, Expired} -> "dead"
    [] OTHER -> "live"

Attempt == INSTANCE EntryAttempt
             WITH phase <- [k \in Key |-> AttemptPhase(intent[k])], got <- filled

ImplementsAttempt == Attempt!Spec

(* Two approvals of one symbol never have BUY orders of different cards at   *)
(* the venue together ("a second entry is refused before transmission"). The *)
(* blockers are read once, before the quotes are awaited and the bundle is   *)
(* committed; EntryRace says what that check is good for.                    *)
OneEntryAtTheVenue ==
  \A k1, k2 \in Key :
    (k1 \in wire \/ Working(k1)) /\ (k2 \in wire \/ Working(k2)) => k1[1] = k2[1]

(* No BUY leaves the desk while the symbol is already held.                  *)
EntryOnlyWhenFlat == [][\A k \in Key : k \in wire' \ wire => held = 0]_vars

(* The flat sweep closes a row only if the venue holds nothing ("broker      *)
(* truth is authoritative").                                                 *)
ClosedOnlyWhenFlat ==
  [][CheckPositions => \A k \in Key : row[k] = "open" /\ row'[k] = "closed" => held = 0]_vars

(* The card of an UNKNOWN entry stays claimed until the entry is resolved:   *)
(* it is not offered for approval while the order may be live ("No retry.    *)
(* Card stays claimed."). release_stale_approving goes by the age of the     *)
(* claim alone.                                                              *)
UnknownKeepsClaim == \A k \in Key : intent[k] = Unknown => card[k[1]] # "awaiting"

(* A card the venue's rejection released can be approved again ("a later     *)
(* approval opens a new intent").                                            *)
ReleasedCardActionable ==
  \A c \in Card :
    card[c] = "awaiting" /\ (\A r \in Request : intent[<<c, r>>] \in {"none", Rejected})
      => \E r \in Request : CommitCreates(<<c, r>>)

(* Shares nobody answers for: no row, no incident, nothing unresolved and    *)
(* nobody at work on them.                                                   *)
Stranded ==
  /\ held > 0 /\ ~OpenRow /\ ~incident
  /\ \A k \in Key : ~IsUnresolved(k)
  /\ \A w \in Worker : pc[w] = "idle"

(* Stranded shares are noticed: a later pass restores the position, blocks   *)
(* the symbol, or finds them gone.                                           *)
HoldingIsNoticed == Stranded ~> ~Stranded

(* An intent written and never sent does not block the symbol for good once  *)
(* its owner is gone: a pass retires it, or somebody approves the card again. *)
UnsentIsRetired ==
  \A k \in Key :
    (intent[k] = Created /\ ~Active(k[1])) ~> (intent[k] # Created \/ Active(k[1]))

(* A partly filled entry blocks the symbol only until its position is        *)
(* protected.                                                                *)
PartialUnblocks ==
  \A k \in Key :
    (intent[k] = PartiallyFilled /\ row[k] = "open" /\ stop > 0)
      ~> (intent[k] # PartiallyFilled \/ stop = 0)
=============================================================================
