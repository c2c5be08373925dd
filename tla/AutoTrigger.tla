---------------------------- MODULE AutoTrigger ----------------------------
(***************************************************************************)
(* The auto trigger: the switch, the queue with its two sets of keys, the   *)
(* one worker that approves cards, and the backoff of a refused card.       *)
(*                                                                          *)
(* Keys are cards.  The worker runs on the event loop and awaits only       *)
(* inside decide and the audit log, so picking an item up is one step, and  *)
(* what follows an outcome up to the reading of the row belongs to the step *)
(* of decide that raised it.                                                *)
(***************************************************************************)
EXTENDS OpportunityCards, Sequences

CONSTANTS QueueSize   \* _QUEUE_MAXSIZE

ASSUME QueueSizeAssumption == QueueSize \in Nat \ {0}

VARIABLES
  enabled,   \* the operator's switch, kept in a file and in redis
  queue,     \* asyncio.Queue of cards
  queued,    \* _queued
  inFlight   \* _in_flight

trigger == <<enabled, queue, queued, inFlight>>

TriggerTypeOK ==
  /\ enabled \in BOOLEAN
  /\ queue \in Seq(Card) /\ Len(queue) <= QueueSize
  /\ queued \subseteq Card
  /\ inFlight \subseteq Card

TriggerInit ==
  /\ enabled \in BOOLEAN
  /\ queue = << >>
  /\ queued = {}
  /\ inFlight = {}

Toggle ==
  /\ enabled' = ~enabled
  /\ UNCHANGED <<queue, queued, inFlight, cards>>

Accepts(c) ==
  enabled /\ c \notin cooling \union queued \union inFlight /\ Len(queue) < QueueSize

(* enqueue_auto_approve_opportunity: refusals leave no trace, and a key     *)
(* that finds the queue full is dropped again.                              *)
Enqueue(c) ==
  IF Accepts(c)
    THEN queue' = Append(queue, c) /\ queued' = queued \union {c}
    ELSE UNCHANGED <<queue, queued>>

(* dispatch_due_buys every second, enqueue_auto_approve_open_buys after     *)
(* every observation pass: all open cards, whoever published them.          *)
Dispatch(c) ==
  /\ card[c] = "awaiting" /\ Accepts(c)
  /\ Enqueue(c)
  /\ UNCHANGED <<enabled, inFlight, cards>>

WorkerFree == at["auto"] = "idle" /\ inFlight = {}

(* maybe_auto_approve_opportunity starts an attempt...                      *)
PickUp ==
  /\ WorkerFree /\ queue # << >>
  /\ enabled /\ Head(queue) \notin cooling
  /\ Approve("auto", Head(queue))
  /\ inFlight' = {Head(queue)}
  /\ queue' = Tail(queue)
  /\ UNCHANGED <<enabled, queued>>

(* ...which decide ends at once when the symbol is not free...               *)
TurnedAway ==
  /\ WorkerFree /\ queue # << >>
  /\ enabled /\ Head(queue) \notin cooling
  /\ card[Head(queue)] = "awaiting" /\ ~SymbolFree(Head(queue))
  /\ \E out \in {"retry", "terminal"} : Afterwards(Head(queue), out, "awaiting")
  /\ of' = [of EXCEPT !["auto"] = Head(queue)]
  /\ inFlight' = {Head(queue)}
  /\ queue' = Tail(queue)
  /\ UNCHANGED <<enabled, queued, sub, intent, pos>>

(* ...or finds the switch off, the card gone or its retry not due.          *)
PassOver ==
  /\ WorkerFree /\ queue # << >>
  /\ ~enabled \/ card[Head(queue)] # "awaiting" \/ Head(queue) \in cooling
  /\ queued' = queued \ {Head(queue)}
  /\ queue' = Tail(queue)
  /\ UNCHANGED <<enabled, inFlight, cards>>

(* Mutant of Released: the key stays among the queued ones.                 *)
ReleasedInFlightOnly == inFlight' = {} /\ UNCHANGED queued

(* The two finally clauses.                                                 *)
Released == inFlight' = {} /\ queued' = queued \ inFlight

Conclude ==
  /\ \/ at["auto"] \in {"audit", "approved"} /\ UNCHANGED card
     \/ at["auto"] = "clearing" /\ WrittenBack
  /\ Released
  /\ at' = [at EXCEPT !["auto"] = "idle"]
  /\ of' = [of EXCEPT !["auto"] = NoCard]
  /\ copy' = "none"
  /\ UNCHANGED <<enabled, queue, sub, cooling, intent, pos>>

(* One turn of the worker.                                                  *)
Serve ==
  \/ PickUp \/ TurnedAway \/ PassOver \/ Conclude
  \/ (WriteBack \/ ClearRetry) /\ UNCHANGED trigger

Trigger == Toggle \/ Serve \/ \E c \in Card : Dispatch(c)

=============================================================================
