-------------------------- MODULE EntryInvariants --------------------------
(***************************************************************************)
(* The inductive invariant of EntryExecution that its safety properties     *)
(* follow from, as a conjunction of named parts: who may have an intent,    *)
(* what the venue can hold for it, where a coroutine stands relative to it, *)
(* and how old an answer in the hands of the reconciliation pass may be.    *)
(***************************************************************************)
EXTENDS EntryExecution

(* At most one request of a card ever has an intent.                        *)
OneAttempt ==
  \A k1, k2 \in Key : HasIntent(k1) /\ HasIntent(k2) /\ k1[1] = k2[1] => k1 = k2

(* The intent of k left this process: its order may exist.                  *)
Sent(k) == intent[k] \in PastSubmit \union {Submitting}

(* What the venue may hold for a key, by the status of its intent.          *)
VenueBehindIntent ==
  \A k \in Key :
    /\ k \in wire => order[k] = "none" /\ Sent(k) /\ intent[k] \notin Terminal
    /\ order[k] # "none" => Sent(k)
    /\ order[k] = "none" => filled[k] = 0
    /\ Working(k) => filled[k] < Qty /\ intent[k] \notin Terminal
    /\ order[k] = "filled" => filled[k] = Qty
    /\ order[k] = "rejected" => filled[k] = 0
    /\ filled[k] <= Qty
    /\ intent[k] = Filled => filled[k] > 0
    /\ intent[k] \in {Rejected, Canceled, Expired} => filled[k] = 0

Settling == {"waiting", "canceling", "rereading"}
Owning   == {"protecting", "flattening", "booking", "booked", "resolved"}

(* Where decide may stand relative to the intent it drives.                 *)
CoroutineBehindIntent ==
  \A w \in Worker :
    LET k == job[w] IN
    /\ Sending(w) => intent[k] = Submitting
    /\ pc[w] = "checking" => order[k] = "none" /\ k \notin wire
    /\ pc[w] \in {"committed", "locating"} /\ seen[w] = Unknown => intent[k] \in PastSubmit
    /\ pc[w] = "locating" => seen[w] = Unknown
    /\ pc[w] \in Settling \union Owning => intent[k] \in PastSubmit /\ order[k] # "none"
    /\ pc[w] \in Owning => order[k] \in VenueDone /\ filled[k] > 0

(* Two coroutines are never between claim and answer for one key.           *)
OneSender ==
  \A w, v \in Worker : Sending(w) /\ Sending(v) /\ job[w] = job[v] => w = v

(* What the pass still holds of an answer is old, but not wrong about what   *)
(* can no longer change.                                                    *)
AnswerIsPast ==
  /\ \A k \in Key : snap[k] \notin {"none", Created} => Sent(k)
  /\ at # NoKey /\ rpc = "intents" =>
       /\ Sent(at)
       /\ \A w \in Worker : Sending(w) => job[w] # at
  /\ at # NoKey /\ found.st # "none" =>
       /\ order[at] # "none"
       /\ found.qty <= filled[at]
       /\ found.st \in VenueDone => order[at] = found.st /\ filled[at] = found.qty
  /\ rpc \notin {"intents", "confirm"} => at = NoKey
  /\ rpc = "confirm" => found.qty > 0 /\ found.st # "none"

EntryInv ==
  /\ TypeOK /\ OneAttempt /\ VenueBehindIntent
  /\ CoroutineBehindIntent /\ OneSender /\ AnswerIsPast /\ RowBacked
=============================================================================
