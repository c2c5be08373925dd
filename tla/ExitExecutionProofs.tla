------------------------ MODULE ExitExecutionProofs ------------------------
(***************************************************************************)
(* What ExitExecution promises for any number of cards, coroutines, slots   *)
(* and shares: the book absorbs no more of a sale than it sold, a card      *)
(* reads sold only when its position is closed, an intent is transmitted    *)
(* once, a resting stop or emergency close is never retired, stops never    *)
(* double, and a card is decided by one coroutine.                          *)
(***************************************************************************)
EXTENDS ExitExecution, FiniteSetTheorems, TLAPS

Job == [card : Card \union {NoCard}, sale : Slot \union {NoSlot},
        flat : FlatSlot \union {NoSlot}, stop : StopSlot \union {NoSlot},
        copy : 0..Qty, rec : [st : OrderState, qty : 0..Qty], lot : 0..Qty,
        qty : 0..Qty, then : {"none", "partial", "restore", "ensure", "resize"}]

(* TypeOK without the shares at the venue, by the part of the state a step   *)
(* moves.                                                                   *)
DeskTyped ==
  /\ card \in [Card -> CardStatus]
  /\ row \in {"open", "closed"} /\ rowQty \in 0..Qty
  /\ rowStop \in StopSlot \union {NoSlot}
  /\ incident \in BOOLEAN

LotsTyped ==
  /\ st \in [Slot -> IntentStatus \union {"none"}]
  /\ asked \in [Slot -> 0..Qty] /\ noted \in [Slot -> 0..Qty] /\ applied \in [Slot -> 0..Qty]
  /\ past \in Nat
  /\ ord \in [Slot -> OrderState] /\ sold \in [Slot -> 0..Qty] /\ wire \in SUBSET Slot

SeatsTyped == pc \in [Proc -> ExitPc] /\ job \in [Proc -> Job]

PassTyped ==
  /\ scene \in Scene /\ crashes \in 0..scene.crashes /\ listed \in 0..Qty
  /\ snap \in [Slot -> Unresolved \union {"none"}] /\ rest \in SUBSET StopSlot

(* Where a coroutine sells, where it covers what is left, and where only     *)
(* decide_exit or only the pass stands.                                     *)
SalePc   == {"locating", "freeing", "verifying", "replying", "filling", "rereading"}
StopPc   == {"stopcheck", "stopsend", "stoprace", "stopreply", "stopfind"}
CoverPc  == StopPc \union {"resize", "verifystop", "stop", "restop", "flat"}
PassPc   == {"intents", "located", "absorb", "book", "orders", "sizing", "excess"}
DecidePc == {"refused", "listing", "applied"}
PlainPc  == {"idle"} \union PassPc \union DecidePc

(* What a coroutine carries where it stands.                                 *)
Sound(p, l, j) ==
  /\ l \in CoverPc => j.qty > 0 /\ j.then # "none"
  /\ l = "return" => j.then # "none"
  /\ l \in PlainPc => j.then = "none"
  /\ l \in SalePc => IF j.then = "none" THEN p # Rec /\ j.sale \in ExitSlot ELSE j.flat \in FlatSlot
  /\ l \in StopPc \union {"resize"} => j.stop \in StopSlot
  /\ l = "applied" => j.sale \in ExitSlot
  /\ l \in {"located", "absorb"} => j.sale \in Slot
  /\ p # Rec => l \notin PassPc \union {"resize"} /\ j.sale \in ExitSlot \union {NoSlot}
  /\ p = Rec => l \notin DecidePc
  /\ manual => /\ l \notin CoverPc /\ (j.then = "none" \/ l = "return")
               /\ p = Rec => l \in {"idle", "intents", "located", "absorb", "book"}

AllSound == \A p \in Proc : Sound(p, pc[p], job[p])

(* What holds of an intent and its order.                                    *)
Kept(i) ==
  /\ applied[i] <= sold[i] /\ sold[i] <= asked[i]
  /\ Resting(i) => sold[i] < asked[i]
  /\ i \in wire => ord[i] = "none" /\ sold[i] = 0 /\ asked[i] > 0 /\ st[i] # Created
  /\ st[i] = Created => ord[i] = "none" /\ sold[i] = 0 /\ asked[i] > 0

AllKept == \A i \in Slot : Kept(i)

(* A sold card, or a sale that left nothing over, has closed the row.        *)
Closing ==
  /\ \A c \in Card : card[c] = "sold" => row = "closed"
  /\ \A w \in Worker : pc[w] = "applied" /\ job[w].qty = 0 => row = "closed"

(* The record the pass holds of an order is still true of it.                *)
RecordTrue ==
  pc[Rec] \in {"located", "absorb"} =>
    LET i == job[Rec].sale
        f == job[Rec].rec
    IN  /\ f.qty <= sold[i]
        /\ f.st \in VenueDone => ord[i] = f.st
        /\ f = NoOrder \/ f.st \in VenueStatus
        /\ pc[Rec] = "located" => snap[i] # "none"
        /\ pc[Rec] = "absorb" => f # NoOrder

Seats == SeatsTyped /\ AllSound /\ RecordTrue
Lots  == LotsTyped /\ AllKept
Shop  == DeskTyped /\ Closing

ExitInv == Seats /\ Lots /\ Shop /\ PassTyped

-----------------------------------------------------------------------------
(* Names and numbers.                                                        *)

(* The intents' vocabulary is typed.                                         *)
LEMMA Statuses ==
  /\ Unresolved \subseteq IntentStatus /\ Terminal \subseteq IntentStatus
  /\ \A s \in IntentStatus \union {"none"} : \A t : SafeTransition(s, t) \in {s, t}
  /\ \A s \in IntentStatus \union {"none"} : MarkUnknown(s) \in {s, Unknown}
  /\ {Created, Submitting, Submitted, Acknowledged, PartiallyFilled, CancelPending, Unknown} = Unresolved
  /\ {Filled, Canceled, Rejected, Expired} = Terminal
  /\ Created # Unknown /\ "none" \notin IntentStatus
  /\ Unresolved \intersect Terminal = {}
BY DEF Unresolved, Terminal, IntentStatus, SafeTransition, MarkUnknown, Created, Submitting, Submitted, Acknowledged,
       PartiallyFilled, CancelPending, Unknown, Filled, Canceled, Rejected, Expired

(* An order record reads as a status, never as one not transmitted.          *)
LEMMA RecordStatus ==
  ASSUME NEW s, NEW q
  PROVE  IntentStatusFor(s, q) \in IntentStatus \ {Created}
BY DEF IntentStatusFor, Unresolved, Terminal, IntentStatus, Created, Submitting, Submitted, Acknowledged,
       PartiallyFilled, CancelPending, Unknown, Filled, Canceled, Rejected, Expired

(* The smaller of two naturals.                                              *)
LEMMA SmallerOfTwo ==
  ASSUME NEW a \in Nat, NEW b \in Nat
  PROVE  Min({a, b}) \in {a, b} /\ Min({a, b}) <= a /\ Min({a, b}) <= b
<1>1. CASE a <= b
  <2>1. \E x \in {a, b} : \A y \in {a, b} : x <= y
    BY <1>1
  <2> QED BY <2>1 DEF Min
<1>2. CASE b <= a
  <2>1. \E x \in {a, b} : \A y \in {a, b} : x <= y
    BY <1>2
  <2> QED BY <2>1 DEF Min
<1> QED BY <1>1, <1>2

-----------------------------------------------------------------------------
(* The locals of a coroutine, one change at a time.                          *)

(* Forgetting everything.                                                    *)
LEMMA NoJobIsJob ==
  /\ NoJob \in Job /\ NoJob.then = "none" /\ NoJob.sale = NoSlot /\ NoJob.flat = NoSlot
  /\ NoJob.stop = NoSlot /\ NoJob.qty = 0 /\ NoJob.card = NoCard
BY QtyAssumption DEF NoJob, Job, NoOrder, OrderState

(* The claimed card.                                                         *)
Deciding(c) == [NoJob EXCEPT !.card = c]

(* Deciding is a job that keeps the rest.                                 *)
LEMMA PatchDeciding ==
  ASSUME NEW c \in Card
  PROVE  /\ Deciding(c) \in Job
         /\ Deciding(c).card = c
         /\ Deciding(c).then = "none"
         /\ Deciding(c).sale = NoSlot
         /\ Deciding(c).flat = NoSlot
         /\ Deciding(c).stop = NoSlot
BY QtyAssumption DEF NoJob, Job, NoOrder, OrderState, Deciding

(* The exit adopted.                                                         *)
Adopting(j, i, a, s, n) == [j EXCEPT !.sale = i, !.copy = a, !.stop = s, !.lot = n]

(* Adopting is a job that keeps the rest.                                 *)
LEMMA PatchAdopting ==
  ASSUME NEW j \in Job, NEW i \in Slot, NEW a \in 0..Qty, NEW s \in StopSlot \union {NoSlot}, NEW n \in 0..Qty
  PROVE  /\ Adopting(j, i, a, s, n) \in Job
         /\ Adopting(j, i, a, s, n).card = j.card
         /\ Adopting(j, i, a, s, n).sale = i
         /\ Adopting(j, i, a, s, n).flat = j.flat
         /\ Adopting(j, i, a, s, n).stop = s
         /\ Adopting(j, i, a, s, n).then = j.then
         /\ Adopting(j, i, a, s, n).qty = j.qty
         /\ Adopting(j, i, a, s, n).rec = j.rec
BY DEF Job, Adopting

(* The exit created.                                                         *)
Creating(j, i, s, n) == [j EXCEPT !.sale = i, !.stop = s, !.lot = n]

(* Creating is a job that keeps the rest.                                 *)
LEMMA PatchCreating ==
  ASSUME NEW j \in Job, NEW i \in Slot, NEW s \in StopSlot \union {NoSlot}, NEW n \in 0..Qty
  PROVE  /\ Creating(j, i, s, n) \in Job
         /\ Creating(j, i, s, n).card = j.card
         /\ Creating(j, i, s, n).sale = i
         /\ Creating(j, i, s, n).flat = j.flat
         /\ Creating(j, i, s, n).stop = s
         /\ Creating(j, i, s, n).then = j.then
         /\ Creating(j, i, s, n).qty = j.qty
         /\ Creating(j, i, s, n).rec = j.rec
BY DEF Job, Creating

(* A stop to restore.                                                        *)
Restoring(j) == [j EXCEPT !.then = "restore", !.qty = j.lot]

(* Restoring is a job that keeps the rest.                                *)
LEMMA PatchRestoring ==
  ASSUME NEW j \in Job
  PROVE  /\ Restoring(j) \in Job
         /\ Restoring(j).card = j.card
         /\ Restoring(j).sale = j.sale
         /\ Restoring(j).flat = j.flat
         /\ Restoring(j).stop = j.stop
         /\ Restoring(j).then = "restore"
         /\ Restoring(j).qty = j.lot
         /\ Restoring(j).rec = j.rec
BY DEF Job, Restoring

(* What the sale came to.                                                    *)
Settling(j, s, n, m) == [j EXCEPT !.rec = [st |-> s, qty |-> n], !.qty = m]

(* Settling is a job that keeps the rest.                                 *)
LEMMA PatchSettling ==
  ASSUME NEW j \in Job, NEW s \in OrderState, NEW n \in 0..Qty, NEW m \in 0..Qty
  PROVE  /\ Settling(j, s, n, m) \in Job
         /\ Settling(j, s, n, m).card = j.card
         /\ Settling(j, s, n, m).sale = j.sale
         /\ Settling(j, s, n, m).flat = j.flat
         /\ Settling(j, s, n, m).stop = j.stop
         /\ Settling(j, s, n, m).then = j.then
         /\ Settling(j, s, n, m).qty = m
BY DEF Job, Settling

(* A smaller position to protect.                                            *)
Partly(j) == [j EXCEPT !.then = "partial"]

(* Partly is a job that keeps the rest.                                   *)
LEMMA PatchPartly ==
  ASSUME NEW j \in Job
  PROVE  /\ Partly(j) \in Job
         /\ Partly(j).card = j.card
         /\ Partly(j).sale = j.sale
         /\ Partly(j).flat = j.flat
         /\ Partly(j).stop = j.stop
         /\ Partly(j).then = "partial"
         /\ Partly(j).qty = j.qty
         /\ Partly(j).rec = j.rec
BY DEF Job, Partly

(* Back from the stop.                                                       *)
Back(j) == [j EXCEPT !.then = "none", !.stop = NoSlot, !.flat = NoSlot]

(* Back is a job that keeps the rest.                                     *)
LEMMA PatchBack ==
  ASSUME NEW j \in Job
  PROVE  /\ Back(j) \in Job
         /\ Back(j).card = j.card
         /\ Back(j).sale = j.sale
         /\ Back(j).flat = NoSlot
         /\ Back(j).stop = NoSlot
         /\ Back(j).then = "none"
         /\ Back(j).qty = j.qty
         /\ Back(j).rec = j.rec
BY DEF Job, Back

(* Back from a stop that filled.                                             *)
Halfback(j) == [j EXCEPT !.then = "none", !.stop = NoSlot]

(* Halfback is a job that keeps the rest.                                 *)
LEMMA PatchHalfback ==
  ASSUME NEW j \in Job
  PROVE  /\ Halfback(j) \in Job
         /\ Halfback(j).card = j.card
         /\ Halfback(j).sale = j.sale
         /\ Halfback(j).flat = j.flat
         /\ Halfback(j).stop = NoSlot
         /\ Halfback(j).then = "none"
         /\ Halfback(j).qty = j.qty
         /\ Halfback(j).rec = j.rec
BY DEF Job, Halfback

(* The stop in hand.                                                         *)
Holding(j, s) == [j EXCEPT !.stop = s]

(* Holding is a job that keeps the rest.                                  *)
LEMMA PatchHolding ==
  ASSUME NEW j \in Job, NEW s \in StopSlot \union {NoSlot}
  PROVE  /\ Holding(j, s) \in Job
         /\ Holding(j, s).card = j.card
         /\ Holding(j, s).sale = j.sale
         /\ Holding(j, s).flat = j.flat
         /\ Holding(j, s).stop = s
         /\ Holding(j, s).then = j.then
         /\ Holding(j, s).qty = j.qty
         /\ Holding(j, s).rec = j.rec
BY DEF Job, Holding

(* The emergency close in hand.                                              *)
Flattening(j, i, n) == [j EXCEPT !.flat = i, !.copy = n]

(* Flattening is a job that keeps the rest.                               *)
LEMMA PatchFlattening ==
  ASSUME NEW j \in Job, NEW i \in FlatSlot, NEW n \in 0..Qty
  PROVE  /\ Flattening(j, i, n) \in Job
         /\ Flattening(j, i, n).card = j.card
         /\ Flattening(j, i, n).sale = j.sale
         /\ Flattening(j, i, n).flat = i
         /\ Flattening(j, i, n).stop = j.stop
         /\ Flattening(j, i, n).then = j.then
         /\ Flattening(j, i, n).qty = j.qty
         /\ Flattening(j, i, n).rec = j.rec
BY DEF Job, Flattening

(* The intent the pass looks at.                                             *)
Reading(j, i, f) == [j EXCEPT !.sale = i, !.rec = f]

(* Reading is a job that keeps the rest.                                  *)
LEMMA PatchReading ==
  ASSUME NEW j \in Job, NEW i \in Slot, NEW f \in [st : OrderState, qty : 0..Qty]
  PROVE  /\ Reading(j, i, f) \in Job
         /\ Reading(j, i, f).card = j.card
         /\ Reading(j, i, f).sale = i
         /\ Reading(j, i, f).flat = j.flat
         /\ Reading(j, i, f).stop = j.stop
         /\ Reading(j, i, f).then = j.then
         /\ Reading(j, i, f).qty = j.qty
         /\ Reading(j, i, f).rec = f
BY DEF Job, Reading

(* What the book had absorbed.                                               *)
Copying(j, n) == [j EXCEPT !.copy = n]

(* Copying is a job that keeps the rest.                                  *)
LEMMA PatchCopying ==
  ASSUME NEW j \in Job, NEW n \in 0..Qty
  PROVE  /\ Copying(j, n) \in Job
         /\ Copying(j, n).card = j.card
         /\ Copying(j, n).sale = j.sale
         /\ Copying(j, n).flat = j.flat
         /\ Copying(j, n).stop = j.stop
         /\ Copying(j, n).then = j.then
         /\ Copying(j, n).qty = j.qty
         /\ Copying(j, n).rec = j.rec
BY DEF Job, Copying

(* The quantity listed.                                                      *)
Counting(j, n) == [j EXCEPT !.qty = n]

(* Counting is a job that keeps the rest.                                 *)
LEMMA PatchCounting ==
  ASSUME NEW j \in Job, NEW n \in 0..Qty
  PROVE  /\ Counting(j, n) \in Job
         /\ Counting(j, n).card = j.card
         /\ Counting(j, n).sale = j.sale
         /\ Counting(j, n).flat = j.flat
         /\ Counting(j, n).stop = j.stop
         /\ Counting(j, n).then = j.then
         /\ Counting(j, n).qty = n
         /\ Counting(j, n).rec = j.rec
BY DEF Job, Counting

(* What the pass sizes protection by: the listing, a stop to resize, and a   *)
(* stop to place.                                                           *)
Listed(j, q) == [j EXCEPT !.lot = q]
Resizing(j, q, n, s) == [j EXCEPT !.lot = q, !.qty = n, !.stop = s, !.then = "resize"]
Ensuring(j, q, n) == [j EXCEPT !.lot = q, !.qty = n, !.then = "ensure"]

(* Listed is a job that keeps the rest.                                      *)
LEMMA PatchListed ==
  ASSUME NEW j \in Job, NEW q \in 0..Qty
  PROVE  /\ Listed(j, q) \in Job /\ Listed(j, q).sale = j.sale /\ Listed(j, q).card = j.card
         /\ Listed(j, q).then = j.then
BY DEF Job, Listed

(* Resizing is a job that holds the stop.                                    *)
LEMMA PatchResizing ==
  ASSUME NEW j \in Job, NEW q \in 0..Qty, NEW n \in 0..Qty, NEW s \in StopSlot
  PROVE  /\ Resizing(j, q, n, s) \in Job /\ Resizing(j, q, n, s).sale = j.sale
         /\ Resizing(j, q, n, s).card = j.card /\ Resizing(j, q, n, s).then = "resize"
         /\ Resizing(j, q, n, s).qty = n /\ Resizing(j, q, n, s).stop = s
BY DEF Job, Resizing

(* Ensuring is a job that holds the quantity.                                *)
LEMMA PatchEnsuring ==
  ASSUME NEW j \in Job, NEW q \in 0..Qty, NEW n \in 0..Qty
  PROVE  /\ Ensuring(j, q, n) \in Job /\ Ensuring(j, q, n).sale = j.sale
         /\ Ensuring(j, q, n).card = j.card /\ Ensuring(j, q, n).then = "ensure"
         /\ Ensuring(j, q, n).qty = n
BY DEF Job, Ensuring

(* The same, of a coroutine that forgot everything else.                     *)
LEMMA PatchSizing ==
  ASSUME NEW q \in 0..Qty, NEW n \in 0..Qty
  PROVE  /\ Listed(NoJob, q) \in Job /\ Listed(NoJob, q).sale = NoSlot /\ Listed(NoJob, q).then = "none"
         /\ \A s \in StopSlot :
              /\ Resizing(NoJob, q, n, s) \in Job /\ Resizing(NoJob, q, n, s).then = "resize"
              /\ Resizing(NoJob, q, n, s).sale = NoSlot
              /\ Resizing(NoJob, q, n, s).qty = n /\ Resizing(NoJob, q, n, s).stop = s
         /\ Ensuring(NoJob, q, n) \in Job /\ Ensuring(NoJob, q, n).then = "ensure"
         /\ Ensuring(NoJob, q, n).sale = NoSlot /\ Ensuring(NoJob, q, n).qty = n
<1>1. NoJob \in Job /\ NoJob.then = "none" /\ NoJob.sale = NoSlot
  BY NoJobIsJob
<1>2. /\ Listed(NoJob, q) \in Job /\ Listed(NoJob, q).sale = NoJob.sale /\ Listed(NoJob, q).then = NoJob.then
  BY <1>1, PatchListed
<1>3. ASSUME NEW s \in StopSlot
      PROVE  /\ Resizing(NoJob, q, n, s) \in Job /\ Resizing(NoJob, q, n, s).then = "resize"
              /\ Resizing(NoJob, q, n, s).sale = NoJob.sale
             /\ Resizing(NoJob, q, n, s).qty = n /\ Resizing(NoJob, q, n, s).stop = s
  BY <1>1, PatchResizing
<1>4. /\ Ensuring(NoJob, q, n) \in Job /\ Ensuring(NoJob, q, n).then = "ensure"
      /\ Ensuring(NoJob, q, n).sale = NoJob.sale /\ Ensuring(NoJob, q, n).qty = n
  BY <1>1, PatchEnsuring
<1> QED BY <1>1, <1>2, <1>3, <1>4

-----------------------------------------------------------------------------
(* What a step does to each part of the state.                               *)

(* An order the pass may hold a record of only sells further, and stays dead *)
(* once it is.                                                              *)
Stays(i) == sold'[i] \in Nat /\ sold[i] <= sold'[i] /\ (ord[i] \in VenueDone => ord'[i] = ord[i])

RecordStays == job[Rec].sale \in Slot => Stays(job[Rec].sale)

(* A coroutine moves to a place where no record matters.                     *)
LEMMA Moved ==
  ASSUME ExitInv, RecordStays, scene'.manual = scene.manual,
         NEW p \in Proc, NEW l \in ExitPc \ {"located", "absorb"}, NEW j \in Job,
         Sound(p, l, j), Take(p, l, j), p # Rec => snap' = snap
  PROVE  Seats'
<1>1. pc \in [Proc -> ExitPc] /\ job \in [Proc -> Job] /\ Rec \in Proc
  BY DEF ExitInv, Seats, SeatsTyped, Proc
<1>2. pc' = [pc EXCEPT ![p] = l] /\ job' = [job EXCEPT ![p] = j]
  BY DEF Take, Goto
<1>3. SeatsTyped'
  BY <1>1, <1>2 DEF SeatsTyped, Job
<1>4. ASSUME NEW q \in Proc PROVE Sound(q, pc'[q], job'[q])
  <2>1. CASE q = p
    BY <1>1, <1>2, <2>1
  <2>2. CASE q # p
    <3>1. pc'[q] = pc[q] /\ job'[q] = job[q]
      BY <1>1, <1>2, <2>2
    <3> QED BY <3>1 DEF ExitInv, Seats, AllSound
  <2> QED BY <2>1, <2>2
<1>5. AllSound'
  BY <1>4 DEF AllSound, Sound, manual, Proc
<1>6. RecordTrue'
  <2> SUFFICES ASSUME pc'[Rec] \in {"located", "absorb"}
               PROVE  RecordTrue'
    BY DEF RecordTrue
  <2>1. p # Rec
    BY <1>1, <1>2
  <2>2. pc'[Rec] = pc[Rec] /\ job'[Rec] = job[Rec] /\ snap' = snap
    BY <1>1, <1>2, <2>1
  <2>3. job[Rec].sale \in Slot
    BY <1>1, <2>2 DEF ExitInv, Seats, AllSound, Sound
  <2>4. Stays(job[Rec].sale)
    BY <2>3 DEF RecordStays
  <2>5. sold[job[Rec].sale] \in Nat /\ job[Rec].rec.qty \in Nat
    BY <1>1, <2>3 DEF ExitInv, Lots, LotsTyped, Job
  <2> QED BY <2>2, <2>4, <2>5 DEF ExitInv, Seats, RecordTrue, Stays
<1> QED BY <1>3, <1>5, <1>6 DEF Seats

(* Nobody moves.                                                             *)
LEMMA Unmoved ==
  ASSUME ExitInv, RecordStays, scene'.manual = scene.manual, UNCHANGED <<pc, job, snap>>
  PROVE  Seats'
<1>1. SeatsTyped' /\ AllSound'
  BY DEF ExitInv, Seats, SeatsTyped, AllSound, Sound, manual, Proc
<1>2. RecordTrue'
  <2> SUFFICES ASSUME pc[Rec] \in {"located", "absorb"}
               PROVE  RecordTrue'
    BY DEF RecordTrue
  <2>3. job[Rec].sale \in Slot
    BY DEF ExitInv, Seats, AllSound, Sound, Proc
  <2>4. Stays(job[Rec].sale)
    BY <2>3 DEF RecordStays
  <2>5. sold[job[Rec].sale] \in Nat /\ job[Rec].rec.qty \in Nat
    BY <2>3 DEF ExitInv, Seats, SeatsTyped, Lots, LotsTyped, Job, Proc
  <2> QED BY <2>4, <2>5 DEF ExitInv, Seats, RecordTrue, Stays
<1> QED BY <1>1, <1>2 DEF Seats

(* The intents and orders are left alone.                                    *)
LEMMA LotsSame ==
  ASSUME ExitInv, UNCHANGED <<intents, ord, sold, wire>>
  PROVE  Lots' /\ RecordStays
<1>1. Lots'
  BY DEF ExitInv, Lots, LotsTyped, AllKept, Kept, Resting, intents
<1>2. RecordStays
  BY DEF ExitInv, Lots, LotsTyped, RecordStays, Stays
<1> QED BY <1>1, <1>2

(* The intents' status, or what the book absorbed, moves; the orders do not. *)
LEMMA LotsMove ==
  ASSUME ExitInv, UNCHANGED <<asked, past, ord, sold, wire>>,
         st' \in [Slot -> IntentStatus \union {"none"}], noted' \in [Slot -> 0..Qty],
         applied' \in [Slot -> 0..Qty],
         \A k \in Slot : st'[k] = Created => st[k] = Created,
         \A k \in Slot : applied'[k] <= sold[k]
  PROVE  Lots' /\ RecordStays
<1>1. LotsTyped'
  BY DEF ExitInv, Lots, LotsTyped
<1>2. AllKept'
  BY DEF ExitInv, Lots, AllKept, Kept, Resting
<1>3. RecordStays
  BY DEF ExitInv, Lots, LotsTyped, RecordStays, Stays
<1> QED BY <1>1, <1>2, <1>3 DEF Lots

(* One status moves, with what it notes.                                     *)
LEMMA LotsStatus ==
  ASSUME ExitInv, UNCHANGED <<asked, applied, past, ord, sold, wire>>,
         NEW i, NEW s, SetStatus(i, s), noted' \in [Slot -> 0..Qty],
         i \in Slot => s \in IntentStatus \union {"none"} /\ (s = Created => st[i] = Created)
  PROVE  Lots' /\ RecordStays
<1>1. st \in [Slot -> IntentStatus \union {"none"}] /\ applied \in [Slot -> 0..Qty]
  BY DEF ExitInv, Lots, LotsTyped
<1>2. st' \in [Slot -> IntentStatus \union {"none"}]
  BY <1>1 DEF SetStatus
<1>3. \A k \in Slot : st'[k] = Created => st[k] = Created
  BY <1>1 DEF SetStatus
<1>4. \A k \in Slot : applied[k] <= sold[k]
  BY DEF ExitInv, Lots, AllKept, Kept
<1> QED BY <1>1, <1>2, <1>3, <1>4, LotsMove

(* filled_qty moves with the status.                                         *)
LEMMA LotsNote ==
  ASSUME ExitInv, UNCHANGED <<asked, applied, past, ord, sold, wire>>,
         NEW i \in Slot, NEW s \in IntentStatus \ {Created}, NEW q \in 0..Qty, Note(i, s, q)
  PROVE  Lots' /\ RecordStays
<1>1. st \in [Slot -> IntentStatus \union {"none"}] /\ noted \in [Slot -> 0..Qty]
  BY DEF ExitInv, Lots, LotsTyped
<1>2. noted' \in [Slot -> 0..Qty]
  BY <1>1 DEF Note
<1>3. SafeTransition(st[i], s) \in {s, st[i]}
  BY <1>1, Statuses
<1> QED BY <1>1, <1>2, <1>3, LotsStatus DEF Note

(* The book absorbs at most what the sale sold.                              *)
LEMMA Absorbing ==
  ASSUME ExitInv, NEW i \in Slot, NEW copy \in 0..Qty, NEW q \in 0..Qty, q <= sold[i],
         Absorb(i, copy, q)
  PROVE  /\ applied' \in [Slot -> 0..Qty] /\ \A k \in Slot : applied'[k] <= sold[k]
         /\ rowQty' \in 0..Qty /\ row' \in {row, "closed"} /\ (rowQty' = 0 => row' = "closed")
         /\ Cut(i, copy, q) \in 0..Qty
<1>1. /\ applied \in [Slot -> 0..Qty] /\ sold \in [Slot -> 0..Qty] /\ rowQty \in 0..Qty
      /\ \A k \in Slot : applied[k] <= sold[k]
  BY DEF ExitInv, Lots, LotsTyped, Shop, DeskTyped, AllKept, Kept
<1> DEFINE c == Claimed(i, copy, q)
<1>2. c \in 0..Qty /\ applied[i] + c <= sold[i]
  <2>1. CASE q > copy /\ applied[i] = copy
    BY <1>1, <2>1, QtyAssumption DEF Claimed
  <2>2. CASE ~(q > copy /\ applied[i] = copy)
    BY <1>1, <2>2, QtyAssumption DEF Claimed
  <2> QED BY <2>1, <2>2
<1>3. applied' = [applied EXCEPT ![i] = applied[i] + c]
  BY DEF Absorb
<1>4. Cut(i, copy, q) = Min({c, rowQty})
  BY DEF Cut
<1> HIDE DEF c
<1>5. applied[i] + c \in 0..Qty
  BY <1>1, <1>2, QtyAssumption
<1>6. applied' \in [Slot -> 0..Qty]
  BY <1>1, <1>3, <1>5
<1>7. \A k \in Slot : applied'[k] <= sold[k]
  BY <1>1, <1>2, <1>3
<1>8. /\ Min({c, rowQty}) \in {c, rowQty} /\ Min({c, rowQty}) <= rowQty
  BY <1>1, <1>2, SmallerOfTwo
<1>9. rowQty' = rowQty - Cut(i, copy, q) /\ row' = IF rowQty' = 0 THEN "closed" ELSE row
  BY DEF Absorb
<1>10. Cut(i, copy, q) \in 0..Qty /\ Cut(i, copy, q) <= rowQty
  BY <1>1, <1>2, <1>4, <1>8
<1>11. rowQty' \in 0..Qty
  BY <1>1, <1>9, <1>10, QtyAssumption
<1> QED BY <1>6, <1>7, <1>9, <1>10, <1>11

(* A fresh generation takes a vacant slot.                                   *)
LEMMA LotsCreate ==
  ASSUME ExitInv, NEW S, S \subseteq Slot, \E k \in S : Vacant(k), NEW q \in 0..Qty, q > 0,
         CreateIntent(Fresh(S), q), UNCHANGED wire
  PROVE  Lots' /\ RecordStays /\ Fresh(S) \in S /\ Vacant(Fresh(S))
<1> DEFINE i == Fresh(S)
<1>1. i \in S /\ Vacant(i)
  BY DEF Fresh
<1> HIDE DEF i
<1>2. i \in Slot /\ i \notin wire /\ i # job[Rec].sale
  BY <1>1 DEF Vacant, Proc
<1>3. LotsTyped
  BY DEF ExitInv, Lots
<1>4. /\ st' = [st EXCEPT ![i] = Created] /\ asked' = [asked EXCEPT ![i] = q]
      /\ noted' = [noted EXCEPT ![i] = 0] /\ applied' = [applied EXCEPT ![i] = 0]
      /\ past' = past + (IF i \in StopSlot THEN 0 ELSE noted[i])
      /\ ord' = [ord EXCEPT ![i] = "none"] /\ sold' = [sold EXCEPT ![i] = 0]
  BY DEF CreateIntent, SetStatus, i
<1>5. Created \in IntentStatus /\ "none" \in OrderState /\ 0 \in 0..Qty
  BY Statuses, QtyAssumption DEF OrderState
<1>6. noted[i] \in Nat
  BY <1>2, <1>3 DEF LotsTyped
<1>7. past' \in Nat
  BY <1>3, <1>4, <1>6 DEF LotsTyped
<1>8. LotsTyped'
  BY <1>3, <1>4, <1>5, <1>7 DEF LotsTyped
<1>9. ASSUME NEW k \in Slot PROVE Kept(k)'
  <2>1. CASE k = i
    BY <1>2, <1>3, <1>4, <2>1 DEF LotsTyped, Kept, Resting, VenueWorking
  <2>2. CASE k # i
    <3>1. /\ st'[k] = st[k] /\ asked'[k] = asked[k] /\ applied'[k] = applied[k]
          /\ ord'[k] = ord[k] /\ sold'[k] = sold[k]
      BY <1>3, <1>4, <2>2 DEF LotsTyped
    <3> QED BY <3>1 DEF ExitInv, Lots, AllKept, Kept, Resting
  <2> QED BY <2>1, <2>2
<1>10. RecordStays
  <2> SUFFICES ASSUME job[Rec].sale \in Slot PROVE Stays(job[Rec].sale)
    BY DEF RecordStays
  <2> QED BY <1>2, <1>3, <1>4 DEF LotsTyped, Stays
<1> QED BY <1>1, <1>8, <1>9, <1>10 DEF Lots, AllKept, i

(* Orders are canceled, and a status may move with them.                     *)
LEMMA LotsFreed ==
  ASSUME ExitInv, NEW S, Freed(S), UNCHANGED <<asked, noted, applied, past, sold, wire>>,
         st' \in [Slot -> IntentStatus \union {"none"}],
         \A k \in Slot : st'[k] = Created => st[k] = Created
  PROVE  Lots' /\ RecordStays
<1>1. LotsTyped
  BY DEF ExitInv, Lots
<1>2. ord' = [k \in Slot |-> IF k \in S /\ Resting(k) THEN "canceled" ELSE ord[k]]
  BY DEF Freed
<1>3. LotsTyped'
  BY <1>1, <1>2 DEF LotsTyped, OrderState, VenueStatus, VenueDone
<1>4. ASSUME NEW k \in Slot PROVE Kept(k)'
  <2>1. CASE k \in S /\ Resting(k)
    BY <1>1, <1>2, <2>1 DEF ExitInv, Lots, AllKept, Kept, Resting, VenueWorking
  <2>2. CASE ~(k \in S /\ Resting(k))
    <3>1. ord'[k] = ord[k]
      BY <1>2, <2>2
    <3> QED BY <3>1 DEF ExitInv, Lots, AllKept, Kept, Resting
  <2> QED BY <2>1, <2>2
<1>5. RecordStays
  BY <1>1, <1>2 DEF RecordStays, Stays, LotsTyped, Resting, VenueWorking, VenueDone
<1> QED BY <1>3, <1>4, <1>5 DEF Lots, AllKept

(* A created intent is transmitted.                                          *)
LEMMA LotsSend ==
  ASSUME ExitInv, NEW i \in Slot, st[i] = Created, SetStatus(i, Submitting), wire' = wire \union {i},
         UNCHANGED <<asked, noted, applied, past, ord, sold>>
  PROVE  Lots' /\ RecordStays
<1>1. LotsTyped
  BY DEF ExitInv, Lots
<1>2. st' = [st EXCEPT ![i] = Submitting]
  BY DEF SetStatus
<1>3. Submitting \in IntentStatus /\ Submitting # Created
  BY Statuses DEF Submitting, Created
<1>4. LotsTyped'
  BY <1>1, <1>2, <1>3 DEF LotsTyped
<1>5. ASSUME NEW k \in Slot PROVE Kept(k)'
  <2>1. Kept(k)
    BY DEF ExitInv, Lots, AllKept
  <2>2. CASE k = i
    BY <1>1, <1>2, <1>3, <2>1, <2>2 DEF Kept, Resting, LotsTyped
  <2>3. CASE k # i
    BY <1>1, <1>2, <2>1, <2>3 DEF Kept, Resting, LotsTyped
  <2> QED BY <2>2, <2>3
<1>6. RecordStays
  BY <1>1 DEF RecordStays, Stays, LotsTyped
<1> QED BY <1>4, <1>5, <1>6 DEF Lots, AllKept

(* A coroutine moves, and nothing reopens the row or marks a card sold while *)
(* it is open.                                                              *)
LEMMA ShopMoved ==
  ASSUME ExitInv, NEW p \in Proc, NEW l, NEW j, Take(p, l, j), l # "applied",
         DeskTyped', row' \in {row, "closed"},
         \A c \in Card : card'[c] = "sold" => card[c] = "sold" \/ row' = "closed"
  PROVE  Shop'
<1>1. pc \in [Proc -> ExitPc] /\ job \in [Proc -> Job]
  BY DEF ExitInv, Seats, SeatsTyped
<1>2. pc' = [pc EXCEPT ![p] = l] /\ job' = [job EXCEPT ![p] = j]
  BY DEF Take, Goto
<1>3. \A w \in Worker : pc'[w] = "applied" => pc[w] = "applied" /\ job'[w] = job[w]
  BY <1>1, <1>2 DEF Proc
<1> QED BY <1>3 DEF ExitInv, Shop, Closing

(* Nothing of the desk moves.                                                *)
LEMMA ShopSame ==
  ASSUME ExitInv, NEW p \in Proc, NEW l, NEW j, Take(p, l, j), l # "applied", UNCHANGED desk
  PROVE  Shop'
<1>1. DeskTyped' /\ row' \in {row, "closed"} /\ card' = card
  BY DEF ExitInv, Shop, DeskTyped, desk
<1> QED BY <1>1, ShopMoved

(* One card moves, to anything but sold.                                     *)
LEMMA ShopCard ==
  ASSUME ExitInv, NEW p \in Proc, NEW l, NEW j, Take(p, l, j), l # "applied",
         NEW c, NEW s \in CardStatus \ {"sold"}, SetCard(c, s), UNCHANGED <<row, rowQty, rowStop, incident>>
  PROVE  Shop'
<1>1. card \in [Card -> CardStatus] /\ card' = [card EXCEPT ![c] = s]
  BY DEF ExitInv, Shop, DeskTyped, SetCard
<1>2. DeskTyped' /\ row' \in {row, "closed"}
  BY <1>1 DEF ExitInv, Shop, DeskTyped
<1>3. \A d \in Card : card'[d] = "sold" => card[d] = "sold"
  BY <1>1
<1> QED BY <1>2, <1>3, ShopMoved

(* The pass's listings, and the bounds.                                      *)
LEMMA PassSame ==
  ASSUME ExitInv, UNCHANGED <<scene, crashes, snap, rest>>, listed' \in 0..Qty
  PROVE  PassTyped'
BY DEF ExitInv, PassTyped

(* A listing is within the bound.                                            *)
LEMMA ListedTyped ==
  ASSUME ExitInv, NEW q \in 0..Qty, Reads(q)
  PROVE  listed' \in 0..Qty
BY DEF ExitInv, PassTyped, Reads

(* Leaving is a move to idle.                                                *)
LEMMA Leaves ==
  ASSUME ExitInv, NEW p \in Proc, Leave(p), RecordStays, UNCHANGED <<scene, crashes>>, listed' \in 0..Qty
  PROVE  Seats' /\ PassTyped' /\ Take(p, "idle", NoJob)
<1>1. Take(p, "idle", NoJob) /\ (p # Rec => snap' = snap)
  BY DEF Leave
<1>2. NoJob \in Job /\ Sound(p, "idle", NoJob)
  BY NoJobIsJob DEF Sound, CoverPc, StopPc, SalePc, PlainPc, PassPc, DecidePc
<1>3. "idle" \in ExitPc \ {"located", "absorb"}
  BY DEF ExitPc
<1>4. Seats'
  BY <1>1, <1>2, <1>3, Moved
<1>5. PassTyped'
  BY DEF ExitInv, PassTyped, Leave
<1> QED BY <1>1, <1>4, <1>5

(* A coroutine goes on with the same locals.                                 *)
LEMMA Goes ==
  ASSUME ExitInv, RecordStays, UNCHANGED scene, NEW p \in Proc, NEW l \in ExitPc \ {"located", "absorb"},
         Goto(p, l), job' = job, Sound(p, l, job[p]), snap' = snap
  PROVE  Seats' /\ Take(p, l, job[p])
<1>1. job \in [Proc -> Job]
  BY DEF ExitInv, Seats, SeatsTyped
<1>2. job' = [job EXCEPT ![p] = job[p]] /\ job[p] \in Job
  BY <1>1 DEF Job
<1>3. Take(p, l, job[p])
  BY <1>2 DEF Take
<1> QED BY <1>2, <1>3, Moved

(* Where a sale runs, the intent in hand is an exit or an emergency close.   *)
LEMMA HandKnown ==
  ASSUME ExitInv, NEW p \in Proc, pc[p] \in SalePc
  PROVE  /\ Hand(p) \in ExitSlot \union FlatSlot
         /\ job[p].then = "none" => p \in Worker /\ Hand(p) \in ExitSlot /\ Hand(p) = job[p].sale
         /\ job[p].then # "none" => Hand(p) \in FlatSlot /\ Hand(p) = job[p].flat
BY DEF ExitInv, Seats, AllSound, Sound, Hand, Proc

-----------------------------------------------------------------------------
(* Every action keeps the invariant: sell cards and decide_exit.             *)

(* Nobody moves and the orders stay: what is left is the desk.               *)
LEMMA CardStep ==
  ASSUME ExitInv, UNCHANGED <<scene, row, rowQty, rowStop, incident, intents, venue, listed, task, pass, crashes>>,
         NEW c, NEW s \in CardStatus \ {"sold"}, SetCard(c, s)
  PROVE  ExitInv'
<1>1. Lots' /\ RecordStays
  BY LotsSame DEF venue
<1>2. Seats'
  BY <1>1, Unmoved DEF task, pass
<1>3. PassTyped'
  BY PassSame DEF pass, ExitInv, PassTyped
<1>4. card \in [Card -> CardStatus] /\ card' = [card EXCEPT ![c] = s]
  BY DEF ExitInv, Shop, DeskTyped, SetCard
<1>5. DeskTyped'
  BY <1>4 DEF ExitInv, Shop, DeskTyped
<1>6. \A d \in Card : card'[d] = "sold" => card[d] = "sold"
  BY <1>4
<1>7. Shop'
  BY <1>5, <1>6 DEF ExitInv, Shop, Closing, task
<1> QED BY <1>1, <1>2, <1>3, <1>7 DEF ExitInv

(* A card raised or declined keeps the invariant.                           *)
LEMMA CardsKeep ==
  ASSUME ExitInv, Cards
  PROVE  ExitInv'
<1>1. {"awaiting", "held", "expired"} \subseteq CardStatus \ {"sold"}
  BY DEF CardStatus
<1>2. ASSUME NEW c \in Card, Propose(c) PROVE ExitInv'
  BY <1>1, <1>2, CardStep DEF Propose
<1>3. ASSUME NEW c \in Card, NEW s \in {"held", "expired"}, Decline(c, s) PROVE ExitInv'
  BY <1>1, <1>3, CardStep DEF Decline
<1> QED BY <1>2, <1>3 DEF Cards

(* So does the claim of a card,                                             *)
LEMMA SellKeeps ==
  ASSUME ExitInv, NEW w \in Worker, NEW c \in Card, Sell(w, c)
  PROVE  ExitInv'
<1>1. Lots' /\ RecordStays
  BY LotsSame DEF Sell, venue
<1>2. PICK l \in {"refused", "listing"} : Take(w, l, [NoJob EXCEPT !.card = c])
  BY DEF Sell
<1> DEFINE j == Deciding(c)
<1>3. j \in Job /\ j.then = "none" /\ j.sale = NoSlot
  BY PatchDeciding
<1>4. Take(w, l, j)
  BY <1>2 DEF Deciding
<1> HIDE DEF j
<1>5. w # Rec /\ w \in Proc /\ l \in ExitPc \ {"located", "absorb"} /\ l # "applied"
  BY NameAssumption DEF Proc, ExitPc
<1>6. Sound(w, l, j)
  BY <1>3, <1>5 DEF Sound, CoverPc, StopPc, SalePc, PlainPc, PassPc, DecidePc
<1>7. UNCHANGED scene /\ snap' = snap
  BY DEF Sell, pass
<1>8. Seats'
  BY <1>1, <1>3, <1>4, <1>5, <1>6, <1>7, Moved
<1>9. Shop'
  BY <1>4, <1>5, ShopCard DEF Sell, CardStatus
<1>10. PassTyped'
  BY PassSame DEF Sell, pass, ExitInv, PassTyped
<1> QED BY <1>1, <1>8, <1>9, <1>10 DEF ExitInv

(* and a gate that refuses the sale.                                        *)
LEMMA GateRefusesKeeps ==
  ASSUME ExitInv, NEW w \in Worker, GateRefuses(w)
  PROVE  ExitInv'
<1>1. Lots' /\ RecordStays
  BY LotsSame DEF GateRefuses, venue
<1>2. Seats' /\ PassTyped' /\ Take(w, "idle", NoJob)
  BY <1>1, Leaves DEF GateRefuses, Proc, ExitInv, PassTyped
<1>3. Shop'
  BY <1>2, ShopCard DEF GateRefuses, CardStatus, Proc
<1> QED BY <1>1, <1>2, <1>3 DEF ExitInv

(* A position that is flat already is closed with its card.                 *)
LEMMA AlreadyFlatKeeps ==
  ASSUME ExitInv, NEW w \in Worker, AlreadyFlat(w)
  PROVE  ExitInv'
<1>1. Lots' /\ RecordStays
  BY LotsSame DEF AlreadyFlat, venue
<1>2. listed' \in 0..Qty
  BY ListedTyped, QtyAssumption DEF AlreadyFlat
<1>3. Seats' /\ PassTyped' /\ Take(w, "idle", NoJob)
  BY <1>1, <1>2, Leaves DEF AlreadyFlat, Proc
<1>4. DeskTyped'
  <2>1. card \in [Card -> CardStatus] /\ card' = [card EXCEPT ![job[w].card] = "sold"] /\ "sold" \in CardStatus
    BY DEF AlreadyFlat, ExitInv, Shop, DeskTyped, SetCard, CardStatus
  <2>2. 0 \in 0..Qty
    BY QtyAssumption
  <2> QED BY <2>1, <2>2 DEF AlreadyFlat, ExitInv, Shop, DeskTyped
<1>5. Shop'
  BY <1>3, <1>4, ShopMoved DEF AlreadyFlat, Proc
<1> QED BY <1>1, <1>3, <1>5 DEF ExitInv

(* An unresolved exit is adopted.                                           *)
LEMMA AdoptExitKeeps ==
  ASSUME ExitInv, NEW w \in Worker, AdoptExit(w)
  PROVE  ExitInv'
<1>1. Lots' /\ RecordStays
  BY LotsSame DEF AdoptExit, venue
<1>2. listed' \in 0..Qty
  BY ListedTyped DEF AdoptExit
<1>3. PICK i \in Live(ExitSlot) :
        Take(w, IF MayResubmit(st[i]) THEN "freeing" ELSE "locating",
             [job[w] EXCEPT !.sale = i, !.copy = applied[i], !.stop = rowStop, !.lot = rowQty])
  BY Zenon DEF AdoptExit
<1> DEFINE l == IF MayResubmit(st[i]) THEN "freeing" ELSE "locating"
           j == Adopting(job[w], i, applied[i], rowStop, rowQty)
<1>4. i \in ExitSlot /\ i \in Slot /\ w \in Proc /\ w # Rec
  BY NameAssumption DEF Live, Slot, Proc
<1>5. Sound(w, pc[w], job[w]) /\ pc[w] = "listing"
  BY <1>4 DEF AdoptExit, ExitInv, Seats, AllSound
<1>6. j \in Job /\ j.sale = i /\ j.then = job[w].then
  <2>1. i \in Slot /\ job[w] \in Job
    BY <1>4 DEF ExitInv, Seats, SeatsTyped
  <2>2. applied[i] \in 0..Qty /\ rowStop \in StopSlot \union {NoSlot} /\ rowQty \in 0..Qty
    BY <2>1 DEF ExitInv, Lots, LotsTyped, Shop, DeskTyped
  <2> HIDE DEF j
  <2>3. j = Adopting(job[w], i, applied[i], rowStop, rowQty)
    BY DEF j
  <2> QED BY <2>1, <2>2, <2>3, PatchAdopting
<1>7. l \in {"freeing", "locating"} /\ Take(w, l, j)
  BY <1>3 DEF Adopting
<1> HIDE DEF j, l
<1>8. l \in ExitPc \ {"located", "absorb"} /\ l # "applied"
  BY <1>7 DEF ExitPc
<1>9. Sound(w, l, j)
  BY <1>4, <1>5, <1>6, <1>7 DEF Sound, CoverPc, StopPc, SalePc, PlainPc, PassPc, DecidePc
<1>10. UNCHANGED scene /\ snap' = snap
  BY DEF AdoptExit, pass
<1>11. Seats'
  BY <1>1, <1>4, <1>6, <1>7, <1>8, <1>9, <1>10, Moved
<1>12. Shop'
  BY <1>4, <1>7, <1>8, ShopSame DEF AdoptExit
<1>13. PassTyped'
  BY <1>2, PassSame DEF AdoptExit, pass
<1> QED BY <1>1, <1>11, <1>12, <1>13 DEF ExitInv

(* A new exit takes a vacant slot.                                          *)
LEMMA CreateExitKeeps ==
  ASSUME ExitInv, NEW w \in Worker, CreateExit(w)
  PROVE  ExitInv'
<1>1. PICK q \in 1..Qty :
        /\ Reads(q)
        /\ CreateIntent(Fresh(ExitSlot), q)
        /\ Take(w, "freeing", [job[w] EXCEPT !.sale = Fresh(ExitSlot), !.stop = rowStop, !.lot = rowQty])
  BY DEF CreateExit
<1>2. ExitSlot \subseteq Slot /\ q \in 0..Qty /\ q > 0
  BY DEF Slot
<1>3. Lots' /\ RecordStays /\ Fresh(ExitSlot) \in ExitSlot
  BY <1>1, <1>2, LotsCreate DEF CreateExit
<1>4. listed' \in 0..Qty
  BY <1>1, <1>2, ListedTyped
<1> DEFINE j == Creating(job[w], Fresh(ExitSlot), rowStop, rowQty)
<1>5. /\ job[w] \in Job /\ rowStop \in StopSlot \union {NoSlot} /\ rowQty \in 0..Qty
      /\ Sound(w, pc[w], job[w]) /\ pc[w] = "listing" /\ w \in Proc /\ w # Rec
  BY NameAssumption DEF CreateExit, ExitInv, Seats, SeatsTyped, AllSound, Shop, DeskTyped, Proc
<1>6. j \in Job /\ j.sale = Fresh(ExitSlot) /\ j.then = job[w].then
  BY <1>2, <1>3, <1>5, PatchCreating
<1>7. Take(w, "freeing", j)
  BY <1>1 DEF Creating
<1> HIDE DEF j
<1>8. Sound(w, "freeing", j)
  BY <1>3, <1>5, <1>6 DEF Sound, CoverPc, StopPc, SalePc, PlainPc, PassPc, DecidePc
<1>9. UNCHANGED scene /\ snap' = snap
  BY DEF CreateExit, pass
<1>10. "freeing" \in ExitPc \ {"located", "absorb"}
  BY DEF ExitPc
<1>11. Seats'
  BY <1>3, <1>5, <1>6, <1>7, <1>8, <1>9, <1>10, Moved
<1>12. Shop'
  BY <1>5, <1>7, ShopSame DEF CreateExit
<1>13. PassTyped'
  BY <1>4, PassSame DEF CreateExit, pass
<1> QED BY <1>3, <1>11, <1>12, <1>13 DEF ExitInv

(* A listing that raises leaves the claimed card behind.                    *)
LEMMA ListingFailsKeeps ==
  ASSUME ExitInv, NEW w \in Worker, ListingFails(w)
  PROVE  ExitInv'
<1>1. Lots' /\ RecordStays
  BY LotsSame DEF ListingFails, venue
<1>2. Seats' /\ PassTyped' /\ Take(w, "idle", NoJob)
  BY <1>1, Leaves DEF ListingFails, Proc, ExitInv, PassTyped
<1>3. Shop'
  BY <1>2, ShopSame DEF ListingFails, Proc
<1> QED BY <1>1, <1>2, <1>3 DEF ExitInv

-----------------------------------------------------------------------------
(* A sale keeps the invariant.                                               *)

(* No status but Created is the status of an intent not transmitted.         *)
LEMMA Named ==
  {Submitting, Submitted, Acknowledged, PartiallyFilled, CancelPending, Unknown, Filled, Canceled, Rejected, Expired}
    \subseteq IntentStatus \ {Created}
BY DEF Unresolved, Terminal, IntentStatus, Created, Submitting, Submitted, Acknowledged,
       PartiallyFilled, CancelPending, Unknown, Filled, Canceled, Rejected, Expired

(* A move of the machine never makes an intent new.                          *)
LEMMA StatusMoves ==
  ASSUME ExitInv, NEW i \in Slot, NEW t \in IntentStatus \ {Created}, NEW u
  PROVE  /\ st[i] \in IntentStatus \union {"none"} /\ t # Created
         /\ SafeTransition(st[i], t) \in {st[i], t}
         /\ MarkUnknown(st[i]) \in {st[i], Unknown} /\ Unknown \in IntentStatus \ {Created}
         /\ TransitionFrom(st[i], u, t) \in {st[i], t}
BY Statuses DEF ExitInv, Lots, LotsTyped, TransitionFrom

(* An order found at the venue is waited for.                               *)
LEMMA SaleLocatedKeeps ==
  ASSUME ExitInv, NEW p \in Proc, SaleLocated(p)
  PROVE  ExitInv'
<1>1. Lots' /\ RecordStays
  BY LotsSame DEF SaleLocated, venue
<1>2. "filling" \in ExitPc \ {"located", "absorb"}
  BY DEF ExitPc
<1>3. Sound(p, "filling", job[p])
  BY DEF SaleLocated, ExitInv, Seats, AllSound, Sound, CoverPc, StopPc, SalePc, PlainPc, PassPc, DecidePc
<1>4. Seats' /\ Take(p, "filling", job[p])
  BY <1>1, <1>2, <1>3, Goes DEF SaleLocated, pass
<1>5. Shop'
  BY <1>4, ShopSame DEF SaleLocated
<1>6. PassTyped'
  BY PassSame DEF SaleLocated, pass, ExitInv, PassTyped
<1> QED BY <1>1, <1>4, <1>5, <1>6 DEF ExitInv

(* To "return" a coroutine goes with what it carried.                        *)
LEMMA SoundReturn ==
  ASSUME ExitInv, NEW p \in Proc, job[p].then # "none"
  PROVE  Sound(p, "return", job[p]) /\ "return" \in ExitPc \ {"located", "absorb"}
BY DEF ExitPc, ExitInv, Seats, AllSound, Sound, CoverPc, StopPc, SalePc, PlainPc, PassPc, DecidePc

(* A coroutine leaves or returns to its caller, and the desk stays.          *)
LEMMA LeavesOrReturns ==
  ASSUME ExitInv, NEW p \in Proc, Lots', RecordStays, UNCHANGED <<scene, crashes, desk, listed>>,
         Leave(p) \/ (job[p].then # "none" /\ Goto(p, "return") /\ UNCHANGED <<job, pass>>)
  PROVE  ExitInv'
<1>1. listed' \in 0..Qty
  BY DEF ExitInv, PassTyped
<1>2. CASE Leave(p)
  <2>1. Seats' /\ PassTyped' /\ Take(p, "idle", NoJob)
    BY <1>1, <1>2, Leaves
  <2>2. Shop'
    BY <2>1, ShopSame
  <2> QED BY <2>1, <2>2 DEF ExitInv
<1>3. CASE job[p].then # "none" /\ Goto(p, "return") /\ UNCHANGED <<job, pass>>
  <2>1. Sound(p, "return", job[p]) /\ "return" \in ExitPc \ {"located", "absorb"}
    BY <1>3, SoundReturn
  <2>2. Seats' /\ Take(p, "return", job[p])
    BY <1>3, <2>1, Goes DEF pass
  <2>3. Shop'
    BY <2>2, ShopSame
  <2>4. PassTyped'
    BY <1>1, <1>3, PassSame DEF pass
  <2> QED BY <2>2, <2>3, <2>4 DEF ExitInv
<1> QED BY <1>2, <1>3

(* One that is not found is unknown.                                        *)
LEMMA SaleNotLocatedKeeps ==
  ASSUME ExitInv, NEW p \in Proc, SaleNotLocated(p)
  PROVE  ExitInv'
<1> DEFINE i == Hand(p)
           s == IF st[i] = Created THEN Created ELSE MarkUnknown(st[i])
<1>1. i \in Slot
  BY HandKnown DEF SaleNotLocated, SalePc, Slot
<1>2. SetStatus(i, s) /\ UNCHANGED <<scene, desk, asked, noted, applied, past, venue, listed, crashes>>
  BY DEF SaleNotLocated
<1>3. s \in IntentStatus \union {"none"} /\ (s = Created => st[i] = Created)
  <2>1. Created \in IntentStatus
    BY Statuses
  <2> QED BY <1>1, <2>1, StatusMoves, Named
<1>4. Leave(p) \/ (job[p].then # "none" /\ Goto(p, "return") /\ UNCHANGED <<job, pass>>)
  BY DEF SaleNotLocated
<1> HIDE DEF i, s
<1>5. Lots' /\ RecordStays
  BY <1>1, <1>2, <1>3, LotsStatus DEF venue, ExitInv, Lots, LotsTyped
<1> QED BY <1>2, <1>4, <1>5, LeavesOrReturns

(* The stops in the way of a sale are canceled.                             *)
LEMMA FreeSharesKeeps ==
  ASSUME ExitInv, NEW p \in Proc, FreeShares(p)
  PROVE  ExitInv'
<1>1. PICK S \in {{job[p].stop}, {job[p].stop} \union {s \in StopSlot : Resting(s)}} : Freed(S)
  BY DEF FreeShares
<1>2. Lots' /\ RecordStays
  BY <1>1, LotsFreed DEF FreeShares, intents, ExitInv, Lots, LotsTyped
<1>3. "verifying" \in ExitPc \ {"located", "absorb"}
  BY DEF ExitPc
<1>4. Sound(p, "verifying", job[p])
  BY DEF FreeShares, ExitInv, Seats, AllSound, Sound, CoverPc, StopPc, SalePc, PlainPc, PassPc, DecidePc
<1>5. Seats' /\ Take(p, "verifying", job[p])
  BY <1>2, <1>3, <1>4, Goes DEF FreeShares, pass
<1>6. Shop'
  BY <1>5, ShopSame DEF FreeShares
<1>7. PassTyped'
  BY PassSame DEF FreeShares, pass, ExitInv, PassTyped
<1> QED BY <1>2, <1>5, <1>6, <1>7 DEF ExitInv

(* The card goes back with the coroutine.                                    *)
LEMMA LeavesWithCard ==
  ASSUME ExitInv, NEW p \in Proc, Lots', RecordStays, Leave(p), NEW c, SetCard(c, "awaiting"),
         UNCHANGED <<scene, crashes, row, rowQty, rowStop, incident, listed>>
  PROVE  ExitInv'
<1>1. Seats' /\ PassTyped' /\ Take(p, "idle", NoJob)
  BY Leaves DEF ExitInv, PassTyped
<1>2. Shop'
  BY <1>1, ShopCard DEF CardStatus
<1> QED BY <1>1, <1>2 DEF ExitInv

(* A sale refused before its submission retires its intent.                 *)
LEMMA SaleBlockedKeeps ==
  ASSUME ExitInv, NEW p \in Proc, SaleBlocked(p)
  PROVE  ExitInv'
<1> DEFINE i == Hand(p)
<1>1. i \in Slot
  BY HandKnown DEF SaleBlocked, SalePc, Slot
<1>2. /\ SetStatus(i, SafeTransition(st[i], Rejected))
      /\ UNCHANGED <<scene, row, rowQty, rowStop, incident, asked, noted, applied, past, venue, listed, crashes>>
  BY DEF SaleBlocked
<1>3. SafeTransition(st[i], Rejected) \in IntentStatus \union {"none"}
        /\ (SafeTransition(st[i], Rejected) = Created => st[i] = Created)
  BY <1>1, StatusMoves, Named
<1>4. \/ Leave(p) /\ UNCHANGED card
      \/ Leave(p) /\ SetCard(job[p].card, "awaiting")
      \/ job[p].then # "none" /\ Goto(p, "return") /\ UNCHANGED <<card, job, pass>>
  BY DEF SaleBlocked
<1> HIDE DEF i
<1>5. Lots' /\ RecordStays
  BY <1>1, <1>2, <1>3, LotsStatus DEF venue, ExitInv, Lots, LotsTyped
<1>6. CASE UNCHANGED card /\ (Leave(p) \/ (job[p].then # "none" /\ Goto(p, "return") /\ UNCHANGED <<card, job, pass>>))
  BY <1>2, <1>5, <1>6, LeavesOrReturns DEF desk
<1>7. CASE Leave(p) /\ SetCard(job[p].card, "awaiting")
  BY <1>2, <1>5, <1>7, LeavesWithCard
<1> QED BY <1>4, <1>6, <1>7

(* The winner of the claim transmits.                                       *)
LEMMA ClaimSaleKeeps ==
  ASSUME ExitInv, NEW p \in Proc, ClaimSale(p)
  PROVE  ExitInv'
<1> DEFINE i == Hand(p)
<1>1. i \in Slot
  BY HandKnown DEF ClaimSale, SalePc, Slot
<1>2. PICK q \in 1..Qty : Reads(q)
  BY DEF ClaimSale
<1>3. listed' \in 0..Qty
  BY <1>2, ListedTyped
<1>4. UNCHANGED <<scene, desk, asked, noted, applied, past, ord, sold, held, job, pass, crashes>>
  BY DEF ClaimSale
<1>5. \/ st[i] = Created /\ SetStatus(i, Submitting) /\ wire' = wire \union {i} /\ Goto(p, "replying")
      \/ Goto(p, "locating") /\ UNCHANGED <<st, wire>>
  BY DEF ClaimSale, SaleClaim
<1> HIDE DEF i
<1>6. Lots' /\ RecordStays
  BY <1>1, <1>4, <1>5, LotsSend, LotsSame DEF intents
<1>7. {"replying", "locating"} \subseteq ExitPc \ {"located", "absorb"}
  BY DEF ExitPc
<1>8. Sound(p, "replying", job[p]) /\ Sound(p, "locating", job[p])
  BY DEF ClaimSale, ExitInv, Seats, AllSound, Sound, CoverPc, StopPc, SalePc, PlainPc, PassPc, DecidePc
<1>9. \E l \in {"replying", "locating"} : Seats' /\ Take(p, l, job[p])
  BY <1>4, <1>5, <1>6, <1>7, <1>8, Goes DEF pass
<1>10. Shop'
  BY <1>4, <1>9, ShopSame
<1>11. PassTyped'
  BY <1>3, <1>4, PassSame DEF pass
<1> QED BY <1>6, <1>9, <1>10, <1>11 DEF ExitInv

(* A coroutine goes on, the desk and the listings stay.                      *)
LEMMA GoesOn ==
  ASSUME ExitInv, NEW p \in Proc, Lots', RecordStays, NEW l \in ExitPc \ {"located", "absorb", "applied"},
         Goto(p, l), Sound(p, l, job[p]), UNCHANGED <<scene, desk, listed, job, pass, crashes>>
  PROVE  ExitInv'
<1>1. Seats' /\ Take(p, l, job[p])
  BY Goes DEF pass
<1>2. Shop'
  BY <1>1, ShopSame
<1>3. PassTyped'
  BY PassSame DEF pass, ExitInv, PassTyped
<1> QED BY <1>1, <1>2, <1>3 DEF ExitInv

(* The answer to a sale is recorded, unless the pass was first.             *)
LEMMA SaleAcceptedKeeps ==
  ASSUME ExitInv, NEW p \in Proc, SaleAccepted(p)
  PROVE  ExitInv'
<1> DEFINE i == Hand(p)
<1>1. i \in Slot
  BY HandKnown DEF SaleAccepted, SalePc, Slot
<1>2. UNCHANGED <<scene, desk, asked, noted, applied, past, venue, listed, crashes>>
  BY DEF SaleAccepted
<1>3. PICK s : SetStatus(i, s) /\ s \in {Acknowledged, Submitted, MarkUnknown(st[i]), st[i]}
               /\ (Leave(p) \/ (Goto(p, "filling") /\ UNCHANGED <<job, pass>>))
  BY DEF SaleAccepted
<1>4. s \in IntentStatus \union {"none"} /\ (s = Created => st[i] = Created)
  BY <1>1, <1>3, StatusMoves, Named
<1> HIDE DEF i
<1>5. Lots' /\ RecordStays
  BY <1>1, <1>2, <1>3, <1>4, LotsStatus DEF venue, ExitInv, Lots, LotsTyped
<1>6. CASE Leave(p)
  BY <1>2, <1>5, <1>6, LeavesOrReturns
<1>7. CASE Goto(p, "filling") /\ UNCHANGED <<job, pass>>
  <2>1. Sound(p, "filling", job[p]) /\ "filling" \in ExitPc \ {"located", "absorb", "applied"}
    BY DEF SaleAccepted, ExitInv, Seats, AllSound, Sound, CoverPc, StopPc, SalePc, PlainPc, PassPc, DecidePc, ExitPc
  <2> QED BY <1>2, <1>5, <1>7, <2>1, GoesOn
<1> QED BY <1>3, <1>6, <1>7

(* A sale refused by the venue is over.                                     *)
LEMMA SaleRefusedKeeps ==
  ASSUME ExitInv, NEW p \in Proc, SaleRefused(p)
  PROVE  ExitInv'
<1> DEFINE i == Hand(p)
<1>1. i \in Slot
  BY HandKnown DEF SaleRefused, SalePc, Slot
<1>2. /\ UNCHANGED <<scene, row, rowQty, rowStop, incident, asked, noted, applied, past, venue, listed, crashes>>
      /\ SetStatus(i, Rejected)
  BY DEF SaleRefused
<1>3. \/ Leave(p) /\ SetCard(job[p].card, "awaiting")
      \/ job[p].then # "none" /\ Goto(p, "return") /\ UNCHANGED <<card, job, pass>>
  BY DEF SaleRefused
<1> HIDE DEF i
<1>4. Lots' /\ RecordStays
  BY <1>1, <1>2, LotsStatus, Named DEF venue, ExitInv, Lots, LotsTyped
<1>5. CASE Leave(p) /\ SetCard(job[p].card, "awaiting")
  BY <1>2, <1>4, <1>5, LeavesWithCard
<1>6. CASE job[p].then # "none" /\ Goto(p, "return") /\ UNCHANGED <<card, job, pass>>
  BY <1>2, <1>4, <1>6, LeavesOrReturns DEF desk
<1> QED BY <1>3, <1>5, <1>6

(* A sale without an answer is unknown.                                     *)
LEMMA SaleUnknownKeeps ==
  ASSUME ExitInv, NEW p \in Proc, SaleUnknown(p)
  PROVE  ExitInv'
<1> DEFINE i == Hand(p)
<1>1. i \in Slot
  BY HandKnown DEF SaleUnknown, SalePc, Slot
<1>2. UNCHANGED <<scene, desk, asked, noted, applied, past, venue, listed, crashes>> /\ SetStatus(i, MarkUnknown(st[i]))
  BY DEF SaleUnknown
<1>3. Leave(p) \/ (job[p].then # "none" /\ Goto(p, "return") /\ UNCHANGED <<job, pass>>)
  BY DEF SaleUnknown
<1>4. MarkUnknown(st[i]) \in IntentStatus \union {"none"} /\ (MarkUnknown(st[i]) = Created => st[i] = Created)
  BY <1>1, StatusMoves, Named
<1> HIDE DEF i
<1>5. Lots' /\ RecordStays
  BY <1>1, <1>2, <1>4, LotsStatus DEF venue, ExitInv, Lots, LotsTyped
<1> QED BY <1>2, <1>3, <1>5, LeavesOrReturns

(* The remainder of a sale that does not fill is canceled.                  *)
LEMMA FillGivesUpKeeps ==
  ASSUME ExitInv, NEW p \in Proc, FillGivesUp(p)
  PROVE  ExitInv'
<1> DEFINE i == Hand(p)
<1>1. i \in Slot
  BY HandKnown DEF FillGivesUp, SalePc, Slot
<1>2. /\ UNCHANGED <<scene, desk, asked, noted, applied, past, venue, listed, job, pass, crashes>>
      /\ SetStatus(i, SafeTransition(st[i], CancelPending)) /\ Goto(p, "rereading")
  BY DEF FillGivesUp
<1>3. SafeTransition(st[i], CancelPending) \in IntentStatus \union {"none"}
        /\ (SafeTransition(st[i], CancelPending) = Created => st[i] = Created)
  BY <1>1, StatusMoves, Named
<1> HIDE DEF i
<1>4. Lots' /\ RecordStays
  BY <1>1, <1>2, <1>3, LotsStatus DEF venue, ExitInv, Lots, LotsTyped
<1>5. Sound(p, "rereading", job[p]) /\ "rereading" \in ExitPc \ {"located", "absorb", "applied"}
  BY DEF FillGivesUp, ExitInv, Seats, AllSound, Sound, CoverPc, StopPc, SalePc, PlainPc, PassPc, DecidePc, ExitPc
<1> QED BY <1>2, <1>4, <1>5, GoesOn

(* A coroutine moves with new locals, the desk stays.                        *)
LEMMA TakesOn ==
  ASSUME ExitInv, NEW p \in Proc, Lots', RecordStays, NEW l \in ExitPc \ {"located", "absorb", "applied"},
         NEW j \in Job, Take(p, l, j), Sound(p, l, j), UNCHANGED <<scene, desk, crashes>>, pass' = pass,
         listed' \in 0..Qty
  PROVE  ExitInv'
<1>1. Seats'
  BY Moved DEF pass
<1>2. Shop'
  BY ShopSame
<1>3. PassTyped'
  BY PassSame DEF pass
<1> QED BY <1>1, <1>2, <1>3 DEF ExitInv

(* Where the locals are typed.                                               *)
LEMMA JobTyped ==
  ASSUME ExitInv, NEW p \in Proc
  PROVE  /\ job[p] \in Job /\ pc[p] \in ExitPc /\ Sound(p, pc[p], job[p])
         /\ job[p].copy \in 0..Qty /\ job[p].lot \in 0..Qty /\ job[p].qty \in 0..Qty /\ listed \in 0..Qty
         /\ job[p].rec.qty \in 0..Qty /\ job[p].rec.st \in OrderState
BY DEF ExitInv, Seats, SeatsTyped, AllSound, Job, PassTyped

(* An exit that sold nothing restores its stop or gives its card back.      *)
LEMMA ExitUnfilledKeeps ==
  ASSUME ExitInv, NEW w \in Worker, ExitUnfilled(w)
  PROVE  ExitInv'
<1> DEFINE i == job[w].sale
<1>1. w \in Proc /\ pc[w] \in SalePc
  BY DEF ExitUnfilled, FinalRecord, SalePc, Proc
<1>2. i \in Slot
  BY <1>1, HandKnown DEF ExitUnfilled, Slot
<1>3. SafeTransition(st[i], Canceled) \in IntentStatus \union {"none"}
        /\ (SafeTransition(st[i], Canceled) = Created => st[i] = Created)
  BY <1>2, StatusMoves, Named
<1>4. /\ UNCHANGED <<scene, row, rowQty, rowStop, incident, asked, noted, applied, past, venue, listed, crashes>>
      /\ SetStatus(i, SafeTransition(st[i], Canceled))
  BY DEF ExitUnfilled
<1> HIDE DEF i
<1>5. Lots' /\ RecordStays
  BY <1>2, <1>3, <1>4, LotsStatus DEF venue, ExitInv, Lots, LotsTyped
<1>6. CASE manual \/ job[w].lot = 0
  <2>1. Leave(w) /\ SetCard(job[w].card, "awaiting")
    BY <1>6 DEF ExitUnfilled
  <2> QED BY <1>1, <1>4, <1>5, <2>1, LeavesWithCard
<1>7. CASE ~(manual \/ job[w].lot = 0)
  <2> DEFINE j == Restoring(job[w])
  <2>1. /\ Take(w, "verifystop", j) /\ UNCHANGED <<card, pass>>
    BY <1>7 DEF ExitUnfilled, Restoring
  <2>2. j \in Job /\ j.then = "restore" /\ j.qty = job[w].lot /\ j.sale = job[w].sale /\ job[w].lot \in 0..Qty
    BY <1>1, JobTyped, PatchRestoring
  <2>3. w # Rec /\ Sound(w, pc[w], job[w]) /\ listed \in 0..Qty
    BY <1>1, NameAssumption, JobTyped
  <2> HIDE DEF j
  <2>4. Sound(w, "verifystop", j)
    BY <1>1, <1>7, <2>2, <2>3 DEF Sound, CoverPc, StopPc, SalePc, PlainPc, PassPc, DecidePc
  <2>5. "verifystop" \in ExitPc \ {"located", "absorb", "applied"}
    BY DEF ExitPc
  <2> QED BY <1>1, <1>4, <1>5, <2>1, <2>2, <2>3, <2>4, <2>5, TakesOn DEF desk
<1> QED BY <1>6, <1>7

(* An exit that sold is absorbed by the book.                               *)
LEMMA ExitFilledKeeps ==
  ASSUME ExitInv, NEW w \in Worker, ExitFilled(w)
  PROVE  ExitInv'
<1> DEFINE i == job[w].sale
           n == Cut(i, job[w].copy, sold[i])
           j == Settling(job[w], ord[i], n, rowQty')
<1>1. w \in Proc /\ pc[w] \in SalePc /\ job[w].then = "none"
  BY DEF ExitFilled, FinalRecord, SalePc, Proc
<1>2. i \in Slot /\ i \in ExitSlot
  BY <1>1, HandKnown DEF ExitFilled, Slot
<1>3. sold[i] \in 0..Qty /\ sold[i] <= sold[i] /\ ord[i] \in OrderState /\ st \in [Slot -> IntentStatus \union {"none"}]
      /\ noted \in [Slot -> 0..Qty]
  BY <1>2 DEF ExitInv, Lots, LotsTyped
<1>4. /\ Absorb(i, job[w].copy, sold[i])
      /\ UNCHANGED <<scene, card, rowStop, incident, st, asked, noted, past, venue, listed, pass, crashes>>
      /\ Take(w, "applied", j)
  BY DEF ExitFilled, Settling
<1>5. /\ job[w] \in Job /\ job[w].copy \in 0..Qty /\ listed \in 0..Qty /\ Sound(w, pc[w], job[w])
  BY <1>1, JobTyped
<1>6. /\ applied' \in [Slot -> 0..Qty] /\ \A k \in Slot : applied'[k] <= sold[k]
      /\ rowQty' \in 0..Qty /\ row' \in {row, "closed"} /\ (rowQty' = 0 => row' = "closed")
      /\ n \in 0..Qty
  BY <1>2, <1>3, <1>4, <1>5, Absorbing
<1>7. Lots' /\ RecordStays
  BY <1>3, <1>4, <1>6, LotsMove DEF venue
<1>8. j \in Job /\ j.then = "none" /\ j.qty = rowQty' /\ j.sale = i
  <2> DEFINE m == rowQty'
             b == job[w]
  <2>1. m \in 0..Qty /\ b \in Job /\ b.then = "none" /\ b.sale = i /\ ord[i] \in OrderState /\ n \in 0..Qty
    BY <1>1, <1>3, <1>5, <1>6
  <2>2. j = Settling(b, ord[i], n, m)
    OBVIOUS
  <2> HIDE DEF m, n, b, j
  <2>3. j \in Job /\ j.qty = m /\ j.then = b.then /\ j.sale = b.sale
    BY <2>1, <2>2, PatchSettling
  <2> QED BY <2>1, <2>3 DEF m
<1> HIDE DEF i, n, j
<1>9. w # Rec
  BY NameAssumption
<1>10. Sound(w, "applied", j)
  BY <1>1, <1>2, <1>5, <1>8, <1>9 DEF Sound, CoverPc, StopPc, SalePc, PlainPc, PassPc, DecidePc
<1>11. "applied" \in ExitPc \ {"located", "absorb"}
  BY DEF ExitPc
<1>12. Seats'
  BY <1>1, <1>4, <1>7, <1>8, <1>10, <1>11, Moved DEF pass
<1>13. DeskTyped'
  BY <1>4, <1>6 DEF ExitInv, Shop, DeskTyped
<1>14. Closing'
  <2>1. \A c \in Card : card'[c] = "sold" => row' = "closed"
    BY <1>4, <1>6 DEF ExitInv, Shop, Closing
  <2>2. pc' = [pc EXCEPT ![w] = "applied"] /\ job' = [job EXCEPT ![w] = j]
    BY <1>4 DEF Take, Goto
  <2>3. ASSUME NEW v \in Worker, pc'[v] = "applied", job'[v].qty = 0 PROVE row' = "closed"
    <3>1. CASE v = w
      BY <1>1, <1>6, <1>8, <2>2, <2>3, <3>1 DEF ExitInv, Seats, SeatsTyped
    <3>2. CASE v # w
      BY <1>6, <2>2, <2>3, <3>2 DEF ExitInv, Seats, SeatsTyped, Shop, Closing, Proc
    <3> QED BY <3>1, <3>2
  <2> QED BY <2>1, <2>3 DEF Closing
<1>15. PassTyped'
  BY <1>4, <1>5, PassSame DEF pass
<1> QED BY <1>7, <1>12, <1>13, <1>14, <1>15 DEF ExitInv, Shop

(* The book absorbs, and the coroutine leaves or returns.                    *)
LEMMA AbsorbsAndGoes ==
  ASSUME ExitInv, NEW p \in Proc, NEW i \in Slot, NEW copy \in 0..Qty, NEW q \in 0..Qty, q <= sold[i],
         Absorb(i, copy, q), NEW s \in IntentStatus \ {Created}, Note(i, s, q),
         UNCHANGED <<scene, card, rowStop, incident, asked, past, venue, listed, crashes>>,
         Leave(p) \/ (job[p].then # "none" /\ Goto(p, "return") /\ UNCHANGED <<job, pass>>)
  PROVE  ExitInv'
<1>1. /\ applied' \in [Slot -> 0..Qty] /\ \A k \in Slot : applied'[k] <= sold[k]
      /\ rowQty' \in 0..Qty /\ row' \in {row, "closed"}
  BY Absorbing
<1>2. st \in [Slot -> IntentStatus \union {"none"}] /\ noted \in [Slot -> 0..Qty] /\ listed \in 0..Qty
  BY DEF ExitInv, Lots, LotsTyped, PassTyped
<1>3. SafeTransition(st[i], s) \in IntentStatus \union {"none"}
        /\ (SafeTransition(st[i], s) = Created => st[i] = Created)
  BY StatusMoves
<1>4. noted' \in [Slot -> 0..Qty] /\ st' = [st EXCEPT ![i] = SafeTransition(st[i], s)]
  BY <1>2 DEF Note, SetStatus
<1>5. st' \in [Slot -> IntentStatus \union {"none"}] /\ \A k \in Slot : st'[k] = Created => st[k] = Created
  BY <1>2, <1>3, <1>4
<1>6. Lots' /\ RecordStays
  BY <1>1, <1>4, <1>5, LotsMove DEF venue
<1>7. DeskTyped'
  BY <1>1 DEF ExitInv, Shop, DeskTyped
<1>8. CASE Leave(p)
  <2>1. Seats' /\ PassTyped' /\ Take(p, "idle", NoJob)
    BY <1>2, <1>6, <1>8, Leaves
  <2> QED BY <1>1, <1>6, <1>7, <2>1, ShopMoved DEF ExitInv
<1>9. CASE job[p].then # "none" /\ Goto(p, "return") /\ UNCHANGED <<job, pass>>
  <2>1. Seats' /\ Take(p, "return", job[p])
    BY <1>6, <1>9, SoundReturn, Goes DEF pass
  <2>2. Shop'
    BY <1>1, <1>7, <2>1, ShopMoved
  <2>3. PassTyped'
    BY <1>2, <1>9, PassSame DEF pass
  <2> QED BY <1>6, <2>1, <2>2, <2>3 DEF ExitInv
<1> QED BY <1>8, <1>9

(* A manual exit still working is absorbed as far as it sold.               *)
LEMMA ExitPendingKeeps ==
  ASSUME ExitInv, NEW w \in Worker, ExitPending(w)
  PROVE  ExitInv'
<1> DEFINE i == job[w].sale
<1>1. w \in Proc /\ pc[w] \in SalePc /\ manual
  BY DEF ExitPending, SalePc, Proc
<1>2. job[w].copy \in 0..Qty /\ Sound(w, pc[w], job[w])
  BY <1>1, JobTyped
<1>3. job[w].then = "none"
  BY <1>1, <1>2 DEF Sound, SalePc
<1>4. i \in Slot
  BY <1>1, <1>3, HandKnown DEF Slot
<1>5. sold[i] \in 0..Qty /\ sold[i] <= sold[i]
  BY <1>4 DEF ExitInv, Lots, LotsTyped
<1>6. IntentStatusFor(ord[i], sold[i]) \in IntentStatus \ {Created}
  BY RecordStatus
<1>7. /\ Absorb(i, job[w].copy, sold[i]) /\ Note(i, IntentStatusFor(ord[i], sold[i]), sold[i]) /\ Leave(w)
      /\ UNCHANGED <<scene, card, rowStop, incident, asked, past, venue, listed, crashes>>
  BY DEF ExitPending
<1> HIDE DEF i
<1> QED BY <1>1, <1>2, <1>4, <1>5, <1>6, <1>7, AbsorbsAndGoes

(* An emergency close is settled with the book.                             *)
LEMMA FlatFilledKeeps ==
  ASSUME ExitInv, NEW p \in Proc, FlatFilled(p)
  PROVE  ExitInv'
<1> DEFINE i == job[p].flat
<1>1. pc[p] \in SalePc /\ job[p].then # "none"
  BY DEF FlatFilled, FinalRecord, SalePc
<1>2. i \in Slot
  BY <1>1, HandKnown DEF Slot
<1>3. sold[i] \in 0..Qty /\ sold[i] <= sold[i] /\ job[p].copy \in 0..Qty
  BY <1>2, JobTyped DEF ExitInv, Lots, LotsTyped
<1>4. FlatStatus(i) \in IntentStatus \ {Created}
  BY Named DEF FlatStatus
<1>5. /\ Absorb(i, job[p].copy, sold[i]) /\ Note(i, FlatStatus(i), sold[i]) /\ Goto(p, "return")
      /\ UNCHANGED <<scene, card, rowStop, incident, asked, past, venue, listed, job, pass, crashes>>
  BY DEF FlatFilled
<1> HIDE DEF i
<1> QED BY <1>1, <1>2, <1>3, <1>4, <1>5, AbsorbsAndGoes

(* A sale that left nothing marks its card sold.                            *)
LEMMA FinishExitKeeps ==
  ASSUME ExitInv, NEW w \in Worker, FinishExit(w)
  PROVE  ExitInv'
<1> DEFINE i == job[w].sale
<1>1. w \in Proc /\ pc[w] = "applied" /\ job[w].qty = 0
  BY DEF FinishExit, ExitSold, Proc
<1>2. i \in Slot /\ job[w].rec.qty \in 0..Qty /\ listed \in 0..Qty
  BY <1>1, JobTyped DEF Sound, Slot
<1>3. /\ Note(i, Filled, job[w].rec.qty) /\ SetCard(job[w].card, "sold") /\ Leave(w)
      /\ UNCHANGED <<scene, row, rowQty, rowStop, incident, asked, applied, past, venue, listed, crashes>>
  BY DEF FinishExit
<1> HIDE DEF i
<1>4. Lots' /\ RecordStays
  BY <1>2, <1>3, LotsNote, Named DEF venue
<1>5. Seats' /\ PassTyped' /\ Take(w, "idle", NoJob)
  BY <1>1, <1>2, <1>3, <1>4, Leaves
<1>6. DeskTyped' /\ row' = row
  <2>1. card \in [Card -> CardStatus] /\ card' = [card EXCEPT ![job[w].card] = "sold"] /\ "sold" \in CardStatus
    BY <1>3 DEF ExitInv, Shop, DeskTyped, SetCard, CardStatus
  <2> QED BY <1>3, <2>1 DEF ExitInv, Shop, DeskTyped
<1>7. row = "closed"
  BY <1>1 DEF ExitInv, Shop, Closing
<1>8. Shop'
  BY <1>1, <1>5, <1>6, <1>7, ShopMoved
<1> QED BY <1>4, <1>5, <1>8 DEF ExitInv

(* A sale that left shares goes on to protect them.                         *)
LEMMA FinishPartialKeeps ==
  ASSUME ExitInv, NEW w \in Worker, FinishPartial(w)
  PROVE  ExitInv'
<1> DEFINE i == job[w].sale
           l == IF manual THEN "return" ELSE "verifystop"
           j == Partly(job[w])
<1>1. w \in Proc /\ pc[w] = "applied" /\ job[w].qty > 0 /\ w # Rec
  BY NameAssumption DEF FinishPartial, Proc
<1>2. i \in Slot /\ job[w].rec.qty \in 0..Qty /\ listed \in 0..Qty /\ Sound(w, pc[w], job[w]) /\ job[w] \in Job
  BY <1>1, JobTyped DEF Sound, Slot
<1>3. /\ Note(i, PartiallyFilled, job[w].rec.qty) /\ Take(w, l, j)
      /\ UNCHANGED <<scene, desk, asked, applied, past, venue, listed, pass, crashes>>
  BY DEF FinishPartial, Partly
<1>4. j \in Job /\ j.then = "partial" /\ j.qty = job[w].qty /\ j.sale = job[w].sale
  BY <1>2, PatchPartly
<1> HIDE DEF i, j
<1>5. Lots' /\ RecordStays
  BY <1>2, <1>3, LotsNote, Named DEF venue
<1>6. Sound(w, l, j)
  BY <1>1, <1>2, <1>4 DEF Sound, CoverPc, StopPc, SalePc, PlainPc, PassPc, DecidePc
<1>7. l \in ExitPc \ {"located", "absorb", "applied"}
  BY DEF ExitPc
<1> HIDE DEF l
<1> QED BY <1>1, <1>2, <1>3, <1>4, <1>5, <1>6, <1>7, TakesOn

(* Back from the stop or the emergency close.                               *)
LEMMA ReturnKeeps ==
  ASSUME ExitInv, NEW p \in Proc, Return(p)
  PROVE  ExitInv'
<1>1. pc[p] = "return" /\ job[p] \in Job /\ Sound(p, pc[p], job[p]) /\ listed \in 0..Qty
  BY JobTyped DEF Return
<1>2. UNCHANGED <<scene, row, rowQty, rowStop, incident, asked, noted, applied, past, venue, listed, crashes>>
  BY DEF Return
<1>3. CASE p = Rec
  <2> DEFINE j == Back(job[p])
  <2>1. Take(p, "excess", j) /\ UNCHANGED <<card, st, pass>>
    BY <1>3 DEF Return, Back
  <2>2. j \in Job /\ j.then = "none"
    BY <1>1, PatchBack
  <2> HIDE DEF j
  <2>3. Lots' /\ RecordStays
    BY <1>2, <2>1, LotsSame DEF venue, intents
  <2>4. Sound(p, "excess", j)
    BY <1>1, <1>3, <2>2 DEF Sound, CoverPc, StopPc, SalePc, PlainPc, PassPc, DecidePc
  <2>5. "excess" \in ExitPc \ {"located", "absorb", "applied"}
    BY DEF ExitPc
  <2> QED BY <1>1, <1>2, <2>1, <2>2, <2>3, <2>4, <2>5, TakesOn DEF desk
<1>4. CASE p # Rec
  <2> DEFINE i == job[p].sale
             s == IF job[p].then = "partial" THEN SafeTransition(st[i], Canceled) ELSE st[i]
  <2>1. SetStatus(i, s) /\ SetCard(job[p].card, "awaiting") /\ Leave(p)
    BY <1>4 DEF Return
  <2>2. i \in Slot => s \in IntentStatus \union {"none"} /\ (s = Created => st[i] = Created)
    BY StatusMoves, Named
  <2> HIDE DEF i, s
  <2>3. Lots' /\ RecordStays
    BY <1>2, <2>1, <2>2, LotsStatus DEF venue, ExitInv, Lots, LotsTyped
  <2> QED BY <1>2, <2>1, <2>3, LeavesWithCard
<1> QED BY <1>3, <1>4

-----------------------------------------------------------------------------
(* The stop and the emergency close keep it.                                 *)

(* The stop in hand is one, and what is to cover is something.               *)
LEMMA StopKnown ==
  ASSUME ExitInv, NEW p \in Proc, pc[p] \in CoverPc
  PROVE  /\ job[p].then # "none" /\ job[p].qty > 0 /\ job[p].qty \in 0..Qty
         /\ pc[p] \in StopPc \union {"resize"} => job[p].stop \in StopSlot /\ job[p].stop \in Slot
BY JobTyped DEF Sound, Slot

(* Every place of the stop routine suits the locals of every other.          *)
LEMMA SoundCover ==
  ASSUME ExitInv, NEW p \in Proc, pc[p] \in CoverPc, NEW j \in Job,
         j.then = job[p].then, j.qty = job[p].qty, j.sale = job[p].sale
  PROVE  /\ Sound(p, "return", j) /\ Sound(p, "verifystop", j) /\ Sound(p, "stop", j)
         /\ Sound(p, "restop", j) /\ Sound(p, "flat", j)
         /\ j.stop \in StopSlot => \A l \in StopPc : Sound(p, l, j)
         /\ j.flat \in FlatSlot => Sound(p, "locating", j) /\ Sound(p, "freeing", j)
         /\ {"return", "verifystop", "stop", "restop", "flat", "locating", "freeing"} \union StopPc
              \subseteq ExitPc \ {"located", "absorb", "applied"}
<1>1. Sound(p, pc[p], job[p])
  BY JobTyped
<1>2. {"return", "verifystop", "stop", "restop", "flat", "locating", "freeing"} \union StopPc
              \subseteq ExitPc \ {"located", "absorb", "applied"}
  BY DEF ExitPc, StopPc
<1>3. ~manual /\ j.then # "none" /\ j.qty > 0 /\ (p # Rec => j.sale \in ExitSlot \union {NoSlot})
  BY <1>1 DEF Sound
<1>4. /\ Sound(p, "return", j) /\ Sound(p, "verifystop", j) /\ Sound(p, "stop", j)
      /\ Sound(p, "restop", j) /\ Sound(p, "flat", j)
  BY <1>3 DEF Sound, CoverPc, StopPc, SalePc, PlainPc, PassPc, DecidePc
<1>5. j.stop \in StopSlot => \A l \in StopPc : Sound(p, l, j)
  BY <1>3 DEF Sound, CoverPc, StopPc, SalePc, PlainPc, PassPc, DecidePc
<1>6. j.flat \in FlatSlot => Sound(p, "locating", j) /\ Sound(p, "freeing", j)
  BY <1>3 DEF Sound, CoverPc, StopPc, SalePc, PlainPc, PassPc, DecidePc
<1> QED BY <1>2, <1>4, <1>5, <1>6

(* The stop to resize is canceled and retired.                              *)
LEMMA FreeStopKeeps ==
  ASSUME ExitInv, FreeStop
  PROVE  ExitInv'
<1> DEFINE s == job[Rec].stop
<1>1. Rec \in Proc /\ pc[Rec] \in CoverPc /\ job[Rec] \in Job
  BY JobTyped DEF FreeStop, Proc, CoverPc
<1>2. s \in Slot
  BY <1>1, StopKnown DEF FreeStop
<1>3. SafeTransition(st[s], Canceled) \in IntentStatus \union {"none"}
        /\ (SafeTransition(st[s], Canceled) = Created => st[s] = Created)
  BY <1>2, StatusMoves, Named
<1>4. /\ Freed({s} \union {i \in StopSlot : Resting(i)}) /\ SetStatus(s, SafeTransition(st[s], Canceled))
      /\ Goto(Rec, "verifystop")
      /\ UNCHANGED <<scene, desk, asked, noted, applied, past, sold, wire, held, listed, job, pass, crashes>>
  BY DEF FreeStop
<1>5. st' \in [Slot -> IntentStatus \union {"none"}] /\ \A k \in Slot : st'[k] = Created => st[k] = Created
  BY <1>3, <1>4 DEF SetStatus, ExitInv, Lots, LotsTyped
<1>6. Lots' /\ RecordStays
  BY <1>4, <1>5, LotsFreed
<1>7. Sound(Rec, "verifystop", job[Rec]) /\ "verifystop" \in ExitPc \ {"located", "absorb", "applied"}
  BY <1>1, SoundCover
<1> QED BY <1>1, <1>4, <1>6, <1>7, GoesOn

(* A stop that filled meanwhile is left to the next pass.                   *)
LEMMA StopFilledKeeps ==
  ASSUME ExitInv, StopFilledMeanwhile
  PROVE  ExitInv'
<1> DEFINE b == job[Rec]
           j == Halfback(b)
<1>1. Rec \in Proc /\ b \in Job /\ listed \in 0..Qty /\ ~manual
  BY JobTyped DEF Proc, StopFilledMeanwhile, Sound
<1>2. /\ Take(Rec, "excess", j) /\ UNCHANGED <<scene, desk, intents, venue, listed, pass, crashes>>
  BY DEF StopFilledMeanwhile, Halfback
<1>3. j \in Job /\ j.then = "none"
  BY <1>1, PatchHalfback
<1> HIDE DEF b, j
<1>4. Lots' /\ RecordStays
  BY <1>2, LotsSame DEF venue
<1>5. Sound(Rec, "excess", j)
  BY <1>1, <1>3 DEF Sound, CoverPc, StopPc, SalePc, PlainPc, PassPc, DecidePc
<1>6. "excess" \in ExitPc \ {"located", "absorb", "applied"}
  BY DEF ExitPc
<1> QED BY <1>1, <1>2, <1>3, <1>4, <1>5, <1>6, TakesOn

(* The shares to protect are verified.                                      *)
LEMMA VerifyStopKeeps ==
  ASSUME ExitInv, NEW p \in Proc, VerifyStop(p)
  PROVE  ExitInv'
<1>1. PICK q \in 1..Qty : Reads(q)
  BY DEF VerifyStop
<1>2. listed' \in 0..Qty
  BY <1>1, ListedTyped
<1>3. Lots' /\ RecordStays
  BY LotsSame DEF VerifyStop, venue
<1>4. Sound(p, "stop", job[p]) /\ "stop" \in ExitPc \ {"located", "absorb", "applied"}
  BY JobTyped, SoundCover DEF VerifyStop, CoverPc
<1>5. Seats' /\ Take(p, "stop", job[p])
  BY <1>3, <1>4, Goes DEF VerifyStop, pass
<1>6. Shop'
  BY <1>5, ShopSame DEF VerifyStop
<1>7. PassTyped'
  BY <1>2, PassSame DEF VerifyStop, pass
<1> QED BY <1>3, <1>5, <1>6, <1>7 DEF ExitInv

(* An exception leaves the stop routine.                                    *)
LEMMA StopRaisesKeeps ==
  ASSUME ExitInv, NEW p \in Proc, StopRaises(p)
  PROVE  ExitInv'
<1>1. Lots' /\ RecordStays
  BY LotsSame DEF StopRaises, venue
<1> QED BY <1>1, LeavesOrReturns DEF StopRaises

(* An unresolved stop is taken up again.                                    *)
LEMMA ResumeStopKeeps ==
  ASSUME ExitInv, NEW p \in Proc, ResumeStop(p)
  PROVE  ExitInv'
<1> DEFINE l == IF pc[p] = "stop" THEN "stopcheck" ELSE "stopsend"
           b == job[p]
<1>1. PICK i \in StopSlot : Take(p, l, [job[p] EXCEPT !.stop = i])
  BY DEF ResumeStop
<1> DEFINE j == Holding(b, i)
<1>2. Take(p, l, j)
  BY <1>1 DEF Holding
<1>3. b \in Job /\ pc[p] \in CoverPc /\ l \in StopPc /\ listed \in 0..Qty
  BY JobTyped DEF ResumeStop, CoverPc, StopPc
<1>4. j \in Job /\ j.then = b.then /\ j.qty = b.qty /\ j.sale = b.sale /\ j.stop \in StopSlot
  BY <1>3, PatchHolding
<1> HIDE DEF j, l
<1>5. Sound(p, l, j) /\ l \in ExitPc \ {"located", "absorb", "applied"}
  BY <1>3, <1>4, SoundCover
<1>6. UNCHANGED <<scene, desk, intents, venue, listed, pass, crashes>>
  BY DEF ResumeStop
<1>7. Lots' /\ RecordStays
  BY <1>6, LotsSame DEF venue
<1> QED BY <1>2, <1>3, <1>4, <1>5, <1>6, <1>7, TakesOn

(* A new stop takes a vacant slot.                                          *)
LEMMA CreateStopKeeps ==
  ASSUME ExitInv, NEW p \in Proc, CreateStop(p)
  PROVE  ExitInv'
<1> DEFINE b == job[p]
           i == Fresh(StopSlot)
           j == Holding(b, i)
<1>1. b \in Job /\ pc[p] \in CoverPc /\ listed \in 0..Qty /\ StopSlot \subseteq Slot
  BY JobTyped DEF CreateStop, CoverPc, Slot
<1>2. b.qty \in 0..Qty /\ b.qty > 0
  BY <1>1, StopKnown
<1>3. /\ CreateIntent(i, b.qty) /\ Take(p, "stopsend", j) /\ \E k \in StopSlot : Vacant(k)
      /\ UNCHANGED <<scene, desk, wire, held, listed, pass, crashes>>
  BY DEF CreateStop, Holding
<1>4. Lots' /\ RecordStays /\ i \in StopSlot
  BY <1>1, <1>2, <1>3, LotsCreate
<1> HIDE DEF i
<1>5. j \in Job /\ j.then = b.then /\ j.qty = b.qty /\ j.sale = b.sale /\ j.stop \in StopSlot
  BY <1>1, <1>4, PatchHolding
<1> HIDE DEF j
<1>6. Sound(p, "stopsend", j) /\ "stopsend" \in ExitPc \ {"located", "absorb", "applied"}
  BY <1>1, <1>5, SoundCover DEF StopPc
<1> QED BY <1>1, <1>3, <1>4, <1>5, <1>6, TakesOn

(* The row points at the stop, and the coroutine returns.                    *)
LEMMA CoversAndReturns ==
  ASSUME ExitInv, NEW p \in Proc, Lots', RecordStays, NEW s \in StopSlot, Covered(p, s), job[p].then # "none",
         UNCHANGED <<scene, card, row, rowQty, incident, listed, job, pass, crashes>>
  PROVE  ExitInv'
<1>1. Sound(p, "return", job[p]) /\ "return" \in ExitPc \ {"located", "absorb"}
  BY SoundReturn
<1>2. Seats' /\ Take(p, "return", job[p])
  BY <1>1, Goes DEF Covered, pass
<1>3. DeskTyped' /\ row' = row /\ card' = card
  BY DEF ExitInv, Shop, DeskTyped, Covered
<1>4. Shop'
  BY <1>2, <1>3, ShopMoved
<1>5. PassTyped'
  BY PassSame DEF pass, ExitInv, PassTyped
<1> QED BY <1>2, <1>4, <1>5 DEF ExitInv

(* A stop that rests is adopted.                                            *)
LEMMA AdoptStopKeeps ==
  ASSUME ExitInv, NEW p \in Proc, AdoptStop(p)
  PROVE  ExitInv'
<1> DEFINE s == job[p].stop
           t == IF st[s] \in {Submitting, Unknown} THEN Submitted ELSE st[s]
<1>1. pc[p] \in StopPc /\ pc[p] \in CoverPc
  BY DEF AdoptStop, CoverPc, StopPc
<1>2. s \in StopSlot /\ s \in Slot /\ job[p].then # "none"
  BY <1>1, StopKnown
<1>3. t \in IntentStatus \union {"none"} /\ (t = Created => st[s] = Created)
  BY <1>2, Named DEF ExitInv, Lots, LotsTyped
<1>4. /\ SetStatus(s, t) /\ Covered(p, s)
      /\ UNCHANGED <<scene, card, row, rowQty, incident, asked, noted, applied, past, venue, listed, job, pass, crashes>>
  BY DEF AdoptStop
<1> HIDE DEF t, s
<1>5. Lots' /\ RecordStays
  BY <1>2, <1>3, <1>4, LotsStatus DEF venue, ExitInv, Lots, LotsTyped
<1> QED BY <1>2, <1>4, <1>5, CoversAndReturns

(* A dead stop is retired.                                                  *)
LEMMA RetireStopKeeps ==
  ASSUME ExitInv, NEW p \in Proc, RetireStop(p)
  PROVE  ExitInv'
<1> DEFINE s == job[p].stop
           b == job[p]
           j == Holding(b, NoSlot)
<1>1. pc[p] \in StopPc /\ pc[p] \in CoverPc /\ listed \in 0..Qty /\ b \in Job
  BY JobTyped DEF RetireStop, CoverPc, StopPc
<1>2. s \in Slot
  BY <1>1, StopKnown
<1>3. SafeTransition(st[s], Canceled) \in IntentStatus \union {"none"}
        /\ (SafeTransition(st[s], Canceled) = Created => st[s] = Created)
  BY <1>2, StatusMoves, Named
<1>4. /\ SetStatus(s, SafeTransition(st[s], Canceled))
      /\ UNCHANGED <<scene, desk, asked, noted, applied, past, venue, listed, crashes>>
      /\ (Take(p, "restop", j) /\ UNCHANGED pass) \/ Leave(p)
  BY DEF RetireStop, Holding
<1>5. j \in Job /\ j.then = b.then /\ j.qty = b.qty /\ j.sale = b.sale
  BY <1>1, PatchHolding
<1> HIDE DEF s, j
<1>6. Lots' /\ RecordStays
  BY <1>2, <1>3, <1>4, LotsStatus DEF venue, ExitInv, Lots, LotsTyped
<1>7. CASE Leave(p)
  BY <1>4, <1>6, <1>7, LeavesOrReturns
<1>8. CASE Take(p, "restop", j) /\ UNCHANGED pass
  <2>1. Sound(p, "restop", j) /\ "restop" \in ExitPc \ {"located", "absorb", "applied"}
    BY <1>1, <1>5, SoundCover
  <2> QED BY <1>1, <1>4, <1>5, <1>6, <1>8, <2>1, TakesOn
<1> QED BY <1>4, <1>7, <1>8

(* A created stop is transmitted.                                           *)
LEMMA SendStopKeeps ==
  ASSUME ExitInv, NEW p \in Proc, SendStop(p)
  PROVE  ExitInv'
<1> DEFINE s == job[p].stop
<1>1. pc[p] \in StopPc /\ pc[p] \in CoverPc /\ job[p] \in Job
  BY JobTyped DEF SendStop, CoverPc, StopPc
<1>2. s \in Slot /\ job[p].stop \in StopSlot
  BY <1>1, StopKnown
<1>3. /\ \/ st[s] = Created /\ SetStatus(s, Submitting) /\ wire' = wire \union {s} /\ Goto(p, "stopreply")
         \/ Goto(p, "stoprace") /\ UNCHANGED <<st, wire>>
      /\ UNCHANGED <<scene, desk, asked, noted, applied, past, ord, sold, held, listed, job, pass, crashes>>
  BY DEF SendStop
<1> HIDE DEF s
<1>4. Lots' /\ RecordStays
  BY <1>2, <1>3, LotsSend, LotsSame DEF intents
<1>5. \A l \in StopPc : Sound(p, l, job[p]) /\ l \in ExitPc \ {"located", "absorb", "applied"}
  BY <1>1, <1>2, SoundCover
<1>6. \E l \in StopPc : Goto(p, l)
  BY <1>3 DEF StopPc
<1> QED BY <1>3, <1>4, <1>5, <1>6, GoesOn

(* The answer to a stop is recorded.                                        *)
LEMMA StopAcceptedKeeps ==
  ASSUME ExitInv, NEW p \in Proc, StopAccepted(p)
  PROVE  ExitInv'
<1> DEFINE s == job[p].stop
<1>1. pc[p] \in StopPc /\ pc[p] \in CoverPc
  BY DEF StopAccepted, CoverPc, StopPc
<1>2. s \in StopSlot /\ s \in Slot /\ job[p].then # "none"
  BY <1>1, StopKnown
<1>3. UNCHANGED <<scene, card, row, rowQty, incident, asked, noted, applied, past, venue, listed, crashes>>
  BY DEF StopAccepted
<1>4. \/ SetStatus(s, Submitted) /\ Covered(p, s) /\ UNCHANGED <<job, pass>>
      \/ Leave(p) /\ UNCHANGED <<st, rowStop>>
  BY DEF StopAccepted
<1> HIDE DEF s
<1>5. CASE SetStatus(s, Submitted) /\ Covered(p, s) /\ UNCHANGED <<job, pass>>
  <2>1. Lots' /\ RecordStays
    BY <1>2, <1>3, <1>5, LotsStatus, Named DEF venue, ExitInv, Lots, LotsTyped
  <2> QED BY <1>2, <1>3, <1>5, <2>1, CoversAndReturns
<1>6. CASE Leave(p) /\ UNCHANGED <<st, rowStop>>
  <2>1. Lots' /\ RecordStays
    BY <1>3, <1>6, LotsSame DEF venue, intents
  <2> QED BY <1>3, <1>6, <2>1, LeavesOrReturns DEF desk
<1> QED BY <1>4, <1>5, <1>6

(* A stop refused by the venue leads to the emergency close.                *)
LEMMA StopRefusedKeeps ==
  ASSUME ExitInv, NEW p \in Proc, StopRefused(p)
  PROVE  ExitInv'
<1> DEFINE s == job[p].stop
           b == job[p]
           j == Holding(b, NoSlot)
<1>1. pc[p] \in StopPc /\ pc[p] \in CoverPc /\ listed \in 0..Qty /\ b \in Job
  BY JobTyped DEF StopRefused, CoverPc, StopPc
<1>2. s \in Slot
  BY <1>1, StopKnown
<1>3. /\ SetStatus(s, Rejected) /\ Take(p, "flat", j)
      /\ UNCHANGED <<scene, desk, asked, noted, applied, past, venue, listed, pass, crashes>>
  BY DEF StopRefused, Holding
<1>4. j \in Job /\ j.then = b.then /\ j.qty = b.qty /\ j.sale = b.sale
  BY <1>1, PatchHolding
<1> HIDE DEF s, j
<1>5. Lots' /\ RecordStays
  BY <1>2, <1>3, LotsStatus, Named DEF venue, ExitInv, Lots, LotsTyped
<1>6. Sound(p, "flat", j) /\ "flat" \in ExitPc \ {"located", "absorb", "applied"}
  BY <1>1, <1>4, SoundCover
<1> QED BY <1>1, <1>3, <1>4, <1>5, <1>6, TakesOn

(* A stop without an answer is looked for.                                  *)
LEMMA StopUnknownKeeps ==
  ASSUME ExitInv, NEW p \in Proc, StopUnknown(p)
  PROVE  ExitInv'
<1> DEFINE s == job[p].stop
<1>1. pc[p] \in StopPc /\ pc[p] \in CoverPc /\ job[p] \in Job
  BY JobTyped DEF StopUnknown, CoverPc, StopPc
<1>2. s \in Slot /\ job[p].stop \in StopSlot
  BY <1>1, StopKnown
<1>3. MarkUnknown(st[s]) \in IntentStatus \union {"none"} /\ (MarkUnknown(st[s]) = Created => st[s] = Created)
  BY <1>2, StatusMoves, Named
<1>4. /\ SetStatus(s, MarkUnknown(st[s])) /\ Goto(p, "stopfind")
      /\ UNCHANGED <<scene, desk, asked, noted, applied, past, venue, listed, job, pass, crashes>>
  BY DEF StopUnknown
<1> HIDE DEF s
<1>5. Lots' /\ RecordStays
  BY <1>2, <1>3, <1>4, LotsStatus DEF venue, ExitInv, Lots, LotsTyped
<1>6. Sound(p, "stopfind", job[p]) /\ "stopfind" \in ExitPc \ {"located", "absorb", "applied"}
  BY <1>1, <1>2, SoundCover DEF StopPc
<1> QED BY <1>4, <1>5, <1>6, GoesOn

(* One that is not found leads to the emergency close.                      *)
LEMMA StopNotFoundKeeps ==
  ASSUME ExitInv, NEW p \in Proc, StopNotFound(p)
  PROVE  ExitInv'
<1> DEFINE b == job[p]
           j == Holding(b, NoSlot)
<1>1. pc[p] \in CoverPc /\ listed \in 0..Qty /\ b \in Job
  BY JobTyped DEF StopNotFound, CoverPc, StopPc
<1>2. /\ Take(p, "flat", j)
      /\ UNCHANGED <<scene, desk, intents, venue, listed, pass, crashes>>
  BY DEF StopNotFound, Holding
<1>3. j \in Job /\ j.then = b.then /\ j.qty = b.qty /\ j.sale = b.sale
  BY <1>1, PatchHolding
<1> HIDE DEF j
<1>4. Lots' /\ RecordStays
  BY <1>2, LotsSame DEF venue
<1>5. Sound(p, "flat", j) /\ "flat" \in ExitPc \ {"located", "absorb", "applied"}
  BY <1>1, <1>3, SoundCover
<1> QED BY <1>1, <1>2, <1>3, <1>4, <1>5, TakesOn

(* An unresolved emergency close is taken up again.                         *)
LEMMA ResumeFlatKeeps ==
  ASSUME ExitInv, NEW p \in Proc, ResumeFlat(p)
  PROVE  ExitInv'
<1> DEFINE b == job[p]
<1>1. PICK i \in FlatSlot : Take(p, "locating", [job[p] EXCEPT !.flat = i, !.copy = applied[i]])
  BY DEF ResumeFlat
<1> DEFINE n == applied[i]
           j == Flattening(b, i, n)
<1>2. Take(p, "locating", j)
  BY <1>1 DEF Flattening
<1>3. b \in Job /\ pc[p] \in CoverPc /\ listed \in 0..Qty /\ n \in 0..Qty
  BY JobTyped DEF ResumeFlat, CoverPc, ExitInv, Lots, LotsTyped, Slot
<1> HIDE DEF n
<1>4. j \in Job /\ j.then = b.then /\ j.qty = b.qty /\ j.sale = b.sale /\ j.flat \in FlatSlot
  BY <1>3, PatchFlattening
<1> HIDE DEF j
<1>5. Sound(p, "locating", j) /\ "locating" \in ExitPc \ {"located", "absorb", "applied"}
  BY <1>3, <1>4, SoundCover
<1>6. UNCHANGED <<scene, desk, intents, venue, listed, pass, crashes>>
  BY DEF ResumeFlat
<1>7. Lots' /\ RecordStays
  BY <1>6, LotsSame DEF venue
<1> QED BY <1>2, <1>3, <1>4, <1>5, <1>6, <1>7, TakesOn

(* A new one takes a vacant slot.                                           *)
LEMMA CreateFlatKeeps ==
  ASSUME ExitInv, NEW p \in Proc, CreateFlat(p)
  PROVE  ExitInv'
<1> DEFINE b == job[p]
           i == Fresh(FlatSlot)
           j == Flattening(b, i, 0)
<1>1. b \in Job /\ pc[p] \in CoverPc /\ listed \in 0..Qty /\ FlatSlot \subseteq Slot /\ 0 \in 0..Qty
  BY JobTyped, QtyAssumption DEF CreateFlat, CoverPc, Slot
<1>2. b.qty \in 0..Qty /\ b.qty > 0
  BY <1>1, StopKnown
<1>3. /\ CreateIntent(i, b.qty) /\ Take(p, "freeing", j) /\ \E k \in FlatSlot : Vacant(k)
      /\ UNCHANGED <<scene, desk, wire, held, listed, pass, crashes>>
  BY DEF CreateFlat, Flattening
<1>4. Lots' /\ RecordStays /\ i \in FlatSlot
  BY <1>1, <1>2, <1>3, LotsCreate
<1> HIDE DEF i
<1>5. j \in Job /\ j.then = b.then /\ j.qty = b.qty /\ j.sale = b.sale /\ j.flat \in FlatSlot
  BY <1>1, <1>4, PatchFlattening
<1> HIDE DEF j
<1>6. Sound(p, "freeing", j) /\ "freeing" \in ExitPc \ {"located", "absorb", "applied"}
  BY <1>1, <1>5, SoundCover
<1> QED BY <1>1, <1>3, <1>4, <1>5, <1>6, TakesOn

-----------------------------------------------------------------------------
(* The pass keeps it.                                                        *)

(* The pass moves to a place where no record matters.                        *)
LEMMA PassMoves ==
  ASSUME ExitInv, Lots', RecordStays, NEW l \in {"idle", "intents", "book", "orders", "sizing", "excess"},
         NEW j \in Job, j.then = "none", Take(Rec, l, j), scene'.manual = scene.manual,
         l \in {"orders", "sizing", "excess"} => ~manual
  PROVE  Seats' /\ Rec \in Proc /\ l # "applied"
<1>1. Rec \in Proc /\ l \in ExitPc \ {"located", "absorb"}
  BY DEF Proc, ExitPc
<1>2. Sound(Rec, l, j)
  BY DEF Sound, CoverPc, StopPc, SalePc, PlainPc, PassPc, DecidePc
<1> QED BY <1>1, <1>2, Moved

(* What a listing says stays typed when one intent has been dealt with.      *)
LEMMA HandledTyped ==
  ASSUME ExitInv, NEW i, Handled(i), UNCHANGED <<scene, crashes, rest, listed>>
  PROVE  PassTyped'
BY DEF ExitInv, PassTyped, Handled

(* The pass lists the unresolved intents.                                   *)
LEMMA StartPassKeeps ==
  ASSUME ExitInv, StartPass
  PROVE  ExitInv'
<1>1. scene \in Scene /\ scene' = [scene EXCEPT !.passing = IF @ = "once" THEN "done" ELSE @]
  BY DEF StartPass, ExitInv, PassTyped
<1>2. scene' \in Scene /\ scene'.manual = scene.manual /\ scene'.crashes = scene.crashes
  <2> DEFINE t == IF scene.passing = "once" THEN "done" ELSE scene.passing
  <2>1. t \in Passing
    BY <1>1 DEF Scene, Passing
  <2>2. scene' = [scene EXCEPT !.passing = t]
    BY <1>1
  <2> HIDE DEF t
  <2> QED BY <1>1, <2>1, <2>2 DEF Scene
<1>3. Lots' /\ RecordStays
  BY LotsSame DEF StartPass, venue
<1>4. pc[Rec] = "idle" /\ Goto(Rec, "intents") /\ job' = job /\ job \in [Proc -> Job] /\ Rec \in Proc
  BY DEF StartPass, ExitInv, Seats, SeatsTyped, Proc
<1>5. Take(Rec, "intents", job[Rec]) /\ job[Rec] \in Job /\ job[Rec].then = "none"
  BY <1>4, JobTyped DEF Take, Sound, PlainPc
<1>6. Seats'
  BY <1>2, <1>3, <1>5, PassMoves
<1>7. Shop'
  BY <1>4, <1>5, ShopSame DEF StartPass
<1>8. snap' \in [Slot -> Unresolved \union {"none"}]
  BY DEF StartPass
<1>9. PassTyped'
  BY <1>2, <1>8 DEF StartPass, ExitInv, PassTyped
<1> QED BY <1>3, <1>6, <1>7, <1>9 DEF ExitInv

(* It retires what was never sent.                                          *)
LEMMA RetireUnsentKeeps ==
  ASSUME ExitInv, NEW i \in Slot, RetireUnsent(i)
  PROVE  ExitInv'
<1>1. TransitionFrom(st[i], Created, Rejected) \in IntentStatus \union {"none"}
        /\ (TransitionFrom(st[i], Created, Rejected) = Created => st[i] = Created)
  BY StatusMoves, Named
<1>2. /\ SetStatus(i, TransitionFrom(st[i], Created, Rejected)) /\ Handled(i) /\ pc[Rec] = "intents"
      /\ UNCHANGED <<scene, desk, asked, noted, applied, past, venue, listed, task, rest, crashes>>
  BY DEF RetireUnsent
<1>3. Lots' /\ RecordStays
  BY <1>1, <1>2, LotsStatus DEF venue, ExitInv, Lots, LotsTyped
<1>4. job \in [Proc -> Job] /\ pc \in [Proc -> ExitPc] /\ Rec \in Proc
  BY DEF ExitInv, Seats, SeatsTyped, Proc
<1>5. Take(Rec, "intents", job[Rec]) /\ job[Rec] \in Job /\ job[Rec].then = "none"
  BY <1>2, <1>4, JobTyped DEF Take, Goto, Sound, PlainPc, PassPc, task
<1>6. Seats'
  BY <1>2, <1>3, <1>5, PassMoves
<1>7. Shop'
  BY <1>2, <1>4, <1>5, ShopSame
<1> QED BY <1>2, <1>3, <1>6, <1>7, HandledTyped DEF ExitInv

(* It asks the venue for an order; what it reads stays true.                *)
LEMMA LocateIntentKeeps ==
  ASSUME ExitInv, NEW i \in Slot, LocateIntent(i)
  PROVE  ExitInv'
<1> DEFINE b == job[Rec]
<1>1. PICK f \in {NoOrder} \union (IF Known(i) THEN {[st |-> ord[i], qty |-> sold[i]]} ELSE {}) :
         Take(Rec, "located", [job[Rec] EXCEPT !.sale = i, !.rec = f])
  BY DEF LocateIntent
<1> DEFINE j == Reading(b, i, f)
<1>2. /\ pc[Rec] = "intents" /\ snap[i] # "none" /\ Take(Rec, "located", j)
      /\ UNCHANGED <<scene, desk, intents, venue, listed, pass, crashes>>
  BY <1>1 DEF LocateIntent, Reading
<1>3. ord[i] \in OrderState /\ sold[i] \in 0..Qty /\ "none" \notin VenueDone /\ "none" \in OrderState /\ 0 \in 0..Qty
  BY QtyAssumption DEF ExitInv, Lots, LotsTyped, OrderState, VenueDone
<1>4. /\ f \in [st : OrderState, qty : 0..Qty] /\ f.qty <= sold[i] /\ (f.st \in VenueDone => ord[i] = f.st)
      /\ f = NoOrder \/ f.st \in VenueStatus
  BY <1>1, <1>3 DEF NoOrder, Known, OrderState
<1>5. Rec \in Proc /\ b \in Job /\ Sound(Rec, "intents", b) /\ listed \in 0..Qty
  BY <1>2, JobTyped DEF Proc
<1>6. j \in Job /\ j.sale = i /\ j.then = b.then /\ j.rec = f
  BY <1>4, <1>5, PatchReading
<1> HIDE DEF b, j
<1>7. Lots' /\ RecordStays
  BY <1>2, LotsSame DEF venue
<1>8. Sound(Rec, "located", j) /\ "located" \in ExitPc
  BY <1>5, <1>6 DEF Sound, CoverPc, StopPc, SalePc, PlainPc, PassPc, DecidePc, ExitPc
<1>9. pc \in [Proc -> ExitPc] /\ job \in [Proc -> Job]
  BY DEF ExitInv, Seats, SeatsTyped
<1>10. pc' = [pc EXCEPT ![Rec] = "located"] /\ job' = [job EXCEPT ![Rec] = j]
  BY <1>2 DEF Take, Goto
<1>11. SeatsTyped'
  <2>1. pc' \in [Proc -> ExitPc]
    BY <1>8, <1>9, <1>10
  <2>2. job' \in [Proc -> Job]
    BY <1>6, <1>9, <1>10
  <2> QED BY <2>1, <2>2 DEF SeatsTyped, Job
<1>12. AllSound'
  <2>1. ASSUME NEW q \in Proc PROVE Sound(q, pc'[q], job'[q])
    <3>1. CASE q = Rec
      BY <1>8, <1>9, <1>10, <3>1
    <3>2. CASE q # Rec
      BY <1>9, <1>10, <3>2 DEF ExitInv, Seats, AllSound
    <3> QED BY <3>1, <3>2
  <2> QED BY <1>2, <2>1 DEF AllSound, Sound, manual
<1>13. RecordTrue'
  <2>1. job'[Rec] = j /\ sold' = sold /\ ord' = ord /\ snap' = snap /\ pc'[Rec] = "located"
    BY <1>2, <1>5, <1>9, <1>10 DEF venue, pass
  <2> QED BY <1>2, <1>4, <1>6, <2>1 DEF RecordTrue
<1>14. Shop'
  BY <1>2, <1>5, ShopSame
<1>15. PassTyped'
  BY <1>2, <1>5, PassSame DEF pass
<1> QED BY <1>7, <1>11, <1>12, <1>13, <1>14, <1>15 DEF ExitInv, Seats

(* The pass has dealt with an intent, and the desk is as it was.             *)
LEMMA NextIntentKeeps ==
  ASSUME ExitInv, Lots', RecordStays, NextIntent, NEW i, Handled(i), UNCHANGED <<scene, crashes, rest, listed>>,
         DeskTyped', row' \in {row, "closed"},
         \A c \in Card : card'[c] = "sold" => card[c] = "sold" \/ row' = "closed"
  PROVE  ExitInv'
<1>1. NoJob \in Job /\ NoJob.then = "none"
  BY NoJobIsJob
<1>2. Take(Rec, "intents", NoJob)
  BY DEF NextIntent
<1>3. Seats' /\ Rec \in Proc
  BY <1>1, <1>2, PassMoves
<1>4. Shop'
  BY <1>2, <1>3, ShopMoved
<1> QED BY <1>3, <1>4, HandledTyped DEF ExitInv

(* The intent located is one, and its record is true.                        *)
LEMMA IntentKnown ==
  ASSUME ExitInv, pc[Rec] \in {"located", "absorb"}
  PROVE  LET i == job[Rec].sale
             f == job[Rec].rec
         IN  /\ i \in Slot /\ f.qty \in 0..Qty /\ f.qty <= sold[i] /\ applied[i] \in 0..Qty
             /\ f.st \in VenueDone => ord[i] = f.st
             /\ f = NoOrder \/ f.st \in VenueStatus
             /\ pc[Rec] = "absorb" => f # NoOrder
             /\ pc[Rec] = "located" => snap[i] # "none"
             /\ st[i] \in IntentStatus \union {"none"}
BY JobTyped DEF Proc, Sound, ExitInv, Seats, RecordTrue, Lots, LotsTyped

(* An order without a trace makes its intent unknown.                       *)
LEMMA IntentUnknownKeeps ==
  ASSUME ExitInv, IntentUnknown
  PROVE  ExitInv'
<1> DEFINE i == job[Rec].sale
           s == TransitionFrom(st[i], snap[i], Unknown)
<1>1. /\ SetStatus(i, s) /\ NextIntent /\ Handled(i)
      /\ UNCHANGED <<scene, desk, asked, noted, applied, past, venue, listed, rest, crashes>>
  BY DEF IntentUnknown
<1>2. s \in IntentStatus \union {"none"} /\ (s = Created => st[i] = Created)
  <2>1. i \in Slot
    BY IntentKnown DEF IntentUnknown
  <2>2. Unknown \in IntentStatus \ {Created}
    BY Named
  <2> DEFINE u == snap[i]
  <2> HIDE DEF i, u
  <2>3. st[i] \in IntentStatus \union {"none"} /\ TransitionFrom(st[i], u, Unknown) \in {st[i], Unknown}
    BY <2>1, <2>2, StatusMoves
  <2> QED BY <2>2, <2>3 DEF u
<1> HIDE DEF i, s
<1>3. Lots' /\ RecordStays
  BY <1>1, <1>2, LotsStatus DEF venue, ExitInv, Lots, LotsTyped
<1>4. DeskTyped' /\ row' = row /\ card' = card
  BY <1>1 DEF ExitInv, Shop, DeskTyped, desk
<1> QED BY <1>1, <1>3, <1>4, NextIntentKeeps

(* An intent settled meanwhile is passed over.                              *)
LEMMA SettledMeanwhileKeeps ==
  ASSUME ExitInv, IntentSettledMeanwhile
  PROVE  ExitInv'
<1>1. /\ NextIntent /\ Handled(job[Rec].sale)
      /\ UNCHANGED <<scene, desk, intents, venue, listed, rest, crashes>>
  BY DEF IntentSettledMeanwhile
<1>2. Lots' /\ RecordStays
  BY <1>1, LotsSame DEF venue
<1>3. DeskTyped' /\ row' = row /\ card' = card
  BY <1>1 DEF ExitInv, Shop, DeskTyped, desk
<1> QED BY <1>1, <1>2, <1>3, NextIntentKeeps

(* The cards released: what is marked sold is closed.                        *)
LEMMA Finishing ==
  ASSUME ExitInv, NEW i \in Slot, NEW f, NEW s \in IntentStatus \union {"none"}, NEW n,
         FinishCards(i, f, s, n, row' = "closed")
  PROVE  /\ \E t \in {s, Canceled} : SetStatus(i, t)
         /\ card' \in [Card -> CardStatus]
         /\ \A c \in Card : card'[c] = "sold" => card[c] = "sold" \/ row' = "closed"
<1>1. card \in [Card -> CardStatus] /\ {"sold", "awaiting"} \subseteq CardStatus
  BY DEF ExitInv, Shop, DeskTyped, CardStatus
<1>2. CASE Finishes(i, f, n, row' = "closed")
  <2>1. /\ SetStatus(i, IF s = PartiallyFilled /\ f.st # "filled" THEN Canceled ELSE s)
        /\ card' = [c \in Card |-> IF card[c] = "approving"
                                   THEN IF row' = "closed" THEN "sold" ELSE "awaiting" ELSE card[c]]
    BY <1>2 DEF FinishCards
  <2>2. \E t \in {s, Canceled} : SetStatus(i, t)
    BY <2>1
  <2>3. card' \in [Card -> CardStatus]
    BY <1>1, <2>1
  <2>4. \A c \in Card : card'[c] = "sold" => card[c] = "sold" \/ row' = "closed"
    BY <1>1, <2>1
  <2> QED BY <2>2, <2>3, <2>4
<1>3. CASE ~Finishes(i, f, n, row' = "closed")
  <2>1. SetStatus(i, s) /\ UNCHANGED card
    BY <1>3 DEF FinishCards
  <2> QED BY <1>1, <2>1
<1> QED BY <1>2, <1>3

(* The pass absorbs, or not, and finishes the cards.                         *)
LEMMA AbsorbsAndFinishes ==
  ASSUME ExitInv, pc[Rec] \in {"located", "absorb"}, NEW copy \in 0..Qty, NEW n,
         Absorb(job[Rec].sale, copy, job[Rec].rec.qty) \/ UNCHANGED <<applied, row, rowQty>>,
         FinishCards(job[Rec].sale, job[Rec].rec, st[job[Rec].sale], n, row' = "closed"),
         noted' \in [Slot -> 0..Qty],
         NextIntent, Handled(job[Rec].sale),
         UNCHANGED <<scene, rowStop, incident, asked, past, venue, listed, rest, crashes>>
  PROVE  ExitInv'
<1> DEFINE i == job[Rec].sale
           f == job[Rec].rec
<1>1. i \in Slot /\ f.qty \in 0..Qty /\ f.qty <= sold[i] /\ st[i] \in IntentStatus \union {"none"}
  BY IntentKnown
<1>2. /\ FinishCards(i, f, st[i], n, row' = "closed") /\ Handled(i)
      /\ Absorb(i, copy, f.qty) \/ UNCHANGED <<applied, row, rowQty>>
  OBVIOUS
<1> HIDE DEF i, f
<1>3. /\ applied' \in [Slot -> 0..Qty] /\ \A k \in Slot : applied'[k] <= sold[k]
      /\ rowQty' \in 0..Qty /\ row' \in {row, "closed"}
  <2>1. CASE Absorb(i, copy, f.qty)
    BY <1>1, <2>1, Absorbing
  <2>2. CASE UNCHANGED <<applied, row, rowQty>>
    BY <2>2 DEF ExitInv, Lots, LotsTyped, AllKept, Kept, Shop, DeskTyped
  <2> QED BY <1>2, <2>1, <2>2
<1>4. /\ \E t \in {st[i], Canceled} : SetStatus(i, t)
      /\ card' \in [Card -> CardStatus]
      /\ \A c \in Card : card'[c] = "sold" => card[c] = "sold" \/ row' = "closed"
  BY <1>1, <1>2, Finishing
<1>5. st \in [Slot -> IntentStatus \union {"none"}] /\ Canceled \in IntentStatus /\ Canceled # Created
  BY Named DEF ExitInv, Lots, LotsTyped
<1>6. st' \in [Slot -> IntentStatus \union {"none"}] /\ \A k \in Slot : st'[k] = Created => st[k] = Created
  <2>1. PICK t \in {st[i], Canceled} : SetStatus(i, t)
    BY <1>4
  <2> QED BY <1>1, <1>5, <2>1 DEF SetStatus
<1>7. Lots' /\ RecordStays
  BY <1>3, <1>6, LotsMove DEF venue
<1>8. DeskTyped'
  BY <1>3, <1>4 DEF ExitInv, Shop, DeskTyped
<1> QED BY <1>2, <1>3, <1>4, <1>7, <1>8, NextIntentKeeps

(* An intent already there may have sold further.                           *)
LEMMA IntentUnmovedKeeps ==
  ASSUME ExitInv, IntentUnmoved
  PROVE  ExitInv'
<1> DEFINE i == job[Rec].sale
           f == job[Rec].rec
<1>1. i \in Slot /\ f.qty \in 0..Qty /\ applied[i] \in 0..Qty /\ pc[Rec] \in {"located", "absorb"}
  BY IntentKnown DEF IntentUnmoved
<1>2. noted' \in [Slot -> 0..Qty]
  <2>1. noted \in [Slot -> 0..Qty]
    BY DEF ExitInv, Lots, LotsTyped
  <2>2. noted' = noted \/ noted' = [noted EXCEPT ![i] = IF f.qty > 0 THEN f.qty ELSE @]
    BY DEF IntentUnmoved
  <2> HIDE DEF i, f
  <2> QED BY <1>1, <2>1, <2>2
<1>3. /\ Absorb(i, applied[i], f.qty) \/ UNCHANGED <<applied, row, rowQty>>
      /\ FinishCards(i, f, st[i], applied'[i], row' = "closed") /\ NextIntent /\ Handled(i)
      /\ UNCHANGED <<scene, rowStop, incident, asked, past, venue, listed, rest, crashes>>
  BY DEF IntentUnmoved
<1> DEFINE a == applied[i]
           n == applied'[i]
<1>4. /\ Absorb(i, a, f.qty) \/ UNCHANGED <<applied, row, rowQty>>
      /\ FinishCards(i, f, st[i], n, row' = "closed") /\ a \in 0..Qty
  BY <1>1, <1>3
<1> HIDE DEF a, n
<1> QED BY <1>1, <1>2, <1>3, <1>4, AbsorbsAndFinishes

(* The book absorbs what the copy had not seen.                             *)
LEMMA AbsorbIntentKeeps ==
  ASSUME ExitInv, AbsorbIntent
  PROVE  ExitInv'
<1> DEFINE i == job[Rec].sale
           f == job[Rec].rec
           a == job[Rec].copy
           n == applied'[i]
<1>1. a \in 0..Qty /\ pc[Rec] \in {"located", "absorb"}
  BY JobTyped DEF AbsorbIntent, Proc
<1>2. noted' \in [Slot -> 0..Qty]
  BY DEF AbsorbIntent, ExitInv, Lots, LotsTyped
<1>3. /\ Absorb(i, a, f.qty) \/ UNCHANGED <<applied, row, rowQty>>
      /\ FinishCards(i, f, st[i], n, row' = "closed") /\ NextIntent /\ Handled(i)
      /\ UNCHANGED <<scene, rowStop, incident, asked, past, venue, listed, rest, crashes>>
  BY DEF AbsorbIntent
<1> HIDE DEF a, n
<1> QED BY <1>1, <1>2, <1>3, AbsorbsAndFinishes

(* An intent moves to what its order says.                                  *)
LEMMA IntentMovesKeeps ==
  ASSUME ExitInv, IntentMoves
  PROVE  ExitInv'
<1> DEFINE i == job[Rec].sale
           f == job[Rec].rec
           s == IntentStatusFor(f.st, f.qty)
           b == job[Rec]
           a == applied[i]
           j == Copying(b, a)
<1>1. /\ i \in Slot /\ f.qty \in 0..Qty /\ f.qty <= sold[i] /\ a \in 0..Qty /\ pc[Rec] = "located"
      /\ f.st \in VenueDone => ord[i] = f.st
      /\ f # NoOrder /\ f.st \in VenueStatus
  BY IntentKnown DEF IntentMoves
<1>2. b \in Job /\ Sound(Rec, "located", b) /\ Rec \in Proc /\ listed \in 0..Qty
  BY <1>1, JobTyped DEF Proc
<1>3. s \in IntentStatus \ {Created} /\ Unknown \in IntentStatus \ {Created}
  BY RecordStatus, Named
<1>4. UNCHANGED <<scene, desk, asked, applied, past, venue, listed, rest, crashes>>
  BY DEF IntentMoves
<1>5. \/ /\ SetStatus(i, s)
         /\ noted' = [noted EXCEPT ![i] = IF f.qty > 0 THEN f.qty ELSE @]
         /\ Take(Rec, "absorb", j)
         /\ UNCHANGED snap
      \/ SetStatus(i, Unknown) /\ NextIntent /\ Handled(i) /\ UNCHANGED noted
  BY DEF IntentMoves, Copying
<1>6. j \in Job /\ j.sale = b.sale /\ j.then = b.then /\ j.rec = b.rec
  BY <1>1, <1>2, PatchCopying
<1>7. noted \in [Slot -> 0..Qty] /\ pc \in [Proc -> ExitPc] /\ job \in [Proc -> Job]
  BY DEF ExitInv, Lots, LotsTyped, Seats, SeatsTyped
<1>8. f = b.rec /\ i = b.sale /\ b = job[Rec]
  OBVIOUS
<1> HIDE DEF i, f, s, b, a, j
<1>9. CASE SetStatus(i, Unknown) /\ NextIntent /\ Handled(i) /\ UNCHANGED noted
  <2>1. Lots' /\ RecordStays
    BY <1>1, <1>3, <1>4, <1>7, <1>9, LotsStatus DEF venue
  <2>2. DeskTyped' /\ row' = row /\ card' = card
    BY <1>4 DEF ExitInv, Shop, DeskTyped, desk
  <2> QED BY <1>4, <1>9, <2>1, <2>2, NextIntentKeeps
<1>10. CASE /\ SetStatus(i, s)
            /\ noted' = [noted EXCEPT ![i] = IF f.qty > 0 THEN f.qty ELSE @]
            /\ Take(Rec, "absorb", j)
            /\ UNCHANGED snap
  <2>1. noted' \in [Slot -> 0..Qty]
    BY <1>1, <1>7, <1>10
  <2>2. Lots' /\ RecordStays
    BY <1>1, <1>3, <1>4, <1>10, <2>1, LotsStatus DEF venue
  <2>3. pc' = [pc EXCEPT ![Rec] = "absorb"] /\ job' = [job EXCEPT ![Rec] = j]
    BY <1>10 DEF Take, Goto
  <2>4. "absorb" \in ExitPc
    BY DEF ExitPc
  <2>5. SeatsTyped'
    <3>1. pc' \in [Proc -> ExitPc]
      BY <1>7, <2>3, <2>4
    <3>2. job' \in [Proc -> Job]
      BY <1>6, <1>7, <2>3
    <3> QED BY <3>1, <3>2 DEF SeatsTyped, Job
  <2>6. Sound(Rec, "absorb", j)
    BY <1>2, <1>6 DEF Sound, CoverPc, StopPc, SalePc, PlainPc, PassPc, DecidePc
  <2>7. AllSound'
    <3>1. ASSUME NEW q \in Proc PROVE Sound(q, pc'[q], job'[q])
      <4>1. CASE q = Rec
        BY <1>7, <2>3, <2>6, <4>1
      <4>2. CASE q # Rec
        BY <1>7, <2>3, <4>2 DEF ExitInv, Seats, AllSound
      <4> QED BY <4>1, <4>2
    <3> QED BY <1>4, <3>1 DEF AllSound, Sound, manual
  <2>8. RecordTrue'
    <3>1. job'[Rec] = j /\ pc'[Rec] = "absorb" /\ sold' = sold /\ ord' = ord
      BY <1>2, <1>4, <1>7, <2>3 DEF venue
    <3> QED BY <1>1, <1>6, <1>8, <3>1 DEF RecordTrue
  <2>9. Shop'
    BY <1>2, <1>4, <1>10, ShopSame
  <2>10. PassTyped'
    BY <1>2, <1>4, <1>10, PassSame
  <2> QED BY <2>2, <2>5, <2>7, <2>8, <2>9, <2>10 DEF ExitInv, Seats
<1> QED BY <1>5, <1>9, <1>10

(* The pass goes on with new locals, the desk stays.                         *)
LEMMA PassGoesOn ==
  ASSUME ExitInv, NEW l \in {"idle", "intents", "book", "orders", "sizing", "excess"},
         NEW j \in Job, j.then = "none", Take(Rec, l, j), l \in {"orders", "sizing", "excess"} => ~manual,
         UNCHANGED <<scene, desk, intents, venue, snap, crashes>>, listed' \in 0..Qty, rest' \in SUBSET StopSlot
  PROVE  ExitInv'
<1>1. Lots' /\ RecordStays
  BY LotsSame DEF venue
<1>2. Seats' /\ Rec \in Proc /\ l # "applied"
  BY <1>1, PassMoves
<1>3. Shop'
  BY <1>2, ShopSame
<1>4. PassTyped'
  BY DEF ExitInv, PassTyped
<1> QED BY <1>1, <1>2, <1>3, <1>4 DEF ExitInv

(* The pass reads the positions.                                            *)
LEMMA ReadPositionsKeeps ==
  ASSUME ExitInv, ReadPositions
  PROVE  ExitInv'
<1> DEFINE b == job[Rec]
<1>1. PICK q \in 0..Qty : Reads(q) /\ Take(Rec, "book", [job[Rec] EXCEPT !.qty = q])
  BY DEF ReadPositions
<1> DEFINE j == Counting(b, q)
<1>2. /\ Take(Rec, "book", j) /\ UNCHANGED <<scene, desk, intents, venue, pass, crashes>> /\ pc[Rec] = "intents"
  BY <1>1 DEF ReadPositions, Counting
<1>3. b \in Job /\ Sound(Rec, "intents", b) /\ listed' \in 0..Qty
  BY <1>1, <1>2, JobTyped, ListedTyped DEF Proc
<1>4. j \in Job /\ j.then = "none"
  BY <1>3, PatchCounting DEF Sound, PlainPc, PassPc
<1>5. rest' \in SUBSET StopSlot /\ snap' = snap
  BY <1>2 DEF pass, ExitInv, PassTyped
<1> HIDE DEF j
<1> QED BY <1>2, <1>3, <1>4, <1>5, PassGoesOn

(* The pass is over.                                                         *)
LEMMA PassEnds ==
  ASSUME ExitInv, Leave(Rec), UNCHANGED <<scene, desk, intents, venue, listed, crashes>>
  PROVE  ExitInv'
<1>1. Lots' /\ RecordStays
  BY LotsSame DEF venue
<1> QED BY <1>1, LeavesOrReturns DEF Proc

(* It repairs the book, or disputes it.                                     *)
LEMMA RepairBookKeeps ==
  ASSUME ExitInv, RepairBook
  PROVE  ExitInv'
<1>1. UNCHANGED <<scene, card, rowStop, intents, venue, listed, crashes>> /\ pc[Rec] = "book"
  BY DEF RepairBook
<1>2. Lots' /\ RecordStays
  BY <1>1, LotsSame DEF venue
<1>3. Rec \in Proc /\ job[Rec].qty \in 0..Qty /\ listed \in 0..Qty /\ job[Rec] \in Job /\ job[Rec].then = "none"
  BY <1>1, JobTyped DEF Proc, Sound, PlainPc, PassPc
<1>4. rowQty' \in 0..Qty /\ row' \in {row, "closed"} /\ incident' \in BOOLEAN
  BY <1>3 DEF RepairBook, Disputed, ExitInv, Shop, DeskTyped
<1>5. DeskTyped'
  BY <1>1, <1>4 DEF ExitInv, Shop, DeskTyped
<1>6. Leave(Rec) \/ (~manual /\ Goto(Rec, "orders") /\ UNCHANGED <<job, pass>>)
  BY DEF RepairBook
<1>7. CASE Leave(Rec)
  <2>1. Seats' /\ PassTyped' /\ Take(Rec, "idle", NoJob)
    BY <1>1, <1>2, <1>3, <1>7, Leaves
  <2>2. Shop'
    BY <1>1, <1>3, <1>4, <1>5, <2>1, ShopMoved
  <2> QED BY <1>2, <2>1, <2>2 DEF ExitInv
<1>8. CASE ~manual /\ Goto(Rec, "orders") /\ UNCHANGED <<job, pass>>
  <2>1. Take(Rec, "orders", job[Rec])
    BY <1>3, <1>8 DEF Take, ExitInv, Seats, SeatsTyped
  <2>2. Seats'
    BY <1>1, <1>2, <1>3, <1>8, <2>1, PassMoves
  <2>3. Shop'
    BY <1>1, <1>3, <1>4, <1>5, <2>1, ShopMoved
  <2>4. PassTyped'
    BY <1>1, <1>3, <1>8, PassSame DEF pass
  <2> QED BY <1>2, <2>2, <2>3, <2>4 DEF ExitInv
<1> QED BY <1>6, <1>7, <1>8

(* It lists the stops that rest.                                            *)
LEMMA ListOrdersKeeps ==
  ASSUME ExitInv, ListOrders
  PROVE  ExitInv'
<1>1. /\ rest' = {i \in StopSlot : Resting(i)} /\ pc[Rec] = "orders" /\ Goto(Rec, "sizing")
      /\ UNCHANGED <<scene, desk, intents, venue, listed, job, snap, crashes>>
  BY DEF ListOrders
<1>2. job[Rec] \in Job /\ job[Rec].then = "none" /\ listed \in 0..Qty /\ ~manual
  BY <1>1, JobTyped DEF Proc, Sound, PlainPc, PassPc
<1>3. Take(Rec, "sizing", job[Rec])
  BY <1>1 DEF Take, ExitInv, Seats, SeatsTyped
<1> QED BY <1>1, <1>2, <1>3, PassGoesOn

(* It sizes the protection by the smaller of book and venue.                *)
LEMMA SizeProtectionKeeps ==
  ASSUME ExitInv, SizeProtection
  PROVE  ExitInv'
<1>1. PICK q \in 0..Qty :
        /\ Reads(q)
        /\ LET n == Min({q, rowQty}) IN
           IF row = "closed" \/ n = 0 \/ Protected(n)
           THEN Take(Rec, "excess", [NoJob EXCEPT !.lot = q])
           ELSE IF rowStop \in rest
           THEN Take(Rec, "resize", [NoJob EXCEPT !.lot = q, !.qty = n, !.stop = rowStop, !.then = "resize"])
           ELSE Take(Rec, "stop", [NoJob EXCEPT !.lot = q, !.qty = n, !.then = "ensure"])
  BY DEF SizeProtection
<1> DEFINE n == Min({q, rowQty})
<1>2. rowQty \in 0..Qty /\ Rec \in Proc /\ rest \subseteq StopSlot
  BY DEF ExitInv, Shop, DeskTyped, PassTyped, Proc
<1>3. n \in {q, rowQty}
  BY <1>2, SmallerOfTwo
<1>4. n \in 0..Qty
  BY <1>2, <1>3
<1>5. /\ UNCHANGED <<scene, desk, intents, venue, pass, crashes>> /\ pc[Rec] = "sizing"
      /\ \/ Take(Rec, "excess", Listed(NoJob, q))
         \/ n # 0 /\ rowStop \in rest /\ Take(Rec, "resize", Resizing(NoJob, q, n, rowStop))
         \/ n # 0 /\ Take(Rec, "stop", Ensuring(NoJob, q, n))
  BY <1>1 DEF SizeProtection, Listed, Resizing, Ensuring
<1> HIDE DEF n
<1>6. listed' \in 0..Qty
  BY <1>1, ListedTyped
<1>7. Lots' /\ RecordStays
  BY <1>5, LotsSame DEF venue
<1>8. ~manual
  BY <1>2, <1>5, JobTyped DEF Sound
<1>9. CASE Take(Rec, "excess", Listed(NoJob, q))
  <2> DEFINE j == Listed(NoJob, q)
  <2>1. j \in Job /\ j.then = "none"
    BY <1>4, PatchSizing
  <2>2. rest' \in SUBSET StopSlot /\ UNCHANGED <<scene, desk, intents, venue, snap, crashes>>
    BY <1>2, <1>5 DEF pass
  <2> HIDE DEF j
  <2> QED BY <1>6, <1>8, <1>9, <2>1, <2>2, PassGoesOn DEF j
<1>10. CASE n # 0 /\ rowStop \in rest /\ Take(Rec, "resize", Resizing(NoJob, q, n, rowStop))
  <2> DEFINE j == Resizing(NoJob, q, n, rowStop)
  <2>1. j \in Job /\ j.then = "resize" /\ j.qty = n /\ j.stop \in StopSlot
    BY <1>2, <1>4, <1>10, PatchSizing
  <2>2. Take(Rec, "resize", j) /\ n > 0
    BY <1>4, <1>10
  <2> HIDE DEF j
  <2>3. Sound(Rec, "resize", j) /\ "resize" \in ExitPc \ {"located", "absorb", "applied"}
    BY <1>8, <2>1, <2>2 DEF Sound, CoverPc, StopPc, SalePc, PlainPc, PassPc, DecidePc, ExitPc
  <2> QED BY <1>2, <1>5, <1>6, <1>7, <2>1, <2>2, <2>3, TakesOn
<1>11. CASE n # 0 /\ Take(Rec, "stop", Ensuring(NoJob, q, n))
  <2> DEFINE j == Ensuring(NoJob, q, n)
  <2>1. j \in Job /\ j.then = "ensure" /\ j.qty = n
    BY <1>4, PatchSizing
  <2>2. Take(Rec, "stop", j) /\ n > 0
    BY <1>4, <1>11
  <2> HIDE DEF j
  <2>3. Sound(Rec, "stop", j) /\ "stop" \in ExitPc \ {"located", "absorb", "applied"}
    BY <1>8, <2>1, <2>2 DEF Sound, CoverPc, StopPc, SalePc, PlainPc, PassPc, DecidePc, ExitPc
  <2> QED BY <1>2, <1>5, <1>6, <1>7, <2>1, <2>2, <2>3, TakesOn
<1> QED BY <1>5, <1>9, <1>10, <1>11, SMTT(40)

(* A listing that fails, or nothing left to take down, ends the pass.        *)
LEMMA PassEndsKeeps ==
  ASSUME ExitInv, PassFails \/ EndPass
  PROVE  ExitInv'
BY PassEnds DEF PassFails, EndPass

(* Taking down a stop too many keeps it.                                     *)
LEMMA CancelExcessKeeps ==
  ASSUME ExitInv, CancelExcess
  PROVE  ExitInv'
<1>1. /\ UNCHANGED <<scene, desk, asked, noted, applied, past, sold, wire, held, listed, task, snap, crashes>>
      /\ rest' \subseteq rest
  BY DEF CancelExcess
<1>2. PICK i \in rest :
        \/ /\ Freed({i})
           /\ SetStatus(i, IF st[i] \in Unresolved THEN SafeTransition(st[i], Canceled) ELSE st[i])
        \/ UNCHANGED <<ord, st>>
  BY DEF CancelExcess
<1>3. i \in Slot /\ st \in [Slot -> IntentStatus \union {"none"}]
  BY DEF ExitInv, PassTyped, Lots, LotsTyped, Slot
<1>4. Lots' /\ RecordStays
  <2>1. CASE /\ Freed({i})
             /\ SetStatus(i, IF st[i] \in Unresolved THEN SafeTransition(st[i], Canceled) ELSE st[i])
    <3> DEFINE s == IF st[i] \in Unresolved THEN SafeTransition(st[i], Canceled) ELSE st[i]
    <3>1. s \in IntentStatus \union {"none"} /\ (s = Created => st[i] = Created) /\ SetStatus(i, s)
      BY <1>3, <2>1, StatusMoves, Named
    <3> HIDE DEF s
    <3>2. /\ st' \in [Slot -> IntentStatus \union {"none"}]
          /\ \A k \in Slot : st'[k] = Created => st[k] = Created
      BY <1>3, <3>1 DEF SetStatus
    <3> DEFINE S == {i}
    <3>3. Freed(S)
      BY <2>1
    <3> HIDE DEF S
    <3> QED BY <1>1, <3>2, <3>3, LotsFreed
  <2>2. CASE UNCHANGED <<ord, st>>
    BY <1>1, <2>2, LotsSame DEF intents
  <2> QED BY <1>2, <2>1, <2>2
<1>5. Seats'
  BY <1>1, <1>4, Unmoved DEF task
<1>6. Shop'
  BY <1>1 DEF ExitInv, Shop, DeskTyped, Closing, desk, task
<1>7. PassTyped'
  BY <1>1 DEF ExitInv, PassTyped
<1> QED BY <1>4, <1>5, <1>6, <1>7 DEF ExitInv

-----------------------------------------------------------------------------
(* The venue and the restart keep it.                                        *)

(* The venue moves its side of the orders alone.                             *)
LEMMA VenueStep ==
  ASSUME ExitInv, UNCHANGED <<scene, desk, intents, listed, task, pass, crashes>>,
         wire' \subseteq wire, NEW i \in Slot,
         NEW o \in OrderState, ord' = [ord EXCEPT ![i] = o],
         NEW n \in 0..Qty, sold' = [sold EXCEPT ![i] = n], sold[i] <= n, n <= asked[i],
         o \in VenueWorking => n < asked[i],
         ord[i] \in VenueDone => o = ord[i],
         o # "none" => i \notin wire' /\ st[i] # Created,
         n # sold[i] => i \notin wire' /\ st[i] # Created
  PROVE  ExitInv'
<1>1. LotsTyped /\ AllKept
  BY DEF ExitInv, Lots
<1>2. ord' \in [Slot -> OrderState] /\ sold' \in [Slot -> 0..Qty]
  BY <1>1 DEF LotsTyped
<1>3. LotsTyped'
  BY <1>1, <1>2 DEF LotsTyped, intents
<1>4. ASSUME NEW k \in Slot PROVE Kept(k)'
  <2>1. Kept(k)
    BY <1>1 DEF AllKept
  <2>2. /\ st' = st /\ asked' = asked /\ applied' = applied
        /\ applied[k] \in Nat /\ sold[k] \in Nat /\ asked[k] \in Nat
    BY <1>1 DEF intents, LotsTyped
  <2>3. CASE k = i
    <3>1. ord'[k] = o /\ sold'[k] = n
      BY <1>1, <2>3 DEF LotsTyped
    <3> QED BY <2>1, <2>2, <2>3, <3>1 DEF Kept, Resting
  <2>4. CASE k # i
    <3>1. ord'[k] = ord[k] /\ sold'[k] = sold[k]
      BY <1>1, <2>4 DEF LotsTyped
    <3> QED BY <2>1, <2>2, <3>1 DEF Kept, Resting
  <2> QED BY <2>3, <2>4
<1>5. RecordStays
  BY <1>1 DEF RecordStays, Stays, LotsTyped
<1>6. Seats'
  BY <1>5, Unmoved DEF task, pass
<1>7. Shop' /\ PassTyped'
  BY DEF ExitInv, Shop, DeskTyped, Closing, PassTyped, desk, task, pass
<1> QED BY <1>3, <1>4, <1>6, <1>7 DEF ExitInv, Lots, AllKept

(* A submission arrives, is lost, sells or ends.                             *)
LEMMA VenueKeeps ==
  ASSUME ExitInv, Venue
  PROVE  ExitInv'
<1>1. PICK i \in Slot : Arrive(i) \/ Vanish(i) \/ SellShare(i) \/ OrderEnds(i)
  BY DEF Venue
<1>2. /\ Kept(i) /\ ord[i] \in OrderState /\ sold[i] \in 0..Qty /\ asked[i] \in 0..Qty
      /\ ord \in [Slot -> OrderState] /\ sold \in [Slot -> 0..Qty]
  BY DEF ExitInv, Lots, LotsTyped, AllKept
<1>3. ord = [ord EXCEPT ![i] = ord[i]] /\ sold = [sold EXCEPT ![i] = sold[i]]
  BY <1>2
<1>4. /\ {"accepted", "refused", "filled", "partial", "canceled"} \subseteq OrderState \ {"none"}
      /\ "none" \notin VenueDone /\ VenueDone \intersect VenueWorking = {}
  BY DEF OrderState, VenueStatus, VenueDone, VenueWorking
<1>5. CASE Arrive(i)
  <2> DEFINE o == IF asked[i] <= held - Pinned THEN "accepted" ELSE "refused"
  <2>1. /\ UNCHANGED <<scene, desk, intents, sold, listed, task, pass, crashes>> /\ i \in wire
        /\ wire' = wire \ {i} /\ ord' = [ord EXCEPT ![i] = o]
    BY <1>5 DEF Arrive
  <2>2. o \in {"accepted", "refused"}
    OBVIOUS
  <2> HIDE DEF o
  <2>3. sold' = [sold EXCEPT ![i] = sold[i]] /\ wire' \subseteq wire /\ i \notin wire' /\ o \in OrderState
    BY <1>3, <1>4, <2>1, <2>2
  <2>4. sold[i] <= sold[i] /\ sold[i] <= asked[i] /\ sold[i] < asked[i] /\ ord[i] \notin VenueDone /\ st[i] # Created
    BY <1>2, <1>4, <2>1 DEF Kept
  <2> QED BY <1>2, <2>1, <2>3, <2>4, VenueStep
<1>6. CASE Vanish(i)
  <2>1. /\ UNCHANGED <<scene, desk, intents, ord, sold, listed, task, pass, crashes>> /\ i \in wire
        /\ wire' = wire \ {i}
    BY <1>6 DEF Vanish
  <2>2. /\ ord' = [ord EXCEPT ![i] = ord[i]] /\ sold' = [sold EXCEPT ![i] = sold[i]] /\ wire' \subseteq wire
        /\ i \notin wire'
    BY <1>3, <2>1
  <2>3. sold[i] <= sold[i] /\ sold[i] <= asked[i] /\ sold[i] < asked[i] /\ st[i] # Created
    BY <1>2, <2>1 DEF Kept
  <2> QED BY <1>2, <2>1, <2>2, <2>3, VenueStep
<1>7. CASE SellShare(i)
  <2> DEFINE o == IF sold[i] + 1 = asked[i] THEN "filled" ELSE "partial"
             n == sold[i] + 1
  <2>1. /\ UNCHANGED <<scene, desk, intents, wire, listed, task, pass, crashes>> /\ Resting(i)
        /\ ord' = [ord EXCEPT ![i] = o] /\ sold' = [sold EXCEPT ![i] = n]
    BY <1>7 DEF SellShare
  <2>2. /\ sold[i] < asked[i] /\ i \notin wire /\ st[i] # Created /\ ord[i] \notin VenueDone
    BY <1>2, <1>4, <2>1 DEF Kept, Resting, VenueWorking
  <2>3. n \in 0..Qty /\ sold[i] <= n /\ n <= asked[i] /\ (o \in VenueWorking => n < asked[i]) /\ o \in OrderState
    <3>0. sold[i] \in Nat /\ asked[i] \in Nat /\ asked[i] <= Qty /\ Qty \in Nat
      BY <1>2, QtyAssumption
    <3>1. n \in 0..Qty /\ sold[i] <= n /\ n <= asked[i] /\ (o = "partial" => n < asked[i])
      BY <2>2, <3>0
    <3>2. o \in {"filled", "partial"}
      OBVIOUS
    <3> HIDE DEF o, n
    <3> QED BY <1>4, <3>1, <3>2 DEF VenueWorking
  <2> HIDE DEF o, n
  <2> QED BY <2>1, <2>2, <2>3, VenueStep
<1>8. CASE OrderEnds(i)
  <2>1. /\ UNCHANGED <<scene, desk, intents, sold, wire, listed, task, pass, crashes>> /\ Resting(i)
        /\ ord' = [ord EXCEPT ![i] = "canceled"] /\ sold' = [sold EXCEPT ![i] = sold[i]]
    BY <1>3, <1>8 DEF OrderEnds
  <2>2. /\ sold[i] < asked[i] /\ i \notin wire /\ st[i] # Created /\ ord[i] \notin VenueDone /\ sold[i] <= sold[i]
        /\ sold[i] <= asked[i]
    BY <1>2, <1>4, <2>1 DEF Kept, Resting, VenueWorking
  <2> DEFINE o == "canceled"
  <2>3. o \in OrderState /\ ord' = [ord EXCEPT ![i] = o]
    BY <1>4, <2>1
  <2> HIDE DEF o
  <2> QED BY <1>2, <2>1, <2>2, <2>3, VenueStep
<1> QED BY <1>1, <1>5, <1>6, <1>7, <1>8

(* A restart forgets every coroutine.                                        *)
LEMMA CrashKeeps ==
  ASSUME ExitInv, Crash
  PROVE  ExitInv'
<1>1. /\ UNCHANGED <<scene, desk, intents, venue, listed>> /\ crashes' = crashes + 1 /\ crashes < scene.crashes
      /\ pc' = [p \in Proc |-> "idle"] /\ job' = [p \in Proc |-> NoJob]
      /\ snap' = [i \in Slot |-> "none"] /\ rest' = {}
  BY DEF Crash
<1>2. Lots'
  BY <1>1, LotsSame DEF venue
<1>3. NoJob \in Job /\ "idle" \in ExitPc /\ \A p \in Proc : Sound(p, "idle", NoJob)
  BY NoJobIsJob DEF Sound, CoverPc, StopPc, SalePc, PlainPc, PassPc, DecidePc, ExitPc
<1>4. SeatsTyped'
  BY <1>1, <1>3 DEF SeatsTyped, Job
<1>5. AllSound'
  <2>1. \A p \in Proc : Sound(p, pc'[p], job'[p])
    BY <1>1, <1>3
  <2> QED BY <1>1, <2>1 DEF AllSound, Sound, manual
<1>6. RecordTrue'
  BY <1>1 DEF RecordTrue, Proc
<1>7. Shop'
  BY <1>1 DEF ExitInv, Shop, DeskTyped, Closing, desk, Proc
<1>8. PassTyped'
  <2>1. crashes \in Nat /\ scene.crashes \in Nat
    BY DEF ExitInv, PassTyped, Scene
  <2> QED BY <1>1, <2>1 DEF ExitInv, PassTyped
<1> QED BY <1>2, <1>4, <1>5, <1>6, <1>7, <1>8 DEF ExitInv, Seats

-----------------------------------------------------------------------------
(* The invariant.                                                            *)

(* A position just bought, and nobody at work on it.                         *)
LEMMA InitKeeps == Init => ExitInv
<1> SUFFICES ASSUME Init PROVE ExitInv
  OBVIOUS
<1>1. /\ scene \in Scene /\ rowStop \in StopSlot \union {NoSlot} /\ scene.bought \in 1..Qty
      /\ 0 \in 0..Qty /\ 0 \in 0..scene.crashes /\ Qty \in Nat
  BY ScenesAssumption, SlotAssumption, QtyAssumption DEF Init, Scene
<1>2. /\ {Created, Submitted} \subseteq IntentStatus /\ Submitted # Created /\ "none" # Created
      /\ {"none", "accepted"} \subseteq OrderState /\ "none" \notin VenueWorking
  BY Statuses, Named DEF OrderState, VenueStatus, VenueWorking
<1>3. PICK q \in 1..scene.bought : asked = [i \in Slot |-> IF i = rowStop THEN q ELSE 0]
  BY DEF Init
<1>4. q \in 0..Qty /\ q > 0
  BY <1>1, <1>3
<1>5. /\ st = [i \in Slot |-> IF i = rowStop THEN Submitted ELSE "none"]
      /\ ord = [i \in Slot |-> IF i = rowStop THEN "accepted" ELSE "none"]
      /\ noted = [i \in Slot |-> 0] /\ applied = [i \in Slot |-> 0] /\ past = 0
      /\ sold = [i \in Slot |-> 0] /\ wire = {}
  BY DEF Init
<1>6. LotsTyped
  BY <1>1, <1>2, <1>3, <1>4, <1>5 DEF LotsTyped
<1>7. AllKept
  BY <1>2, <1>3, <1>4, <1>5 DEF AllKept, Kept, Resting
<1>8. DeskTyped
  <2>1. row = "open" /\ rowQty = scene.bought /\ incident = FALSE /\ card = [c \in Card |-> "none"]
    BY DEF Init
  <2>2. "none" \in CardStatus /\ scene.bought \in 0..Qty
    BY <1>1 DEF CardStatus
  <2> QED BY <1>1, <2>1, <2>2 DEF DeskTyped
<1>9. Closing
  BY DEF Init, Closing, Proc
<1>10. NoJob \in Job /\ "idle" \in ExitPc /\ \A p \in Proc : Sound(p, "idle", NoJob)
  BY NoJobIsJob DEF Sound, CoverPc, StopPc, SalePc, PlainPc, PassPc, DecidePc, ExitPc
<1>11. SeatsTyped /\ AllSound /\ RecordTrue
  BY <1>10 DEF Init, SeatsTyped, AllSound, RecordTrue, Proc
<1>12. PassTyped
  BY <1>1 DEF Init, PassTyped
<1> QED BY <1>6, <1>7, <1>8, <1>9, <1>11, <1>12 DEF ExitInv, Lots, Shop, Seats

(* Every step keeps it.                                                      *)
LEMMA StepKeeps == ExitInv /\ [Next]_vars => ExitInv'
<1> SUFFICES ASSUME ExitInv, [Next]_vars PROVE ExitInv'
  OBVIOUS
<1>1. CASE Cards
  BY <1>1, CardsKeep
<1>2. ASSUME NEW w \in Worker, DecideExit(w) PROVE ExitInv'
  BY <1>2, SellKeeps, GateRefusesKeeps, AlreadyFlatKeeps, AdoptExitKeeps, CreateExitKeeps, ListingFailsKeeps,
     ExitUnfilledKeeps, ExitFilledKeeps, ExitPendingKeeps, FinishExitKeeps, FinishPartialKeeps DEF DecideExit
<1>3. ASSUME NEW p \in Proc, SellShares(p) PROVE ExitInv'
  BY <1>3, SaleLocatedKeeps, SaleNotLocatedKeeps, FreeSharesKeeps, SaleBlockedKeeps, ClaimSaleKeeps,
     SaleAcceptedKeeps, SaleRefusedKeeps, SaleUnknownKeeps, FillGivesUpKeeps, ResumeFlatKeeps, CreateFlatKeeps,
     FlatFilledKeeps, ReturnKeeps DEF SellShares
<1>4. ASSUME NEW p \in Proc, PlaceStop(p) PROVE ExitInv'
  BY <1>4, VerifyStopKeeps, StopRaisesKeeps, ResumeStopKeeps, CreateStopKeeps, AdoptStopKeeps, RetireStopKeeps,
     SendStopKeeps, StopAcceptedKeeps, StopRefusedKeeps, StopUnknownKeeps, StopNotFoundKeeps DEF PlaceStop
<1>5. CASE Pass
  BY <1>5, StartPassKeeps, RetireUnsentKeeps, LocateIntentKeeps, IntentUnknownKeeps, SettledMeanwhileKeeps,
     IntentUnmovedKeeps, IntentMovesKeeps, AbsorbIntentKeeps, ReadPositionsKeeps, PassEndsKeeps, RepairBookKeeps,
     ListOrdersKeeps, SizeProtectionKeeps, FreeStopKeeps, StopFilledKeeps, CancelExcessKeeps DEF Pass
<1>6. CASE Venue
  BY <1>6, VenueKeeps
<1>7. CASE Crash
  BY <1>7, CrashKeeps
<1>8. CASE UNCHANGED vars
  <2>1. Lots' /\ RecordStays
    BY <1>8, LotsSame DEF vars, venue
  <2>2. Seats'
    BY <1>8, <2>1, Unmoved DEF vars, task, pass
  <2>3. Shop' /\ PassTyped'
    BY <1>8 DEF ExitInv, Shop, DeskTyped, Closing, PassTyped, vars, desk, task, pass
  <2> QED BY <2>1, <2>2, <2>3 DEF ExitInv
<1> QED BY <1>1, <1>2, <1>3, <1>4, <1>5, <1>6, <1>7, <1>8 DEF Next

(* Types, and what is sound where: the state an exit goes through stays      *)
(* typed, but for the shares at the venue, whoever takes part in it          *)
(* (decide_exit, _place_protective_stop, _emergency_close, the pass).        *)
THEOREM ExitTyped == Spec => []ExitInv
<1>1. Init => ExitInv
  BY InitKeeps
<1>2. ExitInv /\ [Next]_vars => ExitInv'
  BY StepKeeps
<1> QED BY <1>1, <1>2, PTL DEF Spec

(* The book absorbs at most what an order sold, however decide_exit, the     *)
(* emergency close and the pass meet on it: claim_exit_qty hands the shares  *)
(* to the one caller whose copy of the absorbed quantity is current.         *)
THEOREM BookAbsorbsOnce == Spec => []AbsorbedOnce
<1>1. ExitInv => AbsorbedOnce
  BY DEF ExitInv, Lots, AllKept, Kept, AbsorbedOnce
<1> QED BY <1>1, ExitTyped, PTL

(* A card marked sold, by decide_exit or by the pass, belongs to a closed    *)
(* position: nothing reopens the row, and a sale that left shares over       *)
(* releases its card.                                                        *)
THEOREM SoldCardsAreClosed == Spec => []SoldIsClosed
<1>1. ExitInv => SoldIsClosed
  BY DEF ExitInv, Shop, Closing, SoldIsClosed
<1> QED BY <1>1, ExitTyped, PTL

(* Nothing but the claim of a sale or of a stop transmits.                   *)
LEMMA OnlyAClaimTransmits ==
  ASSUME [Next]_vars, ~(wire' \subseteq wire)
  PROVE  \E p \in Proc : ClaimSale(p) \/ SendStop(p)
<1>1. CASE Cards
  BY <1>1 DEF Cards, Propose, Decline, venue
<1>2. ASSUME NEW w \in Worker, DecideExit(w) PROVE wire' = wire
  BY <1>2 DEF DecideExit, Sell, GateRefuses, AlreadyFlat, AdoptExit, CreateExit, ListingFails, ExitUnfilled,
              ExitFilled, ExitPending, FinishExit, FinishPartial, venue
<1>3. ASSUME NEW p \in Proc, SellShares(p) PROVE ClaimSale(p) \/ wire' = wire
  BY <1>3 DEF SellShares, SaleLocated, SaleNotLocated, FreeShares, SaleBlocked, SaleAccepted, SaleRefused,
              SaleUnknown, FillGivesUp, ResumeFlat, CreateFlat, FlatFilled, Return, venue
<1>4. ASSUME NEW p \in Proc, PlaceStop(p) PROVE SendStop(p) \/ wire' = wire
  BY <1>4, SMTT(40) DEF PlaceStop, VerifyStop, StopRaises, ResumeStop, CreateStop, AdoptStop, RetireStop,
              StopAccepted, StopRefused, StopUnknown, StopNotFound, venue
<1>5. CASE Pass
  BY <1>5 DEF Pass, StartPass, RetireUnsent, LocateIntent, IntentUnknown, IntentSettledMeanwhile, IntentUnmoved,
              IntentMoves, AbsorbIntent, ReadPositions, PassFails, RepairBook, ListOrders, SizeProtection,
              FreeStop, StopFilledMeanwhile, CancelExcess, EndPass, venue
<1>6. CASE Venue
  BY <1>6 DEF Venue, Arrive, Vanish, SellShare, OrderEnds
<1>7. CASE Crash
  BY <1>7 DEF Crash, venue
<1>8. CASE UNCHANGED vars
  BY <1>8 DEF vars, venue
<1> QED BY <1>1, <1>2, <1>3, <1>4, <1>5, <1>6, <1>7, <1>8 DEF Next

(* Only a created intent is transmitted, so none is transmitted twice: the   *)
(* move from CREATED to SUBMITTING has one winner (_place_exit,              *)
(* _place_protective_stop).                                                  *)
THEOREM NoIntentIsSentTwice == Spec => SentOnce
<1> DEFINE Sends == \A i \in Slot : i \in wire' \ wire => ord[i] = "none" /\ st[i] = Created
<1>1. ExitInv /\ [Next]_vars => Sends
  <2> SUFFICES ASSUME ExitInv, [Next]_vars, NEW i \in Slot, i \in wire' \ wire
               PROVE  ord[i] = "none" /\ st[i] = Created
    OBVIOUS
  <2>1. \E p \in Proc : ClaimSale(p) \/ SendStop(p)
    BY OnlyAClaimTransmits
  <2>2. st[i] = Created
    BY <2>1 DEF ClaimSale, SaleClaim, SendStop
  <2> QED BY <2>2 DEF ExitInv, Lots, AllKept, Kept
<1> QED BY <1>1, ExitTyped, PTL DEF Spec, SentOnce

-----------------------------------------------------------------------------
(* Who moves.                                                                *)

(* A step of p leaves the others where they are.                             *)
Alone(p) == \A q \in Proc : q # p => pc'[q] = pc[q] /\ job'[q] = job[q]

StepOf(p) == (p \in Worker /\ DecideExit(p)) \/ SellShares(p) \/ PlaceStop(p) \/ (p = Rec /\ Pass)

(* The bounds of a behaviour stay, but for a single pass, which is taken.    *)
LEMMA SceneStays ==
  ASSUME ExitInv, [Next]_vars
  PROVE  /\ scene' = scene \/ StartPass
         /\ scene'.manual = scene.manual /\ scene'.faults = scene.faults /\ scene'.cards = scene.cards
         /\ scene'.passing = "never" <=> scene.passing = "never"
         /\ (OwnRelease)' <=> OwnRelease
         /\ (OneStopper)' <=> OneStopper
<1>1. scene' = scene \/ StartPass
  <2>1. ASSUME NEW w \in Worker, DecideExit(w) PROVE scene' = scene
    BY <2>1 DEF DecideExit, Sell, GateRefuses, AlreadyFlat, AdoptExit, CreateExit, ListingFails, ExitUnfilled,
                ExitFilled, ExitPending, FinishExit, FinishPartial
  <2>2. ASSUME NEW p \in Proc, SellShares(p) PROVE scene' = scene
    BY <2>2 DEF SellShares, SaleLocated, SaleNotLocated, FreeShares, SaleBlocked, ClaimSale, SaleAccepted, SaleRefused,
                SaleUnknown, FillGivesUp, ResumeFlat, CreateFlat, FlatFilled, Return
  <2>3. ASSUME NEW p \in Proc, PlaceStop(p) PROVE scene' = scene
    BY <2>3, SMTT(40) DEF PlaceStop, VerifyStop, StopRaises, ResumeStop, CreateStop, AdoptStop,
                RetireStop, SendStop, StopAccepted, StopRefused, StopUnknown, StopNotFound
  <2>4. CASE Pass
    BY <2>4 DEF Pass, RetireUnsent, LocateIntent, IntentUnknown, IntentSettledMeanwhile, IntentUnmoved,
                IntentMoves, AbsorbIntent, ReadPositions, PassFails, RepairBook, ListOrders, SizeProtection,
                FreeStop, StopFilledMeanwhile, CancelExcess, EndPass
  <2>5. CASE Cards \/ Venue \/ Crash \/ UNCHANGED vars
    BY <2>5 DEF Cards, Propose, Decline, Venue, Arrive, Vanish, SellShare, OrderEnds, Crash, vars
  <2> QED BY <2>1, <2>2, <2>3, <2>4, <2>5 DEF Next
<1>2. /\ scene'.manual = scene.manual /\ scene'.faults = scene.faults /\ scene'.cards = scene.cards
      /\ scene'.passing = "never" <=> scene.passing = "never"
  <2>1. CASE scene' = scene
    BY <2>1
  <2>2. CASE StartPass
    <3> DEFINE t == IF scene.passing = "once" THEN "done" ELSE scene.passing
    <3>1. scene' = [scene EXCEPT !.passing = t] /\ scene \in Scene
      BY <2>2 DEF StartPass, ExitInv, PassTyped
    <3>2. t = "never" <=> scene.passing = "never"
      OBVIOUS
    <3> HIDE DEF t
    <3> QED BY <3>1, <3>2 DEF Scene
  <2> QED BY <1>1, <2>1, <2>2
<1> QED BY <1>1, <1>2 DEF OwnRelease, OneStopper, manual

(* A change of one coroutine's place and locals is a step of it alone.       *)
LEMMA OneMoves ==
  ASSUME ExitInv, NEW p \in Proc, NEW l, Goto(p, l), job' = job \/ \E j : job' = [job EXCEPT ![p] = j]
  PROVE  Alone(p)
BY DEF ExitInv, Seats, SeatsTyped, Alone, Goto

(* Whoever moves was at work, unless it starts to, and moves alone.          *)
LEMMA Awake ==
  ASSUME ExitInv, NEW p \in Proc, StepOf(p)
  PROVE  /\ pc[p] # "idle" \/ (p \in Worker /\ \E c \in Card : Sell(p, c)) \/ (p = Rec /\ StartPass)
         /\ Alone(p)
<1>1. ASSUME p \in Worker, DecideExit(p)
      PROVE  /\ pc[p] # "idle" \/ \E c \in Card : Sell(p, c)
             /\ Alone(p)
  <2>1. pc[p] # "idle" \/ \E c \in Card : Sell(p, c)
    BY <1>1 DEF DecideExit, GateRefuses, AlreadyFlat, AdoptExit, CreateExit, ListingFails, ExitUnfilled,
                ExitFilled, ExitPending, FinishExit, ExitSold, FinishPartial, FinalRecord
  <2>2. \E l : Goto(p, l) /\ \E j : job' = [job EXCEPT ![p] = j]
    BY <1>1 DEF DecideExit, Sell, GateRefuses, AlreadyFlat, AdoptExit, CreateExit, ListingFails, ExitUnfilled,
                ExitFilled, ExitPending, FinishExit, FinishPartial, Leave, Take
  <2> QED BY <2>1, <2>2, OneMoves
<1>2. ASSUME SellShares(p) PROVE pc[p] # "idle" /\ Alone(p)
  <2>1. pc[p] # "idle"
    BY <1>2 DEF SellShares, SaleLocated, SaleNotLocated, FreeShares, SaleBlocked, ClaimSale, SaleAccepted, SaleRefused,
                SaleUnknown, FillGivesUp, ResumeFlat, CreateFlat, FlatFilled, Return, FinalRecord
  <2>2. \E l : Goto(p, l) /\ (job' = job \/ \E j : job' = [job EXCEPT ![p] = j])
    BY <1>2 DEF SellShares, SaleLocated, SaleNotLocated, FreeShares, SaleBlocked, ClaimSale, SaleAccepted, SaleRefused,
                SaleUnknown, FillGivesUp, ResumeFlat, CreateFlat, FlatFilled, Return, Leave, Take
  <2> QED BY <2>1, <2>2, OneMoves
<1>3. ASSUME PlaceStop(p) PROVE pc[p] # "idle" /\ Alone(p)
  <2>1. pc[p] # "idle"
    BY <1>3 DEF PlaceStop, VerifyStop, StopRaises, ResumeStop, CreateStop, AdoptStop, RetireStop, SendStop, StopAccepted,
                StopRefused, StopUnknown, StopNotFound
  <2>2. \E l : Goto(p, l) /\ (job' = job \/ \E j : job' = [job EXCEPT ![p] = j])
    BY <1>3 DEF PlaceStop, VerifyStop, StopRaises, ResumeStop, CreateStop, AdoptStop, RetireStop, SendStop, StopAccepted,
                StopRefused, StopUnknown, StopNotFound, Leave, Take, Covered
  <2> QED BY <2>1, <2>2, OneMoves
<1>4. ASSUME p = Rec, Pass PROVE (pc[p] # "idle" \/ StartPass) /\ Alone(p)
  <2>1. pc[p] # "idle" \/ StartPass
    BY <1>4 DEF Pass, RetireUnsent, LocateIntent, IntentUnknown, IntentSettledMeanwhile, IntentUnmoved,
                IntentMoves, AbsorbIntent, ReadPositions, PassFails, RepairBook, ListOrders, SizeProtection,
                FreeStop, StopFilledMeanwhile, CancelExcess, EndPass
  <2>2. \/ \E l : Goto(p, l) /\ (job' = job \/ \E j : job' = [job EXCEPT ![p] = j])
        \/ UNCHANGED task
    BY <1>4 DEF Pass, StartPass, RetireUnsent, LocateIntent, IntentUnknown, IntentSettledMeanwhile, IntentUnmoved,
                IntentMoves, AbsorbIntent, ReadPositions, PassFails, RepairBook, ListOrders, SizeProtection,
                FreeStop, StopFilledMeanwhile, CancelExcess, EndPass, NextIntent, Leave, Take
  <2>3. UNCHANGED task => Alone(p)
    BY DEF Alone, task
  <2>4. Alone(p)
    BY <2>2, <2>3, OneMoves
  <2> QED BY <2>1, <2>4, SMTT(40)
<1> QED BY <1>1, <1>2, <1>3, <1>4 DEF StepOf

(* A step is somebody's, or the card desk's, the venue's or a restart.       *)
LEMMA WhoseStep ==
  ASSUME [Next]_vars
  PROVE  \/ Cards \/ Venue \/ Crash \/ UNCHANGED vars
         \/ \E p \in Proc : StepOf(p)
<1>1. Rec \in Proc /\ Worker \subseteq Proc
  BY DEF Proc
<1> QED BY <1>1 DEF Next, StepOf

(* Where no pass is started, the pass sleeps.                                *)
Asleep == scene.passing = "never" => pc[Rec] = "idle"

(* A pass never started stays asleep.                                        *)
LEMMA AsleepKeeps ==
  ASSUME ExitInv, Asleep, [Next]_vars
  PROVE  Asleep'
<1> SUFFICES ASSUME scene'.passing = "never" PROVE pc'[Rec] = "idle"
  BY DEF Asleep
<1>1. scene.passing = "never" /\ pc[Rec] = "idle" /\ Rec \in Proc
  BY SceneStays DEF Asleep, Proc
<1>2. CASE Cards \/ Venue \/ UNCHANGED vars
  BY <1>1, <1>2 DEF Cards, Propose, Decline, Venue, Arrive, Vanish, SellShare, OrderEnds, vars, task
<1>3. CASE Crash
  BY <1>1, <1>3 DEF Crash
<1>4. ASSUME NEW p \in Proc, StepOf(p) PROVE pc'[Rec] = "idle"
  <2>1. ~StartPass
    BY <1>1 DEF StartPass
  <2>2. p # Rec
    BY <1>1, <1>4, <2>1, Awake, NameAssumption
  <2> QED BY <1>1, <1>4, <2>2, Awake DEF Alone
<1> QED BY <1>2, <1>3, <1>4, WhoseStep

-----------------------------------------------------------------------------
(* A card is decided by one coroutine.                                       *)

(* The card a coroutine decides reads approving, and nobody else decides it. *)
Claims ==
  OwnRelease =>
    /\ \A w \in Worker : job[w].card # NoCard => card[job[w].card] = "approving"
    /\ \A v, w \in Worker : v # w /\ job[v].card # NoCard => job[v].card # job[w].card

(* Cards that somebody decides stay as they are, and nobody takes another.   *)
LEMMA ClaimsStay ==
  ASSUME ExitInv, [Next]_vars, Claims,
         \A w \in Worker : job'[w].card \in {job[w].card, NoCard},
         \A w \in Worker : job'[w].card \in Card => card'[job[w].card] = card[job[w].card]
  PROVE  Claims'
<1> SUFFICES ASSUME OwnRelease PROVE Claims'
  BY SceneStays DEF Claims
<1>1. \A w \in Worker : job[w].card \in Card \union {NoCard}
  BY JobTyped DEF Job, Proc
<1> QED BY <1>1 DEF Claims

(* One coroutine moves and keeps or drops its card, the cards stay.          *)
LEMMA ClaimsMove ==
  ASSUME ExitInv, [Next]_vars, Claims, UNCHANGED card, NEW p \in Proc, Alone(p),
         job'[p].card \in {job[p].card, NoCard}
  PROVE  Claims'
BY ClaimsStay DEF Alone, Proc

(* A coroutine gives its card back and leaves.                               *)
LEMMA ClaimsBack ==
  ASSUME ExitInv, [Next]_vars, Claims, NEW w \in Worker, Leave(w), NEW s, SetCard(job[w].card, s)
  PROVE  Claims'
<1> SUFFICES ASSUME OwnRelease PROVE Claims'
  BY SceneStays DEF Claims
<1>1. job \in [Proc -> Job] /\ w \in Proc /\ card \in [Card -> CardStatus] /\ pc \in [Proc -> ExitPc]
  BY DEF ExitInv, Seats, SeatsTyped, Shop, DeskTyped, Proc
<1>2. job'[w] = NoJob /\ \A v \in Worker : v # w => job'[v] = job[v]
  BY <1>1 DEF Leave, Take, Proc
<1>3. job'[w].card = NoCard /\ \A v \in Worker : job'[v].card \in {job[v].card, NoCard}
  BY <1>2, NoJobIsJob
<1>4. ASSUME NEW v \in Worker, job'[v].card \in Card PROVE card'[job[v].card] = card[job[v].card]
  <2>1. v # w /\ job[v].card = job'[v].card
    BY <1>2, <1>3, <1>4, NameAssumption
  <2>2. job[v].card # job[w].card
    BY <1>4, <2>1, NameAssumption DEF Claims
  <2> QED BY <1>1, <2>2 DEF SetCard
<1> QED BY <1>3, <1>4, ClaimsStay
(* A coroutine goes on with locals that name the same card.                  *)
LEMMA CardCarried ==
  ASSUME NEW b \in Job
  PROVE  /\ \A i, a, s, n : Adopting(b, i, a, s, n).card = b.card
         /\ \A i, s, n : Creating(b, i, s, n).card = b.card
         /\ \A s, n, m : Settling(b, s, n, m).card = b.card
         /\ Restoring(b).card = b.card /\ Partly(b).card = b.card /\ Back(b).card = b.card
         /\ \A s : Holding(b, s).card = b.card
         /\ \A i, n : Flattening(b, i, n).card = b.card
         /\ \A c : Deciding(c).card = c
BY DEF Job, NoJob, Adopting, Creating, Settling, Restoring, Partly, Back, Holding, Flattening, Deciding

(* A sale decided, and the stop or emergency close after it, name no other   *)
(* card, and only who decides one gives it back.                             *)
LEMMA ClaimsOfStep ==
  ASSUME ExitInv, [Next]_vars, Claims, NEW p \in Proc, SellShares(p) \/ PlaceStop(p)
  PROVE  Claims'
<1> DEFINE b == job[p]
           Same == UNCHANGED card /\ (job' = job \/ \E j : job' = [job EXCEPT ![p] = j] /\ j.card \in {b.card, NoCard})
           Gone == p \in Worker /\ Leave(p) /\ \E s : SetCard(b.card, s)
<1>1. job \in [Proc -> Job] /\ b \in Job /\ NoJob.card = NoCard /\ Sound(p, pc[p], b)
  BY JobTyped, NoJobIsJob DEF ExitInv, Seats, SeatsTyped
<1>2. CASE Same
  <2>1. job'[p].card \in {b.card, NoCard}
    BY <1>1, <1>2
  <2>2. Alone(p)
    BY Awake DEF StepOf
  <2> QED BY <1>2, <2>1, <2>2, ClaimsMove
<1>3. CASE Gone
  BY <1>3, ClaimsBack
<1>4. CASE SaleLocated(p) \/ FreeShares(p) \/ ClaimSale(p) \/ FillGivesUp(p) \/ FlatFilled(p)
  <2>1. Same
    BY <1>4 DEF SaleLocated, FreeShares, ClaimSale, FillGivesUp, FlatFilled, desk
  <2> QED BY <1>2, <2>1
<1>5. CASE SaleNotLocated(p) \/ SaleAccepted(p) \/ SaleUnknown(p)
  <2>1. Same
    BY <1>1, <1>5 DEF SaleNotLocated, SaleAccepted, SaleUnknown, desk, Leave, Take
  <2> QED BY <1>2, <2>1
<1>6. CASE SaleBlocked(p) \/ SaleRefused(p)
  <2>1. \/ Leave(p) /\ UNCHANGED card
        \/ b.then = "none" /\ Leave(p) /\ SetCard(b.card, "awaiting")
        \/ UNCHANGED <<card, job>>
    BY <1>6 DEF SaleBlocked, SaleRefused
  <2>2. b.then = "none" => p \in Worker
    BY <1>1, <1>6 DEF SaleBlocked, SaleRefused, Sound, SalePc, Proc
  <2>3. Leave(p) => job' = [job EXCEPT ![p] = NoJob]
    BY DEF Leave, Take
  <2> QED BY <1>1, <1>2, <1>3, <2>1, <2>2, <2>3
<1>7. CASE Return(p)
  <2>1. CASE p = Rec
    <3>1. job' = [job EXCEPT ![p] = Back(b)] /\ UNCHANGED card
      BY <1>7, <2>1 DEF Return, Take, Back
    <3>2. Back(b).card = b.card
      BY <1>1, CardCarried
    <3> QED BY <1>2, <3>1, <3>2
  <2>2. CASE p # Rec
    <3>1. Gone
      BY <1>7, <2>2 DEF Return, Proc
    <3> QED BY <1>3, <3>1
  <2> QED BY <2>1, <2>2
<1>8. CASE ResumeFlat(p) \/ CreateFlat(p)
  <2>1. \E i, n : job' = [job EXCEPT ![p] = Flattening(b, i, n)]
    BY <1>8 DEF ResumeFlat, CreateFlat, Take, Flattening
  <2>2. UNCHANGED card
    BY <1>8 DEF ResumeFlat, CreateFlat, desk
  <2>3. PICK i, n : job' = [job EXCEPT ![p] = Flattening(b, i, n)]
    BY <2>1
  <2>4. Flattening(b, i, n).card = b.card
    BY <1>1, CardCarried
  <2> QED BY <1>2, <2>2, <2>3, <2>4
<1>9. CASE VerifyStop(p) \/ AdoptStop(p) \/ SendStop(p) \/ StopUnknown(p) \/ StopRaises(p) \/ StopAccepted(p)
  <2>1. Same
    BY <1>1, <1>9 DEF VerifyStop, AdoptStop, SendStop, StopUnknown, StopRaises, StopAccepted, desk, Leave, Take
  <2> QED BY <1>2, <2>1
<1>10. CASE ResumeStop(p) \/ CreateStop(p) \/ RetireStop(p) \/ StopRefused(p) \/ StopNotFound(p)
  <2>1. \/ \E i : job' = [job EXCEPT ![p] = Holding(b, i)]
        \/ job' = [job EXCEPT ![p] = NoJob]
    BY <1>10 DEF ResumeStop, CreateStop, RetireStop, StopRefused, StopNotFound, Leave, Take, Holding
  <2>2. UNCHANGED card
    BY <1>10 DEF ResumeStop, CreateStop, RetireStop, StopRefused, StopNotFound, desk
  <2> QED BY <1>1, <1>2, <2>1, <2>2, CardCarried
<1> QED BY <1>4, <1>5, <1>6, <1>7, <1>8, <1>9, <1>10 DEF SellShares, PlaceStop

(* decide_exit claims a card nobody decides, and gives back or sells its own. *)
LEMMA ClaimsOfDecide ==
  ASSUME ExitInv, [Next]_vars, Claims, NEW w \in Worker, DecideExit(w)
  PROVE  Claims'
<1> DEFINE b == job[w]
           Same == UNCHANGED card /\ \E j : job' = [job EXCEPT ![w] = j] /\ j.card \in {b.card, NoCard}
           Gone == Leave(w) /\ \E s : SetCard(b.card, s)
<1>1. job \in [Proc -> Job] /\ b \in Job /\ NoJob.card = NoCard /\ w \in Proc
  BY JobTyped, NoJobIsJob DEF ExitInv, Seats, SeatsTyped, Proc
<1>2. CASE Same
  <2>1. job'[w].card \in {b.card, NoCard}
    BY <1>1, <1>2
  <2>2. Alone(w)
    BY <1>1, Awake DEF StepOf
  <2> QED BY <1>1, <1>2, <2>1, <2>2, ClaimsMove
<1>3. CASE Gone
  BY <1>3, ClaimsBack
<1>4. ASSUME NEW c \in Card, Sell(w, c) PROVE Claims'
  <2> SUFFICES ASSUME OwnRelease PROVE Claims'
    BY SceneStays DEF Claims
  <2>1. card[c] = "awaiting" /\ card' = [card EXCEPT ![c] = "approving"]
    BY <1>4 DEF Sell, ClaimCard, SetCard
  <2>2. job'[w].card = c /\ \A v \in Worker : v # w => job'[v] = job[v]
    <3>1. job' = [job EXCEPT ![w] = Deciding(c)]
      BY <1>4 DEF Sell, Take, Deciding
    <3>2. Deciding(c).card = c
      BY <1>1, CardCarried
    <3> HIDE DEF b
    <3> QED BY <1>1, <3>1, <3>2 DEF Proc
  <2>3. card \in [Card -> CardStatus]
    BY DEF ExitInv, Shop, DeskTyped
  <2>4. \A v \in Worker : job[v].card # c
    BY <2>1, NameAssumption DEF Claims
  <2>5. ASSUME NEW v \in Worker, job'[v].card # NoCard PROVE card'[job'[v].card] = "approving"
    BY <2>1, <2>2, <2>3, <2>4, <2>5 DEF Claims
  <2>6. ASSUME NEW u \in Worker, NEW v \in Worker, u # v, job'[u].card # NoCard PROVE job'[u].card # job'[v].card
    BY <2>2, <2>4, <2>6 DEF Claims
  <2> QED BY <2>5, <2>6 DEF Claims
<1>5. CASE GateRefuses(w) \/ AlreadyFlat(w) \/ FinishExit(w)
  BY <1>3, <1>5 DEF GateRefuses, AlreadyFlat, FinishExit
<1>6. CASE ListingFails(w) \/ ExitPending(w)
  <2>1. Same
    BY <1>1, <1>6 DEF ListingFails, ExitPending, desk, Leave, Take
  <2> QED BY <1>2, <2>1
<1>7. CASE AdoptExit(w)
  <2>1. PICK i : \E l : Take(w, l, [b EXCEPT !.sale = i, !.copy = applied[i], !.stop = rowStop, !.lot = rowQty])
    BY <1>7 DEF AdoptExit
  <2>2. job' = [job EXCEPT ![w] = Adopting(b, i, applied[i], rowStop, rowQty)]
    BY <2>1 DEF Take, Adopting
  <2>3. Adopting(b, i, applied[i], rowStop, rowQty).card = b.card /\ UNCHANGED card
    BY <1>1, <1>7, CardCarried DEF AdoptExit, desk
  <2> QED BY <1>2, <2>2, <2>3
<1>8. CASE CreateExit(w)
  <2>1. job' = [job EXCEPT ![w] = Creating(b, Fresh(ExitSlot), rowStop, rowQty)]
    BY <1>8 DEF CreateExit, Take, Creating
  <2>2. Creating(b, Fresh(ExitSlot), rowStop, rowQty).card = b.card /\ UNCHANGED card
    BY <1>1, <1>8, CardCarried DEF CreateExit, desk
  <2> QED BY <1>2, <2>1, <2>2
<1>9. CASE ExitUnfilled(w)
  <2>1. \/ Leave(w) /\ SetCard(b.card, "awaiting")
        \/ job' = [job EXCEPT ![w] = Restoring(b)] /\ UNCHANGED card
    BY <1>9 DEF ExitUnfilled, Take, Restoring
  <2> QED BY <1>1, <1>2, <1>3, <2>1, CardCarried
<1>10. CASE ExitFilled(w)
  <2>1. PICK t, n, m : job' = [job EXCEPT ![w] = Settling(b, t, n, m)]
    BY <1>10 DEF ExitFilled, Take, Settling
  <2>2. Settling(b, t, n, m).card = b.card /\ UNCHANGED card
    BY <1>1, <1>10, CardCarried DEF ExitFilled
  <2> QED BY <1>2, <2>1, <2>2
<1>11. CASE FinishPartial(w)
  <2>1. job' = [job EXCEPT ![w] = Partly(b)] /\ UNCHANGED card
    BY <1>11 DEF FinishPartial, Take, desk, Partly
  <2> QED BY <1>1, <1>2, <2>1, CardCarried
<1> QED BY <1>4, <1>5, <1>6, <1>7, <1>8, <1>9, <1>10, <1>11 DEF DecideExit

(* The pass decides no card, and releases one only where it may.             *)
LEMMA ClaimsOfPass ==
  ASSUME ExitInv, Asleep, [Next]_vars, Claims, Pass
  PROVE  Claims'
<1> SUFFICES ASSUME OwnRelease PROVE Claims'
  BY SceneStays DEF Claims
<1>1. Alone(Rec) /\ Rec \in Proc /\ \A w \in Worker : w # Rec
  BY Awake, NameAssumption DEF StepOf, Proc
<1>2. \A w \in Worker : job'[w] = job[w]
  BY <1>1 DEF Alone, Proc
<1>3. CASE StartPass
  BY <1>2, <1>3, ClaimsStay DEF StartPass, desk
<1>4. CASE ~StartPass
  <2>1. ~manual
    BY <1>1, <1>4, Awake, NameAssumption, SMTT(40) DEF OwnRelease, Asleep, StepOf
  <2>2. card' = card
    BY <1>4, <2>1 DEF Pass, RetireUnsent, LocateIntent, IntentUnknown, IntentSettledMeanwhile, IntentUnmoved,
                IntentMoves, AbsorbIntent, ReadPositions, PassFails, RepairBook, ListOrders, SizeProtection,
                FreeStop, StopFilledMeanwhile, CancelExcess, EndPass, FinishCards, Finishes, desk
  <2> QED BY <1>2, <2>2, ClaimsStay
<1> QED BY <1>3, <1>4

(* Every step keeps the claims apart.                                        *)
LEMMA ClaimsKeep ==
  ASSUME ExitInv, Asleep, Claims, [Next]_vars
  PROVE  Claims'
<1> USE DEF Proc
<1>1. CASE Cards
  <2>1. job' = job /\ \E c \in Card : card[c] # "approving" /\ \E s : SetCard(c, s)
    BY <1>1 DEF Cards, Propose, Decline, task
  <2>2. \A d \in Card : card[d] = "approving" => card'[d] = card[d]
    BY <2>1 DEF SetCard, ExitInv, Shop, DeskTyped
  <2>3. \A w \in Worker : job[w].card \in Card \union {NoCard}
    BY JobTyped DEF Job
  <2> SUFFICES ASSUME OwnRelease PROVE Claims'
    BY SceneStays DEF Claims
  <2> QED BY <2>1, <2>2, <2>3, ClaimsStay DEF Claims
<1>2. CASE Venue \/ UNCHANGED vars
  <2>1. UNCHANGED <<card, job>>
    BY <1>2 DEF Venue, Arrive, Vanish, SellShare, OrderEnds, vars, task, desk
  <2> QED BY <2>1, ClaimsStay
<1>3. CASE Crash
  <2>1. card' = card /\ \A w \in Worker : job'[w].card = NoCard
    BY <1>3, NoJobIsJob DEF Crash, desk
  <2> QED BY <2>1, ClaimsStay
<1>4. ASSUME NEW p \in Proc, StepOf(p) PROVE Claims'
  BY <1>4, ClaimsOfDecide, ClaimsOfStep, ClaimsOfPass DEF StepOf
<1> QED BY <1>1, <1>2, <1>3, <1>4, WhoseStep

(* Two presses of SELL never run decide_exit on one card at a time: the      *)
(* claim has one winner, and nothing but its winner releases the card (under *)
(* the manual policy the pass does too: _finish_pending_exit_card).          *)
THEOREM CardsAreDecidedOnce == Spec => []DecidedOnce
<1>1. Init => Asleep /\ Claims
  BY NoJobIsJob DEF Init, Asleep, Claims, Proc
<1>2. ExitInv /\ Asleep /\ Claims /\ [Next]_vars => Asleep' /\ Claims'
  BY AsleepKeeps, ClaimsKeep
<1>3. Claims => DecidedOnce
  BY DEF Claims, DecidedOnce
<1> QED BY <1>1, <1>2, <1>3, ExitTyped, PTL DEF Spec
-----------------------------------------------------------------------------
(* Stops and emergency closes.                                               *)

(* Where no card may be raised nobody decides one.                           *)
Unmanned == scene.cards = 0 => (\A c \in Card : card[c] = "none") /\ (\A w \in Worker : pc[w] = "idle")

(* Where no card may be raised, whoever moves is the pass.                   *)
LEMMA OnlyThePassMoves ==
  ASSUME ExitInv, Unmanned, scene.cards = 0, NEW p \in Proc, StepOf(p)
  PROVE  p = Rec
<1>1. ASSUME NEW c \in Card, p \in Worker, Sell(p, c) PROVE FALSE
  BY <1>1 DEF Unmanned, Sell, ClaimCard
<1> QED BY <1>1, Awake DEF Unmanned, Proc

(* Without a card to decide, none is decided.                                *)
LEMMA UnmannedKeeps ==
  ASSUME ExitInv, Unmanned, [Next]_vars
  PROVE  Unmanned'
<1> SUFFICES ASSUME scene.cards = 0
             PROVE  (\A c \in Card : card'[c] = "none") /\ (\A w \in Worker : pc'[w] = "idle")
  BY SceneStays DEF Unmanned
<1>1. (\A c \in Card : card[c] = "none") /\ (\A w \in Worker : pc[w] = "idle")
  BY DEF Unmanned
<1>2. CASE Cards
  <2>1. {d \in Card : card[d] # "none"} = {}
    BY <1>1
  <2>2. \A c \in Card : ~Propose(c)
    BY <2>1, FS_EmptySet DEF Propose
  <2>3. \A c \in Card, s \in {"held", "expired"} : ~Decline(c, s)
    BY <1>1 DEF Decline
  <2> QED BY <1>2, <2>2, <2>3 DEF Cards
<1>3. CASE Venue \/ Crash \/ UNCHANGED vars
  BY <1>1, <1>3 DEF Venue, Arrive, Vanish, SellShare, OrderEnds, vars, task, desk, Crash, Proc
<1>4. ASSUME NEW p \in Proc, StepOf(p)
      PROVE  (\A c \in Card : card'[c] = "none") /\ (\A w \in Worker : pc'[w] = "idle")
  <2>1. p = Rec /\ \A w \in Worker : pc'[w] = "idle"
    BY <1>1, <1>4, OnlyThePassMoves, Awake, NameAssumption DEF Alone, Proc
  <2>2. SellShares(Rec) \/ PlaceStop(Rec) \/ Pass
    BY <1>4, <2>1, NameAssumption DEF StepOf
  <2>3. CASE SellShares(Rec)
    <3>1. Sound(Rec, pc[Rec], job[Rec]) /\ Rec \in Proc
      BY JobTyped DEF Proc
    <3>2. card' = card
      BY <2>3, <3>1 DEF SellShares, SaleLocated, SaleNotLocated, FreeShares, SaleBlocked, ClaimSale, SaleAccepted,
                        SaleRefused, SaleUnknown, FillGivesUp, ResumeFlat, CreateFlat, FlatFilled, Return, desk,
                        Sound, SalePc
    <3> QED BY <1>1, <2>1, <3>2
  <2>4. CASE PlaceStop(Rec)
    <3>1. card' = card
      BY <2>4 DEF PlaceStop, VerifyStop, StopRaises, ResumeStop, CreateStop, AdoptStop, RetireStop, SendStop,
                  StopAccepted, StopRefused, StopUnknown, StopNotFound, desk
    <3> QED BY <1>1, <2>1, <3>1
  <2>5. CASE Pass
    <3>1. card' = card \/ card' = [c \in Card |-> IF card[c] = "approving"
                                  THEN IF row' = "closed" THEN "sold" ELSE "awaiting" ELSE card[c]]
      BY <2>5 DEF Pass, StartPass, RetireUnsent, LocateIntent, IntentUnknown, IntentSettledMeanwhile, IntentUnmoved,
                IntentMoves, AbsorbIntent, ReadPositions, PassFails, RepairBook, ListOrders, SizeProtection,
                FreeStop, StopFilledMeanwhile, CancelExcess, EndPass, FinishCards, desk
    <3> QED BY <1>1, <2>1, <3>1, SMTT(40)
  <2> QED BY <2>2, <2>3, <2>4, <2>5
<1> QED BY <1>2, <1>3, <1>4, WhoseStep

(* One stop of the position is unresolved at most, and whoever has one in    *)
(* hand has one that was created.                                           *)
OneStop == \A s, t \in StopSlot : st[s] \in Unresolved /\ st[t] \in Unresolved => s = t
InHand  == \A p \in Proc : pc[p] \in StopPc => st[job[p].stop] # "none"
Stops   == OneStop /\ InHand

(* No stop is forgotten, none comes back.                                    *)
Stall == \A s \in StopSlot : /\ st'[s] = "none" => st[s] = "none"
                             /\ st'[s] \in Unresolved => st[s] \in Unresolved

(* A step that brings no stop back, and takes up none that was not created.  *)
LEMMA StopsStall ==
  ASSUME ExitInv, Stops, [Next]_vars, Stall, NEW p \in Proc, Alone(p),
         pc'[p] \in StopPc => st[job'[p].stop] # "none"
  PROVE  Stops'
<1>1. OneStop'
  BY DEF Stops, OneStop, Stall
<1>2. ExitInv'
  BY StepKeeps
<1>3. \A q \in Proc : pc'[q] \in StopPc => job'[q].stop \in StopSlot
  BY <1>2 DEF ExitInv, Seats, AllSound, Sound
<1>4. ASSUME NEW q \in Proc, pc'[q] \in StopPc PROVE st'[job'[q].stop] # "none"
  <2>1. st[job'[q].stop] # "none"
    BY <1>4 DEF Stops, InHand, Alone
  <2> QED BY <1>3, <1>4, <2>1 DEF Stall
<1> QED BY <1>1, <1>4 DEF Stops, InHand

(* One status moves: a stop's only from unresolved to unresolved, or to an   *)
(* end.                                                                     *)
LEMMA StallOne ==
  ASSUME ExitInv, NEW i, NEW s, SetStatus(i, s),
         i \in StopSlot => (s = "none" => st[i] = "none") /\ (s \in Unresolved => st[i] \in Unresolved)
  PROVE  Stall
BY DEF SetStatus, Stall, ExitInv, Lots, LotsTyped, Slot

(* No end is unresolved.                                                     *)
LEMMA Ended ==
  /\ {Filled, Canceled, Rejected, Expired} = Terminal /\ Unresolved \intersect Terminal = {}
  /\ "none" \notin Unresolved \union Terminal
  /\ {Created, Submitting, Submitted, Acknowledged, PartiallyFilled, CancelPending, Unknown} = Unresolved
  /\ Created \notin {Submitting, Submitted, Acknowledged, PartiallyFilled, CancelPending, Unknown}
  /\ Submitting # Unknown
BY DEF Unresolved, Terminal, Filled, Canceled, Rejected, Expired, Created, Submitting, Submitted, Acknowledged,
       PartiallyFilled, CancelPending, Unknown

(* What the machine allows of an intent.                                     *)
LEMMA Allowed ==
  ASSUME NEW s \in IntentStatus
  PROVE  /\ CanTransition(s, Submitted) => s \in {Submitting, Unknown}
         /\ s \in {Created, Submitting} => ~CanTransition(s, Canceled)
         /\ s \in {Created, Submitting, Unknown} => ~CanTransition(s, CancelPending)
         /\ CanTransition(Created, Rejected)
         /\ s \in Terminal => \A t : ~CanTransition(s, t)
         /\ s \in Unresolved \union Terminal
BY DEF IntentStatus, Unresolved, Terminal, CanTransition, AllowedTransitions, Filled, Canceled, Rejected, Expired,
       Created, Submitting, Submitted, Acknowledged, PartiallyFilled, CancelPending, Unknown

(* decide_exit leaves stops and emergency closes alone.                      *)
LEMMA DecideSpares ==
  ASSUME ExitInv, NEW w \in Worker, DecideExit(w)
  PROVE  /\ \A i \in StopSlot \union FlatSlot : st'[i] = st[i] /\ ord'[i] = ord[i]
         /\ wire' = wire /\ pc'[w] \notin StopPc
         /\ pc'[w] \in SalePc => job'[w].then = "none"
<1> DEFINE b == job[w]
<1>1. /\ pc \in [Proc -> ExitPc] /\ job \in [Proc -> Job] /\ b \in Job /\ Sound(w, pc[w], b) /\ w \in Proc /\ w # Rec
      /\ \A i \in StopSlot \union FlatSlot : i \notin ExitSlot
      /\ st \in [Slot -> IntentStatus \union {"none"}] /\ ord \in [Slot -> OrderState]
  BY JobTyped, SlotAssumption, NameAssumption DEF ExitInv, Seats, SeatsTyped, Proc, Lots, LotsTyped
<1>2. \A i \in StopSlot \union FlatSlot : i # b.sale
  BY <1>1, SlotAssumption DEF Sound, Slot
<1>3. CASE (\E c \in Card : Sell(w, c)) \/ GateRefuses(w) \/ AlreadyFlat(w) \/ ListingFails(w) \/ ExitFilled(w)
           \/ ExitPending(w) \/ FinishExit(w) \/ FinishPartial(w) \/ ExitUnfilled(w)
  <2>1. ord' = ord /\ wire' = wire
    BY <1>3 DEF Sell, GateRefuses, AlreadyFlat, ListingFails, ExitFilled, ExitPending, FinishExit, FinishPartial,
                ExitUnfilled, venue
  <2>2. st' = st \/ \E s : st' = [st EXCEPT ![b.sale] = s]
    BY <1>3 DEF Sell, GateRefuses, AlreadyFlat, ListingFails, ExitFilled, ExitPending, FinishExit, FinishPartial,
                ExitUnfilled, intents, SetStatus, Note
  <2>3. \E l \in {"idle", "refused", "listing", "applied", "return", "verifystop"} : Goto(w, l)
    BY <1>3 DEF Sell, GateRefuses, AlreadyFlat, ListingFails, ExitFilled, ExitPending, FinishExit, FinishPartial,
                ExitUnfilled, Leave, Take
  <2>4. pc'[w] \notin StopPc \union SalePc
    BY <1>1, <2>3 DEF Goto, StopPc, SalePc
  <2>5. \A i \in StopSlot \union FlatSlot : i \in Slot /\ i # b.sale
    BY <1>2 DEF Slot
  <2> HIDE DEF b
  <2>6. \A i \in StopSlot \union FlatSlot : st'[i] = st[i]
    BY <1>1, <2>2, <2>5
  <2> QED BY <2>1, <2>4, <2>6
<1>4. CASE AdoptExit(w)
  <2>1. UNCHANGED <<st, ord, wire>> /\ pc[w] = "listing"
    BY <1>4 DEF AdoptExit, intents, venue
  <2>2. PICK i : Take(w, IF MayResubmit(st[i]) THEN "freeing" ELSE "locating",
                      [b EXCEPT !.sale = i, !.copy = applied[i], !.stop = rowStop, !.lot = rowQty])
    BY <1>4 DEF AdoptExit
  <2> DEFINE l == IF MayResubmit(st[i]) THEN "freeing" ELSE "locating"
  <2>6. l \in {"freeing", "locating"} /\ Take(w, l, Adopting(b, i, applied[i], rowStop, rowQty))
    BY <2>2 DEF Adopting
  <2> HIDE DEF l
  <2>3. pc'[w] = l /\ job'[w] = Adopting(b, i, applied[i], rowStop, rowQty)
    BY <1>1, <2>6 DEF Take, Goto
  <2>4. Adopting(b, i, applied[i], rowStop, rowQty).then = b.then
    BY <1>1 DEF Job, Adopting
  <2>5. b.then = "none"
    BY <1>1, <2>1 DEF Sound, PlainPc, DecidePc
  <2> QED BY <2>1, <2>3, <2>4, <2>5, <2>6 DEF StopPc
<1>5. CASE CreateExit(w)
  <2>1. /\ wire' = wire /\ pc[w] = "listing" /\ Fresh(ExitSlot) \in ExitSlot
        /\ Take(w, "freeing", Creating(b, Fresh(ExitSlot), rowStop, rowQty))
        /\ \E q : CreateIntent(Fresh(ExitSlot), q)
    BY <1>5 DEF CreateExit, Creating, Fresh
  <2>2. pc'[w] = "freeing" /\ job'[w] = Creating(b, Fresh(ExitSlot), rowStop, rowQty)
    BY <1>1, <2>1 DEF Take, Goto
  <2>3. Creating(b, Fresh(ExitSlot), rowStop, rowQty).then = b.then
    BY <1>1 DEF Job, Creating
  <2>4. b.then = "none"
    BY <1>1, <2>1 DEF Sound, PlainPc, DecidePc
  <2>5. \A i \in StopSlot \union FlatSlot : st'[i] = st[i] /\ ord'[i] = ord[i]
    BY <1>1, <2>1 DEF CreateIntent, SetStatus
  <2> QED BY <2>1, <2>2, <2>3, <2>4, <2>5 DEF StopPc
<1> QED BY <1>3, <1>4, <1>5 DEF DecideExit

(* A sale leaves the stops' intents alone, and cancels their orders at most; *)
(* where it is an exit's, it leaves the emergency closes alone too.          *)
LEMMA SaleSpares ==
  ASSUME ExitInv, NEW p \in Proc, SellShares(p)
  PROVE  /\ \A i \in StopSlot : st'[i] = st[i] /\ (i \in wire' <=> i \in wire) /\ ord'[i] \in {ord[i], "canceled"}
         /\ pc'[p] \notin StopPc
         /\ pc[p] \in SalePc /\ job[p].then = "none" =>
              /\ \A i \in FlatSlot : st'[i] = st[i] /\ (i \in wire' <=> i \in wire) /\ ord'[i] \in {ord[i], "canceled"}
              /\ pc'[p] \in SalePc => job'[p].then = "none"
<1> DEFINE b == job[p]
           h == Hand(p)
<1>1. /\ pc \in [Proc -> ExitPc] /\ job \in [Proc -> Job] /\ b \in Job /\ Sound(p, pc[p], b)
      /\ st \in [Slot -> IntentStatus \union {"none"}] /\ ord \in [Slot -> OrderState]
      /\ \A i \in StopSlot : i \notin ExitSlot \union FlatSlot \union {NoSlot}
      /\ \A i \in FlatSlot : i \notin ExitSlot \union {NoSlot}
      /\ \A i \in StopSlot \union FlatSlot : i \in Slot
  BY JobTyped, SlotAssumption DEF ExitInv, Seats, SeatsTyped, Lots, LotsTyped, Slot
<1>2. CASE SaleLocated(p) \/ SaleNotLocated(p) \/ SaleBlocked(p) \/ ClaimSale(p) \/ SaleAccepted(p)
           \/ SaleRefused(p) \/ SaleUnknown(p) \/ FillGivesUp(p)
  <2>1. pc[p] \in SalePc
    BY <1>2 DEF SaleLocated, SaleNotLocated, SaleBlocked, ClaimSale, SaleAccepted, SaleRefused, SaleUnknown,
                FillGivesUp, SalePc
  <2>2. h \in ExitSlot \union FlatSlot /\ (b.then = "none" => h \in ExitSlot)
    BY <2>1, HandKnown
  <2>3. st' = st \/ \E s : st' = [st EXCEPT ![h] = s]
    BY <1>2 DEF SaleLocated, SaleNotLocated, SaleBlocked, ClaimSale, SaleAccepted, SaleRefused, SaleUnknown,
                FillGivesUp, SetStatus, intents
  <2>4. wire' = wire \/ wire' = wire \union {h}
    BY <1>2 DEF SaleLocated, SaleNotLocated, SaleBlocked, ClaimSale, SaleAccepted, SaleRefused, SaleUnknown,
                FillGivesUp, venue
  <2>5. ord' = ord
    BY <1>2 DEF SaleLocated, SaleNotLocated, SaleBlocked, ClaimSale, SaleAccepted, SaleRefused, SaleUnknown,
                FillGivesUp, venue
  <2>6. \E l \in {"idle", "return"} \union SalePc : Goto(p, l) /\ (l \in SalePc => job' = job)
    BY <1>2 DEF SaleLocated, SaleNotLocated, SaleBlocked, ClaimSale, SaleAccepted, SaleRefused, SaleUnknown,
                FillGivesUp, Leave, Take, SalePc
  <2>7. pc'[p] \notin StopPc /\ (pc'[p] \in SalePc => job' = job)
    BY <1>1, <2>6 DEF Goto, StopPc, SalePc
  <2> HIDE DEF b, h
  <2>8. \A i \in StopSlot : st'[i] = st[i] /\ (i \in wire' <=> i \in wire)
    BY <1>1, <2>2, <2>3, <2>4
  <2>9. b.then = "none" => \A i \in FlatSlot : st'[i] = st[i] /\ (i \in wire' <=> i \in wire)
    BY <1>1, <2>2, <2>3, <2>4
  <2> QED BY <2>5, <2>7, <2>8, <2>9 DEF b
<1>3. CASE FreeShares(p)
  <2>1. /\ UNCHANGED <<st, wire, job>> /\ Goto(p, "verifying")
        /\ \E S : Freed(S)
    BY <1>3 DEF FreeShares, intents
  <2>2. \A i \in Slot : ord'[i] \in {ord[i], "canceled"}
    BY <2>1 DEF Freed
  <2>3. pc'[p] = "verifying"
    BY <1>1, <2>1 DEF Goto
  <2> QED BY <1>1, <2>1, <2>2, <2>3 DEF StopPc
<1>4. CASE ResumeFlat(p)
  <2>1. UNCHANGED <<st, wire, ord>> /\ Goto(p, "locating") /\ pc[p] = "flat"
    BY <1>4 DEF ResumeFlat, intents, venue, Take
  <2> QED BY <1>1, <2>1 DEF Goto, StopPc, SalePc
<1>5. CASE CreateFlat(p)
  <2>1. /\ wire' = wire /\ pc[p] = "flat" /\ Fresh(FlatSlot) \in FlatSlot
        /\ Goto(p, "freeing") /\ \E q : CreateIntent(Fresh(FlatSlot), q)
    BY <1>5 DEF CreateFlat, Take, Fresh
  <2>2. \A i \in StopSlot : st'[i] = st[i] /\ ord'[i] = ord[i]
    BY <1>1, <2>1 DEF CreateIntent, SetStatus
  <2> QED BY <1>1, <2>1, <2>2 DEF Goto, StopPc, SalePc
<1>6. CASE FlatFilled(p)
  <2>1. b.then # "none" /\ pc[p] \in SalePc /\ Goto(p, "return") /\ UNCHANGED <<wire, ord>>
        /\ \E s : st' = [st EXCEPT ![b.flat] = s]
    BY <1>6 DEF FlatFilled, FinalRecord, SalePc, Note, SetStatus, venue
  <2>2. b.flat \in FlatSlot
    BY <1>1, <2>1 DEF Sound
  <2> QED BY <1>1, <2>1, <2>2 DEF Goto, StopPc, SalePc
<1>7. CASE Return(p)
  <2>1. /\ UNCHANGED <<wire, ord>> /\ pc[p] = "return" /\ \E l \in {"idle", "excess"} : Goto(p, l)
        /\ st' = st \/ (p # Rec /\ \E s : st' = [st EXCEPT ![b.sale] = s])
    BY <1>7 DEF Return, SetStatus, venue, Leave, Take
  <2>2. p # Rec => b.sale \in ExitSlot \union {NoSlot}
    BY <1>1 DEF Sound
  <2> QED BY <1>1, <2>1, <2>2 DEF Goto, StopPc, SalePc
<1> QED BY <1>2, <1>3, <1>4, <1>5, <1>6, <1>7 DEF SellShares

(* Placing a stop brings none back: a new one is created where none is       *)
(* unresolved, and what is taken up was created.                             *)
LEMMA StopsOfPlace ==
  ASSUME ExitInv, Stops, [Next]_vars, NEW p \in Proc, PlaceStop(p)
  PROVE  Stops'
<1> DEFINE b == job[p]
           i == b.stop
<1>1. /\ pc \in [Proc -> ExitPc] /\ job \in [Proc -> Job] /\ b \in Job /\ Sound(p, pc[p], b)
      /\ st \in [Slot -> IntentStatus \union {"none"}]
      /\ \A s \in StopSlot : s \in Slot
  BY JobTyped DEF ExitInv, Seats, SeatsTyped, Lots, LotsTyped, Slot
<1>2. Alone(p)
  BY Awake DEF StepOf
<1>3. pc[p] \in StopPc => i \in StopSlot /\ st[i] \in IntentStatus
  <2>1. pc[p] \in StopPc => i \in StopSlot /\ st[i] # "none"
    BY <1>1 DEF Sound, Stops, InHand
  <2> QED BY <1>1, <2>1
<1>4. CASE VerifyStop(p) \/ StopRaises(p) \/ StopNotFound(p)
  <2>1. st' = st /\ \E l \in {"stop", "idle", "flat"} : Goto(p, l)
    BY <1>4 DEF VerifyStop, StopRaises, StopNotFound, intents, Leave, Take
  <2>2. Stall /\ pc'[p] \notin StopPc
    BY <1>1, <2>1 DEF Stall, Goto, StopPc
  <2> QED BY <1>2, <2>2, StopsStall
<1>5. CASE ResumeStop(p)
  <2>1. PICK s \in StopSlot : st[s] \in Unresolved /\ \E l : Take(p, l, Holding(b, s))
    BY <1>5 DEF ResumeStop, ResumesStop, Holding
  <2>2. job'[p] = Holding(b, s) /\ Holding(b, s).stop = s
    BY <1>1, <2>1, PatchHolding DEF Take
  <2>3. Stall
    BY <1>5 DEF Stall, ResumeStop, intents
  <2> QED BY <1>2, <2>1, <2>2, <2>3, StopsStall, Ended
<1>6. CASE CreateStop(p)
  <2> DEFINE s == Fresh(StopSlot)
  <2>1. /\ s \in StopSlot /\ st' = [st EXCEPT ![s] = Created] /\ \A k \in StopSlot : st[k] \notin Unresolved
        /\ Take(p, "stopsend", Holding(b, s))
    BY <1>6 DEF CreateStop, CreateIntent, SetStatus, Fresh, ResumesStop, Holding
  <2> HIDE DEF s
  <2>2. job'[p] = Holding(b, s) /\ Holding(b, s).stop = s
    BY <1>1, <2>1, PatchHolding DEF Take
  <2>3. OneStop'
    BY <1>1, <2>1 DEF OneStop
  <2>4. ExitInv'
    BY StepKeeps
  <2>5. \A q \in Proc : pc'[q] \in StopPc => job'[q].stop \in StopSlot
    BY <2>4 DEF ExitInv, Seats, AllSound, Sound
  <2>6. ASSUME NEW q \in Proc, pc'[q] \in StopPc PROVE st'[job'[q].stop] # "none"
    <3>1. CASE q = p
      BY <1>1, <2>1, <2>2, <3>1, Ended
    <3>2. CASE q # p
      <4>1. st[job'[q].stop] # "none"
        BY <1>2, <2>6, <3>2 DEF Alone, Stops, InHand
      <4> QED BY <1>1, <2>1, <2>5, <2>6, <4>1, Ended
    <3> QED BY <3>1, <3>2
  <2> QED BY <2>3, <2>6 DEF Stops, InHand
<1>7. CASE AdoptStop(p) \/ RetireStop(p) \/ SendStop(p) \/ StopAccepted(p) \/ StopRefused(p) \/ StopUnknown(p)
  <2>1. pc[p] \in StopPc
    BY <1>7 DEF AdoptStop, RetireStop, SendStop, StopAccepted, StopRefused, StopUnknown, StopPc
  <2>2. Stall
    <3>1. \/ st' = st
          \/ SetStatus(i, Submitting) /\ st[i] = Created
          \/ SetStatus(i, Submitted) /\ (st[i] \in {Submitting, Unknown} \/ CanTransition(st[i], Submitted))
          \/ SetStatus(i, st[i])
          \/ SetStatus(i, SafeTransition(st[i], Canceled))
          \/ SetStatus(i, Rejected)
          \/ SetStatus(i, MarkUnknown(st[i]))
      BY <1>7 DEF AdoptStop, RetireStop, SendStop, StopAccepted, StopRefused, StopUnknown
    <3>2. st[i] \in IntentStatus
      BY <1>3, <2>1
    <3>3. st[i] \in Unresolved \/ st[i] \in Terminal
      BY <3>2, Allowed
    <3>4. \E s : /\ st' = st \/ SetStatus(i, s)
                 /\ s # "none" /\ (s \in Unresolved => st[i] \in Unresolved)
      BY <3>1, <3>2, <3>3, Allowed, Ended DEF SafeTransition, MarkUnknown
    <3> HIDE DEF i
    <3>5. PICK s : /\ st' = st \/ SetStatus(i, s)
                   /\ s # "none" /\ (s \in Unresolved => st[i] \in Unresolved)
      BY <3>4
    <3>6. st' = st => Stall
      BY DEF Stall
    <3> QED BY <3>5, <3>6, StallOne
  <2>3. pc'[p] \in StopPc => job'[p] = b
    <3>1. job' = job \/ \E l \in {"idle", "restop", "flat"} : Goto(p, l)
      BY <1>7 DEF AdoptStop, RetireStop, SendStop, StopAccepted, StopRefused, StopUnknown, Leave, Take
    <3> QED BY <1>1, <3>1 DEF Goto, StopPc
  <2> QED BY <1>2, <1>3, <2>1, <2>2, <2>3, Allowed, Ended, StopsStall
<1> QED BY <1>4, <1>5, <1>6, <1>7 DEF PlaceStop

(* The pass brings no stop back.                                             *)
LEMMA StallOfPass ==
  ASSUME ExitInv, Pass
  PROVE  Stall
<1> DEFINE i == job[Rec].sale
           f == job[Rec].rec
<1>1. CASE StartPass \/ (\E k \in Slot : LocateIntent(k)) \/ IntentSettledMeanwhile \/ ReadPositions \/ PassFails
           \/ RepairBook \/ ListOrders \/ SizeProtection \/ StopFilledMeanwhile \/ EndPass
  <2>1. st' = st
    BY <1>1 DEF StartPass, LocateIntent, IntentSettledMeanwhile, ReadPositions, PassFails, RepairBook, ListOrders,
                SizeProtection, StopFilledMeanwhile, EndPass, intents
  <2> QED BY <2>1 DEF Stall
<1>2. ASSUME NEW k \in Slot, RetireUnsent(k) PROVE Stall
  <2>1. SetStatus(k, TransitionFrom(st[k], Created, Rejected))
    BY <1>2 DEF RetireUnsent
  <2>2. TransitionFrom(st[k], Created, Rejected) \in {st[k], Rejected} /\ Rejected \notin Unresolved \union {"none"}
    BY Ended DEF TransitionFrom
  <2> DEFINE s == TransitionFrom(st[k], Created, Rejected)
  <2> HIDE DEF s
  <2> QED BY <2>1, <2>2, StallOne DEF s
<1>3. CASE IntentUnknown
  <2>1. SetStatus(i, TransitionFrom(st[i], snap[i], Unknown)) /\ pc[Rec] = "located"
    BY <1>3 DEF IntentUnknown
  <2>2. i \in Slot /\ snap[i] \in Unresolved
    BY <2>1, IntentKnown DEF ExitInv, PassTyped
  <2> DEFINE s == TransitionFrom(st[i], snap[i], Unknown)
  <2>3. s = st[i] \/ (s = Unknown /\ st[i] \in Unresolved)
    BY <2>2 DEF TransitionFrom
  <2> HIDE DEF s, i
  <2> QED BY <2>1, <2>3, StallOne, Ended DEF s
<1>4. CASE IntentUnmoved \/ AbsorbIntent
  <2>1. SetStatus(i, st[i]) \/ SetStatus(i, Canceled)
    BY <1>4 DEF IntentUnmoved, AbsorbIntent, FinishCards
  <2> HIDE DEF i
  <2> QED BY <2>1, StallOne, Ended
<1>5. CASE IntentMoves
  <2> DEFINE t == IntentStatusFor(f.st, f.qty)
  <2>1. (SetStatus(i, t) \/ SetStatus(i, Unknown)) /\ st[i] \in Unresolved
    BY <1>5 DEF IntentMoves
  <2>2. t \in IntentStatus /\ "none" \notin IntentStatus
    BY RecordStatus, Statuses
  <2> HIDE DEF i, t
  <2> QED BY <2>1, <2>2, StallOne, Ended
<1>6. CASE FreeStop
  <2> DEFINE k == job[Rec].stop
  <2>1. SetStatus(k, SafeTransition(st[k], Canceled))
    BY <1>6 DEF FreeStop
  <2>2. SafeTransition(st[k], Canceled) \in {st[k], Canceled}
    BY DEF SafeTransition
  <2> DEFINE s == SafeTransition(st[k], Canceled)
  <2> HIDE DEF s, k
  <2> QED BY <2>1, <2>2, StallOne, Ended DEF s
<1>7. CASE CancelExcess
  <2>1. PICK k \in rest : SetStatus(k, IF st[k] \in Unresolved THEN SafeTransition(st[k], Canceled) ELSE st[k])
                          \/ st' = st
    BY <1>7 DEF CancelExcess
  <2> DEFINE s == IF st[k] \in Unresolved THEN SafeTransition(st[k], Canceled) ELSE st[k]
  <2>2. s \in {st[k], Canceled}
    BY DEF SafeTransition
  <2> HIDE DEF s
  <2>3. st' = st => Stall
    BY DEF Stall
  <2> QED BY <2>1, <2>2, <2>3, StallOne, Ended DEF s
<1> QED BY <1>1, <1>2, <1>3, <1>4, <1>5, <1>6, <1>7 DEF Pass

(* A stop is created only where none is unresolved, so one is at most.       *)
LEMMA StopsKeep ==
  ASSUME ExitInv, Stops, [Next]_vars
  PROVE  Stops'
<1>1. CASE Cards \/ Venue \/ UNCHANGED vars
  <2>1. UNCHANGED <<st, pc, job>>
    BY <1>1 DEF Cards, Propose, Decline, Venue, Arrive, Vanish, SellShare, OrderEnds, vars, task, intents
  <2> QED BY <2>1 DEF Stops, OneStop, InHand
<1>2. CASE Crash
  <2>1. st' = st /\ \A p \in Proc : pc'[p] = "idle"
    BY <1>2 DEF Crash, intents
  <2> QED BY <2>1 DEF Stops, OneStop, InHand, StopPc
<1>3. ASSUME NEW w \in Worker, DecideExit(w) PROVE Stops'
  <2>1. Stall /\ pc'[w] \notin StopPc /\ w \in Proc
    BY <1>3, DecideSpares DEF Stall, Proc
  <2>2. Alone(w)
    BY <1>3, <2>1, Awake DEF StepOf
  <2> QED BY <2>1, <2>2, StopsStall
<1>4. ASSUME NEW p \in Proc, SellShares(p) PROVE Stops'
  <2>1. Stall /\ pc'[p] \notin StopPc
    BY <1>4, SaleSpares DEF Stall
  <2>2. Alone(p)
    BY <1>4, Awake DEF StepOf
  <2> QED BY <2>1, <2>2, StopsStall
<1>5. CASE Pass
  <2>1. Stall /\ Rec \in Proc
    BY <1>5, StallOfPass DEF Proc
  <2>2. Alone(Rec)
    BY <1>5, <2>1, Awake DEF StepOf
  <2>3. pc'[Rec] \notin StopPc
    <3>1. \/ \E l \in {"idle", "intents", "located", "absorb", "book", "orders", "sizing", "excess", "resize", "stop",
                       "verifystop"} : Goto(Rec, l)
          \/ pc' = pc /\ pc[Rec] \in {"intents", "excess"}
      BY <1>5 DEF Pass, StartPass, RetireUnsent, LocateIntent, IntentUnknown, IntentSettledMeanwhile, IntentUnmoved,
                IntentMoves, AbsorbIntent, ReadPositions, PassFails, RepairBook, ListOrders, SizeProtection,
                FreeStop, StopFilledMeanwhile, CancelExcess, EndPass, NextIntent, Leave, Take, task
    <3> QED BY <2>1, <3>1, SMTT(40) DEF Goto, StopPc, ExitInv, Seats, SeatsTyped
  <2> QED BY <2>1, <2>2, <2>3, StopsStall
<1>6. ASSUME NEW p \in Proc, StepOf(p) PROVE Stops'
  BY <1>3, <1>4, <1>5, <1>6, StopsOfPlace DEF StepOf
<1> QED BY <1>1, <1>2, <1>6, WhoseStep

-----------------------------------------------------------------------------
(* An order that can still sell is tracked by its intent.                    *)

(* Stops and emergency closes: the sell orders the desk must not lose.       *)
Sellers == StopSlot \union FlatSlot

(* A resting order has an unresolved intent, and one on its way has an       *)
(* intent nobody can retire; of an emergency close, that may be unknown.     *)
Good(i) ==
  /\ Resting(i) => st[i] \in Unresolved
  /\ i \in wire => st[i] = Submitting \/ (i \in FlatSlot /\ st[i] = Unknown)

AllGood == \A i \in Sellers : Good(i)

(* Whoever is about to transmit an emergency close, and whoever did.         *)
Closer(p) == pc[p] \in {"freeing", "verifying"} /\ job[p].then # "none"
Sender(p) == pc[p] \in {"replying", "filling", "rereading"} /\ job[p].then # "none"

(* The close somebody is about to transmit is created and his alone.         *)
ClosesOwn == \A p \in Proc :
  /\ Closer(p) => st[job[p].flat] = Created /\ \A q \in Proc : q # p /\ Closer(q) => job[q].flat # job[p].flat
  /\ Sender(p) => st[job[p].flat] # Created

(* The pass waits for the answer on this order.                              *)
AwaitedByPass(i) ==
  \/ pc[Rec] = "stopreply" /\ job[Rec].stop = i
  \/ pc[Rec] = "replying" /\ job[Rec].flat = i

(* Where the pass runs, no order of ours is on its way unless it waits.      *)
Awaited ==
  /\ scene.cards = 0 => \A i \in Sellers : i \in wire => AwaitedByPass(i)
  /\ manual => \A i \in Sellers : i \notin wire

Tracked == OneStopper => AllGood /\ ClosesOwn /\ Awaited

(* The status and the order of one seller are as before, or it ended.        *)
LEMMA GoodSame ==
  ASSUME NEW i, Good(i), st'[i] = st[i], ord'[i] \in {ord[i], "canceled"}, i \in wire' => i \in wire
  PROVE  Good(i)'
BY DEF Good, Resting, VenueWorking

(* One status moves, nothing else.                                           *)
LEMMA GoodOne ==
  ASSUME ExitInv, AllGood, NEW i, NEW s, SetStatus(i, s), wire' = wire, ord' = ord,
         i \in Sellers => /\ Resting(i) => s \in Unresolved
                          /\ i \in wire => s = st[i] \/ (i \in FlatSlot /\ s = Unknown)
  PROVE  AllGood'
<1>1. st \in [Slot -> IntentStatus \union {"none"}] /\ Sellers \subseteq Slot
  BY DEF ExitInv, Lots, LotsTyped, Sellers, Slot
<1>2. ASSUME NEW k \in Sellers, k # i PROVE Good(k)'
  <2>1. st'[k] = st[k] /\ ord'[k] = ord[k]
    BY <1>1, <1>2 DEF SetStatus
  <2> QED BY <2>1, GoodSame DEF AllGood
<1>3. ASSUME NEW k \in Sellers, k = i PROVE Good(k)'
  <2>1. st'[k] = s /\ ord'[k] = ord[k] /\ Good(k)
    BY <1>1, <1>3 DEF SetStatus, AllGood
  <2> QED BY <1>3, <2>1 DEF Good, Resting
<1>4. ASSUME NEW k \in Sellers PROVE Good(k)'
  BY <1>2, <1>3
<1> QED BY <1>4 DEF AllGood, Sellers

(* A created intent is transmitted, or a vacant slot taken.                  *)
LEMMA GoodSent ==
  ASSUME ExitInv, AllGood, NEW i \in Sellers, st[i] = Created, SetStatus(i, Submitting),
         wire' = wire \union {i}, ord' = ord
  PROVE  AllGood'
<1>1. st \in [Slot -> IntentStatus \union {"none"}] /\ Sellers \subseteq Slot /\ Submitting \in Unresolved
  BY Ended DEF ExitInv, Lots, LotsTyped, Sellers, Slot
<1>2. ASSUME NEW k \in Sellers, k # i PROVE Good(k)'
  <2>1. st'[k] = st[k] /\ ord'[k] = ord[k] /\ (k \in wire' => k \in wire)
    BY <1>1, <1>2 DEF SetStatus
  <2> QED BY <2>1, GoodSame DEF AllGood
<1>3. Good(i)'
  <2>1. st'[i] = Submitting
    BY <1>1 DEF SetStatus
  <2> QED BY <1>1, <2>1 DEF Good
<1> QED BY <1>2, <1>3 DEF AllGood, Sellers

(* A new generation has no order yet.                                        *)
LEMMA GoodCreated ==
  ASSUME ExitInv, AllGood, NEW S, \E k \in S : Vacant(k), NEW q, CreateIntent(Fresh(S), q), wire' = wire
  PROVE  AllGood' /\ Fresh(S) \in S /\ Vacant(Fresh(S))
<1>1. Fresh(S) \in S /\ Vacant(Fresh(S))
  BY DEF Fresh
<1>2. PICK i : i = Fresh(S)
  OBVIOUS
<1>3. /\ st' = [st EXCEPT ![i] = Created] /\ ord' = [ord EXCEPT ![i] = "none"] /\ i \notin wire
  BY <1>1, <1>2 DEF CreateIntent, SetStatus, Vacant
<1>4. st \in [Slot -> IntentStatus \union {"none"}] /\ ord \in [Slot -> OrderState] /\ Sellers \subseteq Slot
  BY DEF ExitInv, Lots, LotsTyped, Sellers, Slot
<1>5. ASSUME NEW k \in Sellers, k # i PROVE Good(k)'
  <2>1. st'[k] = st[k] /\ ord'[k] = ord[k]
    BY <1>3, <1>4, <1>5
  <2> QED BY <2>1, GoodSame DEF AllGood
<1>6. ASSUME NEW k \in Sellers, k = i PROVE Good(k)'
  <2>1. ord'[k] = "none" /\ "none" \notin VenueWorking /\ k \notin wire
    BY <1>3, <1>4, <1>6 DEF VenueWorking
  <2> QED BY <2>1 DEF Good, Resting
<1>7. ASSUME NEW k \in Sellers PROVE Good(k)'
  BY <1>5, <1>6
<1>8. AllGood'
  BY <1>7 DEF AllGood, Sellers
<1> QED BY <1>1, <1>8

(* What is known of an order on the wire, or of one that rests.              *)
LEMMA OnTheWire ==
  ASSUME ExitInv, NEW i \in Slot
  PROVE  /\ i \in wire => ord[i] = "none" /\ sold[i] = 0 /\ st[i] # Created
         /\ Known(i) => i \notin wire /\ st[i] # Created
         /\ Resting(i) => Known(i) /\ st[i] # Created /\ sold[i] < asked[i]
         /\ st[i] = Created => ~Resting(i) /\ i \notin wire
         /\ ord[i] = "refused" => ~Resting(i) /\ i \notin wire /\ st[i] # Created
<1>1. Kept(i) /\ "none" \notin VenueWorking /\ "refused" \notin VenueWorking
  BY DEF ExitInv, Lots, AllKept, VenueWorking
<1> QED BY <1>1 DEF Kept, Resting, Known

(* Where nothing arrives late, whoever waits for an answer waits until its   *)
(* order's fate is known.                                                    *)
LEMMA AnswerFirst ==
  ASSUME ExitInv, "late" \notin scene.faults, NEW p \in Proc, StepOf(p)
  PROVE  /\ pc[p] = "stopreply" => job[p].stop \notin wire
         /\ pc[p] = "replying" => Hand(p) \notin wire
<1>1. ~(pc[p] \in {"stopreply", "replying"} /\ (p = Rec /\ Pass))
  BY DEF Pass, StartPass, RetireUnsent, LocateIntent, IntentUnknown, IntentSettledMeanwhile, IntentUnmoved,
         IntentMoves, AbsorbIntent, ReadPositions, PassFails, RepairBook, ListOrders, SizeProtection,
         FreeStop, StopFilledMeanwhile, CancelExcess, EndPass
<1>2. ~(pc[p] \in {"stopreply", "replying"} /\ DecideExit(p))
  BY DEF DecideExit, Sell, GateRefuses, AlreadyFlat, AdoptExit, CreateExit, ListingFails, ExitUnfilled,
         ExitFilled, ExitPending, FinishExit, ExitSold, FinishPartial, FinalRecord
<1>3. ASSUME pc[p] = "stopreply" PROVE job[p].stop \notin wire
  <2>1. ~SellShares(p)
    BY <1>3 DEF SellShares, SaleLocated, SaleNotLocated, FreeShares, SaleBlocked, ClaimSale, SaleAccepted, SaleRefused,
                SaleUnknown, FillGivesUp, ResumeFlat, CreateFlat, FlatFilled, Return, FinalRecord
  <2>2. StopAccepted(p) \/ StopRefused(p) \/ StopUnknown(p)
    BY <1>1, <1>2, <1>3, <2>1 DEF StepOf, PlaceStop, VerifyStop, StopRaises, ResumeStop, CreateStop, AdoptStop, RetireStop,
                SendStop, StopNotFound
  <2>3. job[p].stop \in Slot
    BY <1>3 DEF ExitInv, Seats, AllSound, Sound, StopPc, Slot
  <2>4. \/ Known(job[p].stop) \/ ord[job[p].stop] = "refused" \/ GivenUp(job[p].stop)
    BY <2>2 DEF StopAccepted, StopRefused, StopUnknown
  <2> QED BY <2>3, <2>4, OnTheWire DEF GivenUp
<1>4. ASSUME pc[p] = "replying" PROVE Hand(p) \notin wire
  <2>1. ~PlaceStop(p)
    BY <1>4 DEF PlaceStop, VerifyStop, StopRaises, ResumeStop, CreateStop, AdoptStop, RetireStop,
                SendStop, StopAccepted, StopRefused, StopUnknown, StopNotFound
  <2>2. SaleAccepted(p) \/ SaleRefused(p) \/ SaleUnknown(p)
    BY <1>1, <1>2, <1>4, <2>1 DEF StepOf, SellShares, SaleLocated, SaleNotLocated, FreeShares, SaleBlocked, ClaimSale,
                FillGivesUp, ResumeFlat, CreateFlat, FlatFilled, Return, FinalRecord
  <2>3. Hand(p) \in Slot
    BY <1>4, HandKnown DEF SalePc, Slot
  <2>4. \/ Known(Hand(p)) \/ ord[Hand(p)] = "refused" \/ GivenUp(Hand(p))
    BY <2>2 DEF SaleAccepted, SaleRefused, SaleUnknown
  <2> QED BY <2>3, <2>4, OnTheWire DEF GivenUp
<1> QED BY <1>3, <1>4

(* No order of ours is sent under the manual policy, and where only the pass *)
(* runs, it waits for the answer on what it sent.                            *)
LEMMA AwaitedKeeps ==
  ASSUME ExitInv, Unmanned, OneStopper, Awaited, [Next]_vars
  PROVE  Awaited'
<1>1. /\ scene'.cards = scene.cards /\ scene'.manual = scene.manual /\ "late" \notin scene.faults
  BY SceneStays DEF OneStopper
<1>2. ASSUME NEW i \in Sellers, i \in wire', i \notin wire
      PROVE  \E p \in Proc : /\ StepOf(p) /\ ~manual
                             /\ \/ pc'[p] = "stopreply" /\ job'[p].stop = i
                                \/ pc'[p] = "replying" /\ (p = Rec => job'[p].flat = i)
  <2>1. PICK p \in Proc : ClaimSale(p) \/ SendStop(p)
    BY <1>2, OnlyAClaimTransmits
  <2>2. pc \in [Proc -> ExitPc] /\ Sound(p, pc[p], job[p])
    BY JobTyped DEF ExitInv, Seats, SeatsTyped
  <2>3. CASE ClaimSale(p)
    <3>1. i = Hand(p) /\ pc[p] = "verifying" /\ Goto(p, "replying") /\ job' = job
      BY <1>2, <2>3 DEF ClaimSale
    <3>2. job[p].then # "none" /\ i = job[p].flat
      BY <1>2, <3>1, HandKnown, SlotAssumption DEF SalePc, Sellers
    <3>3. ~manual
      BY <2>2, <3>1, <3>2 DEF Sound
    <3> QED BY <2>2, <2>3, <3>1, <3>2, <3>3 DEF StepOf, SellShares, Goto
  <2>4. CASE SendStop(p)
    <3>1. i = job[p].stop /\ pc[p] = "stopsend" /\ Goto(p, "stopreply") /\ job' = job
      BY <1>2, <2>4 DEF SendStop
    <3>2. ~manual
      BY <2>2, <3>1 DEF Sound, CoverPc, StopPc
    <3> QED BY <2>2, <2>4, <3>1, <3>2 DEF StepOf, PlaceStop, Goto
  <2> QED BY <2>1, <2>3, <2>4
<1>3. ASSUME manual, NEW i \in Sellers PROVE i \notin wire'
  BY <1>2, <1>3 DEF Awaited
<1>4. ASSUME scene.cards = 0, NEW i \in Sellers, i \in wire' PROVE AwaitedByPass(i)'
  <2>1. CASE i \notin wire
    <3>1. PICK p \in Proc : /\ StepOf(p)
                            /\ \/ pc'[p] = "stopreply" /\ job'[p].stop = i
                               \/ pc'[p] = "replying" /\ (p = Rec => job'[p].flat = i)
      BY <1>2, <1>4, <2>1
    <3>2. p = Rec
      BY <1>4, <3>1, OnlyThePassMoves
    <3> QED BY <3>1, <3>2 DEF AwaitedByPass
  <2>2. CASE i \in wire
    <3>1. AwaitedByPass(i)
      BY <1>4, <2>2 DEF Awaited
    <3>2. CASE Cards \/ Venue \/ UNCHANGED vars
      BY <3>1, <3>2 DEF Cards, Propose, Decline, Venue, Arrive, Vanish, SellShare, OrderEnds, vars, task, AwaitedByPass
    <3>3. CASE Crash
      BY <1>1, <1>4, <2>2, <3>3 DEF Crash, GivenUp
    <3>4. ASSUME NEW p \in Proc, StepOf(p) PROVE FALSE
      <4>1. p = Rec
        BY <1>4, <3>4, OnlyThePassMoves
      <4>2. pc[p] = "replying" => Hand(p) = job[p].flat
        BY <4>1, HandKnown, NameAssumption DEF SalePc
      <4> QED BY <1>1, <2>2, <3>1, <3>4, <4>1, <4>2, AnswerFirst DEF AwaitedByPass
    <3> QED BY <3>2, <3>3, <3>4, WhoseStep
  <2> QED BY <2>1, <2>2
<1> QED BY <1>1, <1>3, <1>4 DEF Awaited, manual, Sellers

(* A sale keeps orders tracked: what retires an emergency close has seen its *)
(* order refused, or no order at all.                                        *)
LEMMA GoodOfSale ==
  ASSUME ExitInv, "late" \notin scene.faults, AllGood, ClosesOwn, NEW p \in Proc, SellShares(p)
  PROVE  AllGood'
<1> DEFINE b == job[p]
           i == Hand(p)
<1>1. /\ st \in [Slot -> IntentStatus \union {"none"}] /\ Sellers \subseteq Slot /\ StopSlot \subseteq Sellers
      /\ FlatSlot \subseteq Sellers /\ Sound(p, pc[p], b)
  BY JobTyped DEF ExitInv, Lots, LotsTyped, Sellers, Slot
<1>2. \A k \in StopSlot : Good(k)'
  BY <1>1, SaleSpares, GoodSame DEF AllGood
<1>3. CASE pc[p] \in SalePc /\ b.then = "none"
  <2>1. \A k \in FlatSlot : Good(k)'
    BY <1>1, <1>3, SaleSpares, GoodSame DEF AllGood
  <2> QED BY <1>2, <2>1 DEF AllGood, Sellers
<1>4. CASE ResumeFlat(p) \/ Return(p)
  <2>1. /\ UNCHANGED <<ord, wire>> /\ pc[p] \in {"flat", "return"}
        /\ st' = st \/ (p # Rec /\ \E s : st' = [st EXCEPT ![b.sale] = s])
    BY <1>4 DEF ResumeFlat, Return, SetStatus, venue, intents
  <2>2. p # Rec => b.sale \in ExitSlot \union {NoSlot}
    BY <1>1 DEF Sound
  <2>3. \A k \in FlatSlot : k \notin ExitSlot \union {NoSlot}
    BY SlotAssumption DEF Slot
  <2>4. \A k \in FlatSlot : st'[k] = st[k] /\ ord'[k] = ord[k] /\ (k \in wire' => k \in wire)
    BY <1>1, <2>1, <2>2, <2>3
  <2>5. \A k \in FlatSlot : Good(k)'
    BY <1>1, <2>4, GoodSame DEF AllGood
  <2> QED BY <1>2, <2>5 DEF AllGood, Sellers
<1>5. CASE CreateFlat(p)
  BY <1>5, GoodCreated DEF CreateFlat
<1>6. CASE pc[p] \in SalePc /\ b.then # "none"
  <2>1. /\ i \in FlatSlot /\ i = b.flat /\ i \in Sellers /\ i \in Slot /\ Good(i)
        /\ st[i] \in IntentStatus \union {"none"}
    BY <1>1, <1>6, HandKnown DEF AllGood
  <2>2. CASE SaleLocated(p) \/ FreeShares(p)
    <3>1. \A k \in Sellers : st'[k] = st[k] /\ ord'[k] \in {ord[k], "canceled"} /\ wire' = wire
      BY <1>1, <2>2 DEF SaleLocated, FreeShares, Freed, venue, intents
    <3> QED BY <3>1, GoodSame DEF AllGood, Sellers
  <2>3. CASE ClaimSale(p)
    <3>1. ord' = ord /\ \/ st[i] = Created /\ SetStatus(i, Submitting) /\ wire' = wire \union {i}
                        \/ UNCHANGED <<st, wire>>
      BY <2>3 DEF ClaimSale, SaleClaim
    <3>2. UNCHANGED <<st, wire>> => AllGood'
      BY <3>1, GoodSame DEF AllGood, Sellers
    <3> HIDE DEF i
    <3> QED BY <2>1, <3>1, <3>2, GoodSent
  <2>4. CASE SaleNotLocated(p) \/ SaleBlocked(p) \/ SaleAccepted(p) \/ SaleRefused(p) \/ SaleUnknown(p)
             \/ FillGivesUp(p) \/ FlatFilled(p)
    <3>1. UNCHANGED <<ord, wire>>
      BY <2>4 DEF SaleNotLocated, SaleBlocked, SaleAccepted, SaleRefused, SaleUnknown, FillGivesUp, FlatFilled, venue
    <3>2. \/ SetStatus(i, st[i])
          \/ SetStatus(i, MarkUnknown(st[i])) /\ (SaleNotLocated(p) \/ SaleUnknown(p))
          \/ SetStatus(i, SafeTransition(st[i], Rejected)) /\ pc[p] \in {"freeing", "verifying"}
          \/ SetStatus(i, Submitted) /\ Known(i)
          \/ SetStatus(i, Rejected) /\ ord[i] = "refused"
          \/ SetStatus(i, SafeTransition(st[i], CancelPending))
          \/ SetStatus(i, SafeTransition(st[i], FlatStatus(i))) /\ sold[i] > 0
      BY <1>6, <2>1, <2>4 DEF SaleNotLocated, SaleBlocked, SaleAccepted, SaleRefused, SaleUnknown, FillGivesUp,
                              FlatFilled, Note
    <3>3. pc[p] \in {"freeing", "verifying"} => st[i] = Created
      BY <1>6, <2>1 DEF ClosesOwn, Closer
    <3>4. sold[i] > 0 => i \notin wire
      BY <2>1, OnTheWire
    <3>5. Resting(i) => FlatStatus(i) = PartiallyFilled
      <4>1. sold[i] \in Nat /\ asked[i] \in Nat
        BY <2>1 DEF ExitInv, Lots, LotsTyped
      <4> QED BY <2>1, <4>1, OnTheWire DEF FlatStatus
    <3> DEFINE OK(s) == /\ Resting(i) => s \in Unresolved
                        /\ i \in wire => s = st[i] \/ s = Unknown
    <3>6. OK(st[i]) /\ OK(MarkUnknown(st[i]))
      BY <2>1, Ended DEF Good, MarkUnknown
    <3>7. st[i] = Created => OK(SafeTransition(st[i], Rejected))
      BY <2>1, OnTheWire
    <3>8. Known(i) => OK(Submitted)
      BY <2>1, OnTheWire, Ended
    <3>9. ord[i] = "refused" => OK(Rejected)
      BY <2>1, OnTheWire
    <3>10. OK(SafeTransition(st[i], CancelPending))
      <4>1. i \in wire => st[i] \in {Submitting, Unknown} /\ st[i] \in IntentStatus
        BY <2>1, Ended, Statuses DEF Good
      <4>2. i \in wire => SafeTransition(st[i], CancelPending) = st[i]
        BY <4>1, Allowed DEF SafeTransition
      <4> QED BY <2>1, <4>2, Ended DEF Good, SafeTransition
    <3>11. sold[i] > 0 => OK(SafeTransition(st[i], FlatStatus(i)))
      BY <2>1, <3>4, <3>5, Ended DEF Good, SafeTransition
    <3>12. \E s : SetStatus(i, s) /\ OK(s)
      BY <3>2, <3>3, <3>6, <3>7, <3>8, <3>9, <3>10, <3>11
    <3> HIDE DEF i
    <3> QED BY <2>1, <3>1, <3>12, GoodOne DEF OK
  <2>5. ~CreateFlat(p) /\ ~ResumeFlat(p) /\ ~Return(p)
    BY <1>6 DEF CreateFlat, ResumeFlat, Return, SalePc
  <2> QED BY <2>2, <2>3, <2>4, <2>5 DEF SellShares
<1>7. pc[p] \in SalePc \/ ResumeFlat(p) \/ CreateFlat(p) \/ Return(p)
  BY DEF SellShares, SaleLocated, SaleNotLocated, FreeShares, SaleBlocked, ClaimSale, SaleAccepted, SaleRefused,
         SaleUnknown, FillGivesUp, FlatFilled, FinalRecord, SalePc
<1> QED BY <1>3, <1>4, <1>5, <1>6, <1>7

(* Placing a stop keeps orders tracked: what retires its intent has seen its *)
(* order dead.                                                               *)
LEMMA GoodOfPlace ==
  ASSUME ExitInv, "late" \notin scene.faults, AllGood, Stops, NEW p \in Proc, PlaceStop(p)
  PROVE  AllGood'
<1> DEFINE b == job[p]
           i == b.stop
<1>1. /\ st \in [Slot -> IntentStatus \union {"none"}] /\ Sellers \subseteq Slot /\ StopSlot \subseteq Sellers
      /\ FlatSlot \subseteq Sellers /\ Sound(p, pc[p], b)
  BY JobTyped DEF ExitInv, Lots, LotsTyped, Sellers, Slot
<1>2. CASE VerifyStop(p) \/ StopRaises(p) \/ ResumeStop(p) \/ StopNotFound(p)
  <2>1. UNCHANGED <<st, ord, wire>>
    BY <1>2 DEF VerifyStop, StopRaises, ResumeStop, StopNotFound, venue, intents
  <2> QED BY <2>1, GoodSame DEF AllGood, Sellers
<1>3. CASE CreateStop(p)
  BY <1>3, GoodCreated DEF CreateStop
<1>4. CASE AdoptStop(p) \/ RetireStop(p) \/ SendStop(p) \/ StopAccepted(p) \/ StopRefused(p) \/ StopUnknown(p)
  <2>1. pc[p] \in StopPc /\ ord' = ord
    BY <1>4 DEF AdoptStop, RetireStop, SendStop, StopAccepted, StopRefused, StopUnknown, StopPc, venue
  <2>2. i \in StopSlot /\ i \in Sellers /\ i \in Slot /\ Good(i) /\ i \notin FlatSlot /\ st[i] \in IntentStatus
    <3>1. i \in StopSlot /\ st[i] # "none"
      BY <1>1, <2>1 DEF Sound, Stops, InHand
    <3> QED BY <1>1, <3>1, SlotAssumption DEF AllGood
  <2>3. CASE SendStop(p)
    <3>1. \/ st[i] = Created /\ SetStatus(i, Submitting) /\ wire' = wire \union {i}
          \/ UNCHANGED <<st, wire>>
      BY <2>3 DEF SendStop
    <3>2. UNCHANGED <<st, wire>> => AllGood'
      BY <2>1, GoodSame DEF AllGood, Sellers
    <3> HIDE DEF i
    <3> QED BY <2>1, <2>2, <3>1, <3>2, GoodSent
  <2>4. CASE ~SendStop(p)
    <3> DEFINE OK(s) == /\ Resting(i) => s \in Unresolved
                        /\ i \in wire => s = st[i]
    <3>1. wire' = wire
      BY <1>4, <2>4 DEF AdoptStop, RetireStop, StopAccepted, StopRefused, StopUnknown, venue
    <3>2. \/ SetStatus(i, st[i]) \/ st' = st
          \/ SetStatus(i, Submitted) /\ (Resting(i) \/ Known(i))
          \/ SetStatus(i, SafeTransition(st[i], Canceled)) /\ ~Resting(i)
          \/ SetStatus(i, Rejected) /\ ord[i] = "refused"
          \/ SetStatus(i, MarkUnknown(st[i])) /\ GivenUp(i)
      BY <1>4, <2>4 DEF AdoptStop, RetireStop, StopAccepted, StopRefused, StopUnknown, LiveProtection
    <3>3. OK(st[i])
      BY <2>2 DEF Good
    <3>4. Resting(i) \/ Known(i) => OK(Submitted)
      BY <2>2, OnTheWire, Ended
    <3>5. ~Resting(i) => OK(SafeTransition(st[i], Canceled))
      BY <2>2, Allowed DEF Good, SafeTransition
    <3>6. ord[i] = "refused" => OK(Rejected)
      BY <2>2, OnTheWire
    <3>7. GivenUp(i) => OK(MarkUnknown(st[i]))
      BY <2>2, Ended DEF Good, GivenUp, MarkUnknown
    <3>8. st' = st => AllGood'
      BY <2>1, <3>1, GoodSame DEF AllGood, Sellers
    <3>9. st' = st \/ \E s : SetStatus(i, s) /\ OK(s)
      BY <3>2, <3>3, <3>4, <3>5, <3>6, <3>7
    <3> HIDE DEF i
    <3> QED BY <2>1, <3>1, <3>8, <3>9, GoodOne DEF OK
  <2> QED BY <2>3, <2>4
<1> QED BY <1>2, <1>3, <1>4 DEF PlaceStop

(* The pass retires what it saw dead, or never sent; what is on its way it   *)
(* would retire too, but nothing is.                                         *)
LEMMA GoodOfPass ==
  ASSUME ExitInv, AllGood, Pass, \A i \in Sellers : i \notin wire
  PROVE  AllGood'
<1> DEFINE i == job[Rec].sale
           f == job[Rec].rec
           OK(k, s) == k \in Sellers => (Resting(k) => s \in Unresolved)
<1>1. st \in [Slot -> IntentStatus \union {"none"}] /\ Sellers \subseteq Slot /\ wire' = wire
  BY DEF ExitInv, Lots, LotsTyped, Sellers, Slot, Pass, StartPass, RetireUnsent, LocateIntent, IntentUnknown,
         IntentSettledMeanwhile, IntentUnmoved, IntentMoves, AbsorbIntent, ReadPositions, PassFails, RepairBook,
         ListOrders, SizeProtection, FreeStop, StopFilledMeanwhile, CancelExcess, EndPass, venue
<1>2. \A k : OK(k, st[k]) /\ OK(k, Unknown)
  BY Ended DEF AllGood, Good
<1>3. ASSUME NEW k, NEW s, SetStatus(k, s), OK(k, s), ord' = ord PROVE AllGood'
  BY <1>1, <1>3, GoodOne
<1>4. CASE StartPass \/ (\E k \in Slot : LocateIntent(k)) \/ IntentSettledMeanwhile \/ ReadPositions \/ PassFails
           \/ RepairBook \/ ListOrders \/ SizeProtection \/ StopFilledMeanwhile \/ EndPass
  <2>1. UNCHANGED <<st, ord>>
    BY <1>4 DEF StartPass, LocateIntent, IntentSettledMeanwhile, ReadPositions, PassFails, RepairBook, ListOrders,
                SizeProtection, StopFilledMeanwhile, EndPass, intents, venue
  <2> QED BY <1>1, <2>1, GoodSame DEF AllGood, Sellers
<1>5. ASSUME NEW k \in Slot, RetireUnsent(k) PROVE AllGood'
  <2>1. SetStatus(k, TransitionFrom(st[k], Created, Rejected)) /\ ord' = ord
    BY <1>5 DEF RetireUnsent, venue
  <2>2. OK(k, TransitionFrom(st[k], Created, Rejected))
    BY <1>2, OnTheWire DEF TransitionFrom
  <2> QED BY <1>3, <2>1, <2>2
<1>6. CASE IntentUnknown
  <2>1. SetStatus(i, TransitionFrom(st[i], snap[i], Unknown)) /\ ord' = ord
    BY <1>6 DEF IntentUnknown, venue
  <2>2. OK(i, TransitionFrom(st[i], snap[i], Unknown))
    BY <1>2 DEF TransitionFrom
  <2> QED BY <1>3, <2>1, <2>2
<1>7. pc[Rec] \in {"located", "absorb"} => i \in Slot /\ (f.st \in VenueDone => ~Resting(i))
  BY IntentKnown DEF Resting, VenueWorking, VenueDone
<1>8. CASE IntentUnmoved \/ AbsorbIntent
  <2>1. /\ SetStatus(i, st[i]) \/ (SetStatus(i, Canceled) /\ f.st \in VenueDone)
        /\ ord' = ord /\ pc[Rec] \in {"located", "absorb"}
    BY <1>8 DEF IntentUnmoved, AbsorbIntent, FinishCards, Finishes, venue
  <2>2. f.st \in VenueDone => OK(i, Canceled)
    BY <1>7, <2>1
  <2> QED BY <1>2, <1>3, <2>1, <2>2
<1>9. CASE IntentMoves
  <2> DEFINE t == IntentStatusFor(f.st, f.qty)
  <2>1. (SetStatus(i, t) \/ SetStatus(i, Unknown)) /\ pc[Rec] = "located" /\ f # NoOrder /\ ord' = ord
    BY <1>9 DEF IntentMoves, venue
  <2>2. f.st \in VenueStatus
    BY <2>1, IntentKnown
  <2>3. t \in Unresolved \/ f.st \in VenueDone
    BY <2>2 DEF IntentStatusFor, VenueStatus, VenueWorking, VenueDone, Unresolved
  <2>4. OK(i, t)
    BY <1>7, <2>1, <2>3
  <2> HIDE DEF t
  <2> QED BY <1>2, <1>3, <2>1, <2>4
<1>10. ASSUME NEW k \in StopSlot, Freed({k}) \/ Freed({k} \union {s \in StopSlot : Resting(s)}),
              NEW s, SetStatus(k, s)
       PROVE  AllGood'
  <2>1. /\ \A j \in Slot : ord'[j] \in {ord[j], "canceled"}
        /\ ~(Resting(k))'
    <3>1. k \in Slot /\ "canceled" \notin VenueWorking
      BY DEF Slot, VenueWorking
    <3> QED BY <1>10, <3>1 DEF Freed, Resting
  <2>2. ASSUME NEW j \in Sellers, j # k PROVE Good(j)'
    <3>1. st'[j] = st[j]
      BY <1>1, <1>10, <2>2 DEF SetStatus
    <3> QED BY <1>1, <2>1, <3>1, GoodSame DEF AllGood
  <2>3. ASSUME NEW j \in Sellers, j = k PROVE Good(j)'
    BY <1>1, <2>1, <2>3 DEF Good
  <2>4. ASSUME NEW j \in Sellers PROVE Good(j)'
    BY <2>2, <2>3
  <2> QED BY <2>4 DEF AllGood, Sellers
<1>11. CASE FreeStop
  <2>1. job[Rec].stop \in StopSlot
    BY <1>11 DEF FreeStop, ExitInv, Seats, AllSound, Sound, Proc
  <2> QED BY <1>10, <1>11, <2>1 DEF FreeStop
<1>12. CASE CancelExcess
  <2>1. PICK k \in rest : \/ /\ Freed({k})
                             /\ SetStatus(k, IF st[k] \in Unresolved THEN SafeTransition(st[k], Canceled) ELSE st[k])
                          \/ UNCHANGED <<ord, st>>
    BY <1>12 DEF CancelExcess
  <2>2. k \in StopSlot
    BY DEF ExitInv, PassTyped
  <2>3. UNCHANGED <<ord, st>> => AllGood'
    BY <1>1, GoodSame DEF AllGood, Sellers
  <2> QED BY <1>10, <2>1, <2>2, <2>3
<1> QED BY <1>4, <1>5, <1>6, <1>8, <1>9, <1>11, <1>12, SMTT(40) DEF Pass

(* The venue, the card desk and a restart keep orders tracked.               *)
LEMMA GoodOfRest ==
  ASSUME ExitInv, "late" \notin scene.faults, AllGood, Cards \/ Venue \/ Crash \/ UNCHANGED vars
  PROVE  AllGood'
<1>1. CASE Cards \/ Crash \/ UNCHANGED vars
  <2>1. UNCHANGED <<st, ord, wire>>
    BY <1>1 DEF Cards, Propose, Decline, Crash, vars, intents, venue
  <2> QED BY <2>1, GoodSame DEF AllGood, Sellers
<1>2. CASE Venue
  <2>1. PICK i \in Slot : Arrive(i) \/ Vanish(i) \/ SellShare(i) \/ OrderEnds(i)
    BY <1>2 DEF Venue
  <2>2. /\ st' = st /\ wire' \subseteq wire /\ ord \in [Slot -> OrderState] /\ Sellers \subseteq Slot
        /\ i \in wire \/ Resting(i)
    BY <2>1 DEF Arrive, Vanish, SellShare, OrderEnds, intents, ExitInv, Lots, LotsTyped, Sellers, Slot
  <2>3. ASSUME NEW k \in Sellers PROVE Good(k)'
    <3>1. CASE k = i
      BY <2>2, <3>1, Ended DEF AllGood, Good
    <3>2. CASE k # i
      <4>1. ord'[k] = ord[k]
        BY <2>1, <2>2, <3>2 DEF Arrive, Vanish, SellShare, OrderEnds
      <4> QED BY <2>2, <4>1, GoodSame DEF AllGood
    <3> QED BY <3>1, <3>2
  <2> QED BY <2>3 DEF AllGood, Sellers
<1> QED BY <1>1, <1>2

(* One coroutine moves: it spoils no close another is about to transmit, and *)
(* takes none of them.                                                       *)
LEMMA OwnsStep ==
  ASSUME ExitInv, ClosesOwn, NEW p \in Proc, Alone(p),
         \A f \in FlatSlot : st[f] = Created /\ st'[f] # Created => Closer(p) /\ f = job[p].flat,
         \A f \in FlatSlot : st'[f] = Created => st[f] = Created \/ \A q \in Proc : job[q].flat # f,
         (Closer(p))' => /\ st'[job'[p].flat] = Created
                         /\ \/ Closer(p) /\ job'[p].flat = job[p].flat
                            \/ \A q \in Proc : job[q].flat # job'[p].flat,
         (Sender(p))' => st'[job'[p].flat] # Created
  PROVE  ClosesOwn'
<1>1. ASSUME NEW q \in Proc, q # p
      PROVE  /\ (Closer(q))' <=> Closer(q)
             /\ (Sender(q))' <=> Sender(q)
             /\ job'[q].flat = job[q].flat
             /\ Closer(q) \/ Sender(q) => job[q].flat \in FlatSlot
  BY <1>1 DEF Alone, Closer, Sender, ExitInv, Seats, AllSound, Sound, SalePc
<1>2. ASSUME NEW q \in Proc, (Closer(q))'
      PROVE  /\ st'[job'[q].flat] = Created
             /\ \A r \in Proc : r # q /\ (Closer(r))' => job'[r].flat # job'[q].flat
  <2>1. CASE q = p
    <3>1. ASSUME NEW r \in Proc, r # q, (Closer(r))' PROVE job'[r].flat # job'[q].flat
      BY <1>1, <1>2, <2>1, <3>1 DEF ClosesOwn
    <3> QED BY <1>2, <2>1, <3>1
  <2>2. CASE q # p
    <3>1. Closer(q) /\ job'[q].flat = job[q].flat /\ job[q].flat \in FlatSlot /\ st[job[q].flat] = Created
      BY <1>1, <1>2, <2>2 DEF ClosesOwn
    <3>2. ~(Closer(p) /\ job[q].flat = job[p].flat)
      BY <2>2, <3>1 DEF ClosesOwn
    <3>3. st'[job[q].flat] = Created
      BY <3>1, <3>2
    <3>4. ASSUME NEW r \in Proc, r # q, (Closer(r))' PROVE job'[r].flat # job'[q].flat
      <4>1. CASE r = p
        BY <3>1, <3>2, <3>4, <4>1
      <4>2. CASE r # p
        BY <1>1, <3>1, <3>4, <4>2 DEF ClosesOwn
      <4> QED BY <4>1, <4>2
    <3> QED BY <3>1, <3>3, <3>4
  <2> QED BY <2>1, <2>2
<1>3. ASSUME NEW q \in Proc, (Sender(q))' PROVE st'[job'[q].flat] # Created
  <2>1. CASE q = p
    BY <1>3, <2>1
  <2>2. CASE q # p
    <3>1. Sender(q) /\ job'[q].flat = job[q].flat /\ job[q].flat \in FlatSlot /\ st[job[q].flat] # Created
      BY <1>1, <1>3, <2>2 DEF ClosesOwn
    <3> QED BY <3>1
  <2> QED BY <2>1, <2>2
<1> QED BY <1>2, <1>3 DEF ClosesOwn, Closer, Sender

(* Whoever moves without an emergency close leaves those of others alone.    *)
LEMMA OwnsSpared ==
  ASSUME ExitInv, ClosesOwn, NEW p \in Proc, Alone(p), \A f \in FlatSlot : st'[f] = st[f],
         pc'[p] \in SalePc => job'[p].then = "none"
  PROVE  ClosesOwn'
<1>1. ~(Closer(p))' /\ ~(Sender(p))'
  BY DEF Closer, Sender, SalePc
<1> QED BY <1>1, OwnsStep

(* Placing a stop leaves the emergency closes alone.                         *)
LEMMA PlaceSpares ==
  ASSUME ExitInv, Stops, NEW p \in Proc, PlaceStop(p)
  PROVE  /\ \A i \in FlatSlot : st'[i] = st[i]
         /\ pc'[p] \notin SalePc
<1>1. /\ pc \in [Proc -> ExitPc] /\ st \in [Slot -> IntentStatus \union {"none"}] /\ Sound(p, pc[p], job[p])
      /\ \A k \in FlatSlot : k \in Slot /\ k \notin StopSlot
  BY JobTyped, SlotAssumption DEF ExitInv, Seats, SeatsTyped, Lots, LotsTyped, Slot
<1>2. \E l \in CoverPc \union {"idle", "return"} : Goto(p, l)
  BY DEF PlaceStop, VerifyStop, StopRaises, ResumeStop, CreateStop, AdoptStop, RetireStop, SendStop, StopAccepted,
         StopRefused, StopUnknown, StopNotFound, Leave, Take, Covered, CoverPc, StopPc
<1>3. pc'[p] \notin SalePc
  BY <1>1, <1>2 DEF Goto, CoverPc, StopPc, SalePc
<1>4. st' = st \/ \E k \in StopSlot : \E s : st' = [st EXCEPT ![k] = s]
  <2>1. st' = st \/ CreateStop(p) \/ (pc[p] \in StopPc /\ \E s : st' = [st EXCEPT ![job[p].stop] = s])
    BY DEF PlaceStop, VerifyStop, StopRaises, ResumeStop, AdoptStop, RetireStop, SendStop, StopAccepted,
           StopRefused, StopUnknown, StopNotFound, StopPc, SetStatus, intents
  <2>2. pc[p] \in StopPc => job[p].stop \in StopSlot
    BY <1>1 DEF Sound
  <2>3. CreateStop(p) => Fresh(StopSlot) \in StopSlot /\ st' = [st EXCEPT ![Fresh(StopSlot)] = Created]
    BY DEF CreateStop, CreateIntent, SetStatus, Fresh
  <2> QED BY <2>1, <2>2, <2>3
<1> QED BY <1>1, <1>3, <1>4

(* A sale takes the close that is its own, or a vacant one, and once it is   *)
(* transmitted it is created no more.                                        *)
LEMMA OwnsOfSale ==
  ASSUME ExitInv, ClosesOwn, NEW p \in Proc, SellShares(p)
  PROVE  ClosesOwn'
<1> DEFINE b == job[p]
           i == Hand(p)
<1>1. /\ pc \in [Proc -> ExitPc] /\ job \in [Proc -> Job] /\ b \in Job /\ Sound(p, pc[p], b)
      /\ st \in [Slot -> IntentStatus \union {"none"}] /\ FlatSlot \subseteq Slot /\ Alone(p)
  BY JobTyped, Awake DEF ExitInv, Seats, SeatsTyped, Lots, LotsTyped, Slot, StepOf
<1>2. CASE pc[p] \in SalePc /\ b.then = "none"
  BY <1>1, <1>2, SaleSpares, OwnsSpared
<1>3. CASE ResumeFlat(p) \/ Return(p)
  <2>1. /\ st' = st \/ (p # Rec /\ \E s : st' = [st EXCEPT ![b.sale] = s])
        /\ \E l \in {"locating", "idle", "excess"} : Goto(p, l)
    BY <1>3 DEF ResumeFlat, Return, SetStatus, intents, Leave, Take
  <2>2. p # Rec => b.sale \in ExitSlot \union {NoSlot}
    BY <1>1 DEF Sound
  <2>3. \A k \in FlatSlot : k \notin ExitSlot \union {NoSlot}
    BY SlotAssumption DEF Slot
  <2>4. \A k \in FlatSlot : st'[k] = st[k]
    BY <1>1, <2>1, <2>2, <2>3
  <2>5. ~(Closer(p))' /\ ~(Sender(p))'
    BY <1>1, <2>1 DEF Closer, Sender, Goto
  <2> QED BY <1>1, <2>4, <2>5, OwnsStep
<1>4. CASE CreateFlat(p)
  <2>1. PICK k : k = Fresh(FlatSlot)
    OBVIOUS
  <2>2. /\ k \in FlatSlot /\ Vacant(k) /\ st' = [st EXCEPT ![k] = Created]
        /\ Take(p, "freeing", Flattening(b, k, 0))
    BY <1>4, <2>1 DEF CreateFlat, CreateIntent, SetStatus, Fresh, Flattening
  <2>3. pc'[p] = "freeing" /\ job'[p] = Flattening(b, k, 0) /\ Flattening(b, k, 0).flat = k
    BY <1>1, <2>2, PatchFlattening, QtyAssumption DEF Take, Goto
  <2>4. \A q \in Proc : job[q].flat # k
    BY <2>2 DEF Vacant
  <2>5. ~(Sender(p))'
    BY <2>3 DEF Sender
  <2> QED BY <1>1, <2>2, <2>3, <2>4, <2>5, OwnsStep
<1>5. CASE pc[p] \in SalePc /\ b.then # "none"
  <2>1. i \in FlatSlot /\ i = b.flat /\ i \in Slot /\ st[i] \in IntentStatus \union {"none"}
    BY <1>1, <1>5, HandKnown
  <2>2. st[i] = Created => Closer(p) \/ pc[p] = "locating"
    BY <1>5, <2>1 DEF ClosesOwn, Closer, Sender, SalePc
  <2>3. ~CreateFlat(p) /\ ~ResumeFlat(p) /\ ~Return(p)
    BY <1>5 DEF CreateFlat, ResumeFlat, Return, SalePc
  <2>4. CASE SaleLocated(p)
    <3>1. UNCHANGED <<st, job>> /\ Goto(p, "filling") /\ Known(i)
      BY <2>4 DEF SaleLocated, intents
    <3>2. ~(Closer(p))' /\ st[i] # Created
      BY <1>1, <2>1, <3>1, OnTheWire DEF Closer, Goto
    <3> QED BY <1>1, <2>1, <3>1, <3>2, OwnsStep
  <2>5. CASE FreeShares(p)
    <3>1. UNCHANGED <<st, job>> /\ Goto(p, "verifying") /\ pc[p] = "freeing"
      BY <2>5 DEF FreeShares, intents
    <3>2. ~(Sender(p))' /\ Closer(p) /\ st[i] = Created
      BY <1>1, <1>5, <2>1, <3>1 DEF Closer, Sender, Goto, ClosesOwn
    <3> QED BY <1>1, <2>1, <3>1, <3>2, OwnsStep
  <2>6. CASE ClaimSale(p)
    <3>1. /\ job' = job /\ pc[p] = "verifying"
          /\ IF st[i] = Created THEN SetStatus(i, Submitting) /\ Goto(p, "replying")
             ELSE Goto(p, "locating") /\ UNCHANGED st
      BY <2>6 DEF ClaimSale, SaleClaim
    <3>2. Closer(p) /\ st[i] = Created
      BY <1>5, <2>1, <3>1 DEF Closer, ClosesOwn
    <3>3. st' = [st EXCEPT ![i] = Submitting] /\ pc'[p] = "replying"
      BY <1>1, <3>1, <3>2 DEF SetStatus, Goto
    <3>4. ~(Closer(p))' /\ Submitting # Created
      BY <3>3, Ended DEF Closer
    <3>5. \A f \in FlatSlot : st'[f] = IF f = b.flat THEN Submitting ELSE st[f]
      BY <1>1, <2>1, <3>3
    <3> HIDE DEF i
    <3> QED BY <1>1, <2>1, <3>1, <3>2, <3>4, <3>5, OwnsStep
  <2>7. CASE SaleNotLocated(p) \/ SaleBlocked(p) \/ SaleAccepted(p) \/ SaleRefused(p) \/ SaleUnknown(p)
             \/ FillGivesUp(p) \/ FlatFilled(p)
    <3>1. \E s : /\ SetStatus(i, s)
                 /\ s = Created <=> st[i] = Created /\ ~Closer(p)
                 /\ \/ \E l \in {"idle", "return"} : Goto(p, l)
                    \/ \E l \in {"filling", "rereading"} : Goto(p, l) /\ job' = job /\ s # Created
      <4>1. CASE SaleNotLocated(p)
        <5>1. /\ SetStatus(i, IF st[i] = Created THEN Created ELSE MarkUnknown(st[i])) /\ pc[p] = "locating"
              /\ \E l \in {"idle", "return"} : Goto(p, l)
          BY <4>1 DEF SaleNotLocated, Leave, Take
        <5>2. st[i] # Created => MarkUnknown(st[i]) # Created
          BY Ended DEF MarkUnknown
        <5> QED BY <5>1, <5>2 DEF Closer
      <4>2. CASE SaleBlocked(p)
        <5>1. Closer(p) /\ st[i] = Created /\ SetStatus(i, SafeTransition(st[i], Rejected))
          BY <1>5, <2>1, <4>2 DEF SaleBlocked, Closer, ClosesOwn
        <5>2. SafeTransition(st[i], Rejected) # Created
          BY <5>1, Allowed, Ended, Statuses DEF SafeTransition
        <5>3. \E l \in {"idle", "return"} : Goto(p, l)
          BY <4>2 DEF SaleBlocked, Leave, Take
        <5> QED BY <5>1, <5>2, <5>3
      <4>3. CASE SaleAccepted(p) \/ SaleRefused(p) \/ SaleUnknown(p) \/ FillGivesUp(p) \/ FlatFilled(p)
        <5>1. st[i] # Created /\ ~Closer(p)
          BY <2>2, <4>3 DEF SaleAccepted, SaleRefused, SaleUnknown, FillGivesUp, FlatFilled, FinalRecord, Closer
        <5>2. \/ SetStatus(i, st[i]) \/ SetStatus(i, Submitted) \/ SetStatus(i, Rejected)
              \/ SetStatus(i, MarkUnknown(st[i])) \/ SetStatus(i, SafeTransition(st[i], CancelPending))
              \/ SetStatus(i, SafeTransition(st[i], FlatStatus(i)))
          BY <1>5, <2>1, <4>3 DEF SaleAccepted, SaleRefused, SaleUnknown, FillGivesUp, FlatFilled, Note
        <5>3. \E s : SetStatus(i, s) /\ s # Created
          BY <5>1, <5>2, Ended DEF SafeTransition, MarkUnknown, FlatStatus
        <5>4. \/ \E l \in {"idle", "return"} : Goto(p, l)
              \/ \E l \in {"filling", "rereading"} : Goto(p, l) /\ job' = job
          BY <4>3 DEF SaleAccepted, SaleRefused, SaleUnknown, FillGivesUp, FlatFilled, Leave, Take
        <5> QED BY <5>1, <5>3, <5>4
      <4> QED BY <2>7, <4>1, <4>2, <4>3
    <3>2. PICK s : /\ SetStatus(i, s)
                   /\ s = Created <=> st[i] = Created /\ ~Closer(p)
                   /\ \/ \E l \in {"idle", "return"} : Goto(p, l)
                      \/ \E l \in {"filling", "rereading"} : Goto(p, l) /\ job' = job /\ s # Created
      BY <3>1
    <3>3. \A f \in FlatSlot : st'[f] = IF f = b.flat THEN s ELSE st[f]
      BY <1>1, <2>1, <3>2 DEF SetStatus
    <3>4. ~(Closer(p))' /\ ((Sender(p))' => job' = job /\ s # Created)
      BY <1>1, <3>2 DEF Closer, Sender, Goto
    <3> HIDE DEF i
    <3> QED BY <1>1, <2>1, <3>2, <3>3, <3>4, OwnsStep
  <2> QED BY <2>3, <2>4, <2>5, <2>6, <2>7 DEF SellShares
<1>6. pc[p] \in SalePc \/ ResumeFlat(p) \/ CreateFlat(p) \/ Return(p)
  BY DEF SellShares, SaleLocated, SaleNotLocated, FreeShares, SaleBlocked, ClaimSale, SaleAccepted, SaleRefused,
         SaleUnknown, FillGivesUp, FlatFilled, FinalRecord, SalePc
<1> QED BY <1>2, <1>3, <1>4, <1>5, <1>6

(* Every step keeps each close in the hands of who is about to transmit it.  *)
LEMMA OwnsKeeps ==
  ASSUME ExitInv, Asleep, Unmanned, Stops, OneStopper, ClosesOwn, [Next]_vars
  PROVE  ClosesOwn'
<1>1. CASE Cards \/ Venue \/ UNCHANGED vars
  <2>1. UNCHANGED <<st, pc, job>>
    BY <1>1 DEF Cards, Propose, Decline, Venue, Arrive, Vanish, SellShare, OrderEnds, vars, task, intents
  <2> QED BY <2>1 DEF ClosesOwn, Closer, Sender, Proc
<1>2. CASE Crash
  <2>1. \A p \in Proc : pc'[p] = "idle"
    BY <1>2 DEF Crash
  <2> QED BY <2>1 DEF ClosesOwn, Closer, Sender, Proc
<1>3. ASSUME NEW w \in Worker, DecideExit(w) PROVE ClosesOwn'
  <2>1. w \in Proc /\ Alone(w)
    BY <1>3, Awake DEF StepOf, Proc
  <2> QED BY <1>3, <2>1, DecideSpares, OwnsSpared
<1>4. ASSUME NEW p \in Proc, PlaceStop(p) PROVE ClosesOwn'
  <2>1. Alone(p)
    BY <1>4, Awake DEF StepOf
  <2> QED BY <1>4, <2>1, PlaceSpares, OwnsSpared
<1>5. CASE Pass
  <2>1. Rec \in Proc /\ Alone(Rec) /\ pc \in [Proc -> ExitPc]
    BY <1>5, Awake DEF StepOf, Proc, ExitInv, Seats, SeatsTyped
  <2>2. pc[Rec] # "idle" \/ StartPass
    BY <1>5, <2>1, Awake, NameAssumption DEF StepOf
  <2>3. scene.passing # "never"
    BY <2>2 DEF Asleep, StartPass
  <2>4. \A w \in Worker : ~Closer(w) /\ ~Sender(w)
    <3>1. CASE manual
      BY <3>1, JobTyped DEF Sound, Closer, Sender, Proc
    <3>2. CASE scene.cards = 0
      BY <3>2 DEF Unmanned, Closer, Sender
    <3> QED BY <2>3, <3>1, <3>2 DEF OneStopper
  <2>5. pc'[Rec] \notin SalePc
    <3>1. \/ \E l \in {"idle", "intents", "located", "absorb", "book", "orders", "sizing", "excess", "resize", "stop",
                       "verifystop"} : Goto(Rec, l)
          \/ pc' = pc /\ pc[Rec] \in {"intents", "excess"}
      BY <1>5 DEF Pass, StartPass, RetireUnsent, LocateIntent, IntentUnknown, IntentSettledMeanwhile, IntentUnmoved,
                IntentMoves, AbsorbIntent, ReadPositions, PassFails, RepairBook, ListOrders, SizeProtection,
                FreeStop, StopFilledMeanwhile, CancelExcess, EndPass, NextIntent, Leave, Take, task
    <3> QED BY <2>1, <3>1, SMTT(40) DEF Goto, SalePc
  <2>6. \A p \in Proc : ~(Closer(p))' /\ ~(Sender(p))'
    BY <2>1, <2>4, <2>5, NameAssumption DEF Alone, Closer, Sender, SalePc, Proc
  <2> QED BY <2>6 DEF ClosesOwn, Closer, Sender, Proc
<1>6. ASSUME NEW p \in Proc, StepOf(p) PROVE ClosesOwn'
  BY <1>3, <1>4, <1>5, <1>6, OwnsOfSale DEF StepOf
<1> QED BY <1>1, <1>2, <1>6, WhoseStep

(* Every step keeps orders tracked.                                          *)
LEMMA TrackedKeeps ==
  ASSUME ExitInv, Asleep, Unmanned, Stops, Tracked, [Next]_vars
  PROVE  Tracked'
<1> SUFFICES ASSUME OneStopper PROVE Tracked'
  BY SceneStays DEF Tracked
<1>1. AllGood /\ ClosesOwn /\ Awaited /\ "late" \notin scene.faults
  BY DEF Tracked, OneStopper
<1>2. ClosesOwn' /\ Awaited'
  BY <1>1, OwnsKeeps, AwaitedKeeps
<1>3. AllGood'
  <2>1. ASSUME NEW w \in Worker, DecideExit(w) PROVE AllGood'
    BY <1>1, <2>1, DecideSpares, GoodSame DEF AllGood, Sellers
  <2>2. CASE Pass
    <3>1. Rec \in Proc /\ StepOf(Rec)
      BY <2>2 DEF StepOf, Proc
    <3>2. scene.passing # "never"
      BY <3>1, <2>2, Awake, NameAssumption, SMTT(40) DEF Asleep, StartPass
    <3>3. pc[Rec] \notin {"stopreply", "replying"}
      BY <2>2 DEF Pass, StartPass, RetireUnsent, LocateIntent, IntentUnknown, IntentSettledMeanwhile, IntentUnmoved,
             IntentMoves, AbsorbIntent, ReadPositions, PassFails, RepairBook, ListOrders, SizeProtection,
             FreeStop, StopFilledMeanwhile, CancelExcess, EndPass
    <3>4. \A i \in Sellers : i \notin wire
      BY <1>1, <3>2, <3>3 DEF Awaited, AwaitedByPass, OneStopper
    <3> QED BY <1>1, <2>2, <3>4, GoodOfPass
  <2>3. ASSUME NEW p \in Proc, StepOf(p) PROVE AllGood'
    BY <1>1, <2>1, <2>2, <2>3, GoodOfSale, GoodOfPlace DEF StepOf
  <2> QED BY <1>1, <2>3, GoodOfRest, WhoseStep
<1> QED BY <1>2, <1>3 DEF Tracked

(* What the two properties of the stops rest on.                             *)
ExitTrack == Asleep /\ Unmanned /\ Stops /\ Tracked

(* A position just bought: the stop it may have rests, and its intent is     *)
(* unresolved.                                                               *)
LEMMA TrackStarts == Init => ExitTrack
<1> SUFFICES ASSUME Init PROVE ExitTrack
  OBVIOUS
<1>1. /\ pc = [p \in Proc |-> "idle"] /\ card = [c \in Card |-> "none"] /\ wire = {}
      /\ st = [i \in Slot |-> IF i = rowStop THEN Submitted ELSE "none"]
      /\ ord = [i \in Slot |-> IF i = rowStop THEN "accepted" ELSE "none"]
  BY DEF Init
<1>2. Asleep /\ Unmanned /\ InHand
  BY <1>1 DEF Asleep, Unmanned, InHand, StopPc, Proc
<1>3. /\ \A i \in Sellers : st[i] = IF i = rowStop THEN Submitted ELSE "none"
      /\ \A i \in Sellers : ord[i] = IF i = rowStop THEN "accepted" ELSE "none"
  BY <1>1 DEF Sellers, Slot
<1>4. OneStop
  BY <1>3, Ended DEF OneStop, Sellers
<1>5. AllGood
  <2>1. Submitted \in Unresolved /\ "none" \notin VenueWorking
    BY Ended DEF VenueWorking
  <2> QED BY <1>1, <1>3, <2>1 DEF AllGood, Good, Resting
<1>6. ClosesOwn /\ Awaited
  BY <1>1 DEF ClosesOwn, Closer, Sender, Awaited
<1> QED BY <1>2, <1>4, <1>5, <1>6 DEF ExitTrack, Stops, Tracked

(* Every step keeps it.                                                      *)
LEMMA TrackKeeps == ExitInv /\ ExitTrack /\ [Next]_vars => ExitTrack'
BY AsleepKeeps, UnmannedKeeps, StopsKeep, TrackedKeeps DEF ExitTrack

(* A stop or an emergency close that can still sell shares has an intent the *)
(* next pass will look at: _place_protective_stop and _settle_emergency      *)
(* retire an intent only with its order, whatever the venue does meanwhile.  *)
THEOREM OrdersAreTracked == Spec => []OrderIsTracked
<1>1. ExitTrack => OrderIsTracked
  BY DEF ExitTrack, Tracked, AllGood, Good, Sellers, OrderIsTracked
<1> QED BY <1>1, TrackStarts, TrackKeeps, ExitTyped, PTL DEF Spec

(* A stop whose fate is unknown is looked for, never doubled: when           *)
(* _place_protective_stop transmits one, none rests.                         *)
THEOREM StopsAreSingle == Spec => StopIsSingle
<1> DEFINE Single == \A s \in StopSlot : OneStopper /\ s \in wire' \ wire => \A r \in StopSlot : ~Resting(r)
<1>1. ExitInv /\ ExitTrack /\ [Next]_vars => Single
  <2> SUFFICES ASSUME ExitInv, ExitTrack, [Next]_vars, NEW s \in StopSlot, OneStopper, s \in wire' \ wire,
                      NEW r \in StopSlot, Resting(r)
               PROVE  FALSE
    OBVIOUS
  <2>1. st[s] = Created
    <3>1. \E p \in Proc : ClaimSale(p) \/ SendStop(p)
      BY OnlyAClaimTransmits
    <3> QED BY <3>1 DEF ClaimSale, SaleClaim, SendStop
  <2>2. st[r] \in Unresolved
    BY DEF ExitTrack, Tracked, AllGood, Good, Sellers
  <2>3. s = r
    BY <2>1, <2>2, Ended DEF ExitTrack, Stops, OneStop
  <2> QED BY <2>1, <2>3, OnTheWire DEF Slot
<1> QED BY <1>1, TrackStarts, TrackKeeps, ExitTyped, PTL DEF Spec, StopIsSingle
-----------------------------------------------------------------------------
(* The venue holds what its orders may still sell.                           *)

Backed == /\ IsFiniteSet(Pledged) /\ Pinned <= held
          /\ held \in 0..Qty

(* No order sells, and none rests that did not.                              *)
Still ==
  /\ held' = held
  /\ \A i \in Slot : Resting(i)' => Resting(i) /\ asked'[i] = asked[i] /\ sold'[i] = sold[i]

(* A set and a number that bounds it.                                        *)
LEMMA Fewer ==
  ASSUME NEW S, IsFiniteSet(S), NEW T, T \subseteq S
  PROVE  /\ IsFiniteSet(T) /\ Cardinality(T) \in Nat /\ Cardinality(S) \in Nat
         /\ Cardinality(T) <= Cardinality(S)
BY FS_Subset, FS_CardinalityType

(* What is still sold short of nothing stays backed.                         *)
LEMMA BackedStill ==
  ASSUME Backed, Still
  PROVE  Backed'
<1>1. Pledged' \subseteq Pledged
  BY DEF Pledged, Still
<1>2. IsFiniteSet(Pledged) /\ Pinned <= held /\ held \in 0..Qty
  BY DEF Backed
<1>3. /\ IsFiniteSet(Pledged') /\ Cardinality(Pledged') <= Cardinality(Pledged)
      /\ Cardinality(Pledged') \in Nat /\ Cardinality(Pledged) \in Nat
  BY <1>1, <1>2, Fewer
<1>4. Cardinality(Pledged') <= held
  BY <1>2, <1>3, QtyAssumption DEF Pinned
<1> QED BY <1>2, <1>3, <1>4 DEF Backed, Pinned, Still

(* A new intent has no order.                                                *)
LEMMA CreatingIsStill ==
  ASSUME ExitInv, NEW i, NEW q, CreateIntent(i, q), UNCHANGED held
  PROVE  Still
<1>1. ord \in [Slot -> OrderState] /\ "none" \notin VenueWorking
  BY DEF ExitInv, Lots, LotsTyped, VenueWorking
<1> QED BY <1>1 DEF CreateIntent, Still, Resting, ExitInv, Lots, LotsTyped

(* What is canceled no longer rests.                                         *)
LEMMA CancelingIsStill ==
  ASSUME NEW S, Freed(S), UNCHANGED <<asked, sold, held>>
  PROVE  Still
<1>1. "canceled" \notin VenueWorking
  BY DEF VenueWorking
<1> QED BY <1>1 DEF Freed, Still, Resting

(* The coroutine that does not touch the orders sells nothing.               *)
LEMMA Untouched == UNCHANGED <<ord, asked, sold, held>> => Still
BY DEF Still, Resting

(* Nor does decide_exit.                                                     *)
LEMMA DecideIsStill ==
  ASSUME ExitInv, NEW w \in Worker, DecideExit(w)
  PROVE  Still
<1>1. CASE CreateExit(w)
  <2>1. PICK q \in 1..Qty : CreateIntent(Fresh(ExitSlot), q) /\ UNCHANGED held
    BY <1>1 DEF CreateExit
  <2> QED BY <2>1, CreatingIsStill
<1>2. ASSUME NEW c \in Card, Sell(w, c) PROVE Still
  BY <1>2, Untouched DEF Sell, venue, intents
<1>3. CASE GateRefuses(w)
  BY <1>3, Untouched DEF GateRefuses, venue, intents
<1>4. CASE AlreadyFlat(w)
  BY <1>4, Untouched DEF AlreadyFlat, venue, intents
<1>5. CASE AdoptExit(w)
  BY <1>5, Untouched DEF AdoptExit, venue, intents
<1>6. CASE ListingFails(w)
  BY <1>6, Untouched DEF ListingFails, venue, intents
<1>7. CASE ExitUnfilled(w)
  BY <1>7, Untouched DEF ExitUnfilled, venue, intents
<1>8. CASE ExitFilled(w)
  BY <1>8, Untouched DEF ExitFilled, venue, intents
<1>9. CASE ExitPending(w)
  BY <1>9, Untouched DEF ExitPending, venue, intents
<1>10. CASE FinishExit(w)
  BY <1>10, Untouched DEF FinishExit, venue, intents
<1>11. CASE FinishPartial(w)
  BY <1>11, Untouched DEF FinishPartial, venue, intents
<1> QED BY <1>1, <1>2, <1>3, <1>4, <1>5, <1>6, <1>7, <1>8, <1>9, <1>10, <1>11 DEF DecideExit

(* Nor does a sale, but by canceling what held its shares.                   *)
LEMMA SaleIsStill ==
  ASSUME ExitInv, NEW p \in Proc, SellShares(p)
  PROVE  Still
<1>1. CASE CreateFlat(p)
  BY <1>1, CreatingIsStill DEF CreateFlat
<1>2. CASE FreeShares(p)
  BY <1>2, CancelingIsStill DEF FreeShares, intents
<1>3. CASE SaleLocated(p)
  BY <1>3, Untouched DEF SaleLocated, venue, intents
<1>4. CASE SaleNotLocated(p)
  BY <1>4, Untouched DEF SaleNotLocated, venue, intents
<1>5. CASE SaleBlocked(p)
  BY <1>5, Untouched DEF SaleBlocked, venue, intents
<1>6. CASE ClaimSale(p)
  BY <1>6, Untouched DEF ClaimSale, venue, intents
<1>7. CASE SaleAccepted(p)
  BY <1>7, Untouched DEF SaleAccepted, venue, intents
<1>8. CASE SaleRefused(p)
  BY <1>8, Untouched DEF SaleRefused, venue, intents
<1>9. CASE SaleUnknown(p)
  BY <1>9, Untouched DEF SaleUnknown, venue, intents
<1>10. CASE FillGivesUp(p)
  BY <1>10, Untouched DEF FillGivesUp, venue, intents
<1>11. CASE ResumeFlat(p)
  BY <1>11, Untouched DEF ResumeFlat, venue, intents
<1>12. CASE FlatFilled(p)
  BY <1>12, Untouched DEF FlatFilled, venue, intents
<1>13. CASE Return(p)
  BY <1>13, Untouched DEF Return, venue, intents
<1> QED BY <1>1, <1>2, <1>3, <1>4, <1>5, <1>6, <1>7, <1>8, <1>9, <1>10, <1>11, <1>12, <1>13 DEF SellShares

(* Nor does placing a stop.                                                  *)
LEMMA PlaceIsStill ==
  ASSUME ExitInv, NEW p \in Proc, PlaceStop(p)
  PROVE  Still
<1>1. CASE CreateStop(p)
  BY <1>1, CreatingIsStill DEF CreateStop
<1>2. CASE VerifyStop(p)
  BY <1>2, Untouched DEF VerifyStop, venue, intents
<1>3. CASE StopRaises(p)
  BY <1>3, Untouched DEF StopRaises, venue, intents
<1>4. CASE ResumeStop(p)
  BY <1>4, Untouched DEF ResumeStop, venue, intents
<1>5. CASE AdoptStop(p)
  BY <1>5, Untouched DEF AdoptStop, venue, intents
<1>6. CASE RetireStop(p)
  BY <1>6, Untouched DEF RetireStop, venue, intents
<1>7. CASE SendStop(p)
  BY <1>7, Untouched DEF SendStop, venue, intents
<1>8. CASE StopAccepted(p)
  BY <1>8, Untouched DEF StopAccepted, venue, intents
<1>9. CASE StopRefused(p)
  BY <1>9, Untouched DEF StopRefused, venue, intents
<1>10. CASE StopUnknown(p)
  BY <1>10, Untouched DEF StopUnknown, venue, intents
<1>11. CASE StopNotFound(p)
  BY <1>11, Untouched DEF StopNotFound, venue, intents
<1> QED BY <1>1, <1>2, <1>3, <1>4, <1>5, <1>6, <1>7, <1>8, <1>9, <1>10, <1>11 DEF PlaceStop

(* Nor does the pass, which may cancel a stop that promises too much.        *)
LEMMA PassIsStill ==
  ASSUME ExitInv, Pass
  PROVE  Still
<1>1. CASE CancelExcess
  BY <1>1, Untouched, CancelingIsStill DEF CancelExcess
<1>2. CASE FreeStop
  BY <1>2, CancelingIsStill DEF FreeStop
<1>3. CASE StartPass
  BY <1>3, Untouched DEF StartPass, venue, intents
<1>4. ASSUME NEW i \in Slot, RetireUnsent(i) PROVE Still
  BY <1>4, Untouched DEF RetireUnsent, venue, intents
<1>5. ASSUME NEW i \in Slot, LocateIntent(i) PROVE Still
  BY <1>5, Untouched DEF LocateIntent, venue, intents
<1>6. CASE IntentUnknown
  BY <1>6, Untouched DEF IntentUnknown, venue, intents
<1>7. CASE IntentSettledMeanwhile
  BY <1>7, Untouched DEF IntentSettledMeanwhile, venue, intents
<1>8. CASE IntentUnmoved
  BY <1>8, Untouched DEF IntentUnmoved, venue, intents
<1>9. CASE IntentMoves
  BY <1>9, Untouched DEF IntentMoves, venue, intents
<1>10. CASE AbsorbIntent
  BY <1>10, Untouched DEF AbsorbIntent, venue, intents
<1>11. CASE ReadPositions
  BY <1>11, Untouched DEF ReadPositions, venue, intents
<1>12. CASE PassFails
  BY <1>12, Untouched DEF PassFails, venue, intents
<1>13. CASE RepairBook
  BY <1>13, Untouched DEF RepairBook, venue, intents
<1>14. CASE ListOrders
  BY <1>14, Untouched DEF ListOrders, venue, intents
<1>15. CASE SizeProtection
  BY <1>15, Untouched DEF SizeProtection, venue, intents
<1>16. CASE StopFilledMeanwhile
  BY <1>16, Untouched DEF StopFilledMeanwhile, venue, intents
<1>17. CASE EndPass
  BY <1>17, Untouched DEF EndPass, venue, intents
<1> QED BY <1>1, <1>2, <1>3, <1>4, <1>5, <1>6, <1>7, <1>8, <1>9, <1>10, <1>11, <1>12, <1>13, <1>14, <1>15, <1>16, <1>17 DEF Pass

(* The process itself sells nothing.                                         *)
LEMMA ProcessIsStill ==
  ASSUME ExitInv, [Next]_vars, ~Venue
  PROVE  Still
<1>1. CASE Cards
  BY <1>1, Untouched DEF Cards, Propose, Decline, venue, intents
<1>2. CASE Crash \/ UNCHANGED vars
  BY <1>2, Untouched DEF Crash, vars, venue, intents
<1> QED BY <1>1, <1>2, DecideIsStill, SaleIsStill, PlaceIsStill, PassIsStill DEF Next

(* An order the venue takes fits in what no other order has pinned.          *)
LEMMA ArrivingIsBacked ==
  ASSUME ExitInv, Backed, NEW i \in Slot, Arrive(i)
  PROVE  Backed'
<1>1. /\ UNCHANGED <<asked, sold, held>>
      /\ ord' = [ord EXCEPT ![i] = IF asked[i] <= held - Pinned THEN "accepted" ELSE "refused"]
      /\ ord \in [Slot -> OrderState] /\ sold \in [Slot -> 0..Qty] /\ asked \in [Slot -> 0..Qty]
  BY DEF Arrive, intents, ExitInv, Lots, LotsTyped
<1>2. sold[i] = 0 /\ "refused" \notin VenueWorking /\ Qty \in Nat /\ asked[i] \in Nat
  BY <1>1, QtyAssumption DEF Arrive, ExitInv, Lots, AllKept, Kept, VenueWorking
<1>3. CASE asked[i] <= held - Pinned
  <2> DEFINE own == {i} \X (1..asked[i])
             name == [n \in 1..asked[i] |-> <<i, n>>]
  <2>1. IsFiniteSet(own) /\ Cardinality(own) = asked[i]
    <3>1. IsFiniteSet(1..asked[i]) /\ Cardinality(1..asked[i]) = asked[i]
      <4>1. 1 \in Int /\ asked[i] \in Int
        BY <1>2
      <4>2. IsFiniteSet(1..asked[i]) /\ Cardinality(1..asked[i]) = IF 1 > asked[i] THEN 0 ELSE asked[i] - 1 + 1
        BY ONLY <4>1, FS_Interval
      <4> QED BY <1>2, <4>2
    <3>2. IsFiniteSet({i}) /\ Cardinality({i}) = 1
      BY FS_Singleton
    <3>3. IsFiniteSet(own) /\ Cardinality(own) = Cardinality({i}) * Cardinality(1..asked[i])
      BY <3>1, <3>2, FS_Product
    <3> QED BY <1>2, <3>1, <3>2, <3>3
  <2>2. Pledged' \subseteq Pledged \union own
    BY <1>1, <1>2 DEF Pledged, Resting
  <2>3. /\ IsFiniteSet(Pledged) /\ Pinned <= held /\ held \in 0..Qty
        /\ Pinned \in Nat
    BY FS_CardinalityType DEF Backed, Pinned
  <2>4. IsFiniteSet(Pledged \union own) /\ Cardinality(Pledged \union own) <= Pinned + asked[i]
    <3> HIDE DEF own
    <3>1. /\ IsFiniteSet(Pledged \union own) /\ IsFiniteSet(Pledged \intersect own)
          /\ Cardinality(Pledged \union own) = Cardinality(Pledged) + Cardinality(own) - Cardinality(Pledged \intersect own)
      BY <2>1, <2>3, FS_Union, FS_Intersection
    <3>2. Cardinality(Pledged \intersect own) \in Nat
      BY <3>1, FS_CardinalityType
    <3> QED BY <1>2, <2>1, <2>3, <3>1, <3>2 DEF Pinned
  <2> HIDE DEF own
  <2>5. IsFiniteSet(Pledged') /\ Cardinality(Pledged') \in Nat /\ Cardinality(Pledged \union own) \in Nat
        /\ Cardinality(Pledged') <= Cardinality(Pledged \union own)
    BY <2>2, <2>4, Fewer
  <2>6. Cardinality(Pledged') <= held
    BY <1>2, <1>3, <2>3, <2>4, <2>5
  <2> QED BY <1>1, <2>3, <2>5, <2>6 DEF Backed, Pinned
<1>4. CASE ~(asked[i] <= held - Pinned)
  <2>1. Still
    BY <1>1, <1>2, <1>4 DEF Still, Resting
  <2> QED BY <2>1, BackedStill
<1> QED BY <1>3, <1>4

(* A share sold is one the order had pinned.                                 *)
LEMMA SellingIsBacked ==
  ASSUME ExitInv, Backed, NEW i \in Slot, SellShare(i)
  PROVE  Backed'
<1>1. /\ Resting(i) /\ UNCHANGED asked /\ held' = held - 1 /\ sold' = [sold EXCEPT ![i] = @ + 1]
      /\ ord' = [ord EXCEPT ![i] = IF sold[i] + 1 = asked[i] THEN "filled" ELSE "partial"]
      /\ ord \in [Slot -> OrderState] /\ sold \in [Slot -> 0..Qty] /\ asked \in [Slot -> 0..Qty]
  BY DEF SellShare, intents, ExitInv, Lots, LotsTyped
<1>2. sold[i] < asked[i] /\ sold[i] \in Nat /\ asked[i] \in Nat /\ asked[i] <= Qty /\ Qty \in Nat
  BY <1>1, QtyAssumption DEF ExitInv, Lots, AllKept, Kept
<1> DEFINE share == <<i, sold[i] + 1>>
<1>3. share \in Pledged
  BY <1>1, <1>2 DEF Pledged
<1>4. Pledged' \subseteq Pledged \ {share}
  BY <1>1, <1>2 DEF Pledged, Resting
<1>5. /\ IsFiniteSet(Pledged) /\ Pinned <= held /\ held \in 0..Qty
      /\ Pinned \in Nat
  BY FS_CardinalityType DEF Backed, Pinned
<1> HIDE DEF share
<1>6. IsFiniteSet(Pledged \ {share}) /\ Cardinality(Pledged \ {share}) = Pinned - 1
  BY <1>3, <1>5, FS_RemoveElement DEF Pinned
<1>7. /\ IsFiniteSet(Pledged') /\ Cardinality(Pledged') <= Pinned - 1
      /\ Cardinality(Pledged') \in Nat
  BY <1>4, <1>6, Fewer
<1>8. Cardinality(Pledged') <= held - 1 /\ held - 1 \in 0..Qty
  BY <1>2, <1>5, <1>7
<1> QED BY <1>1, <1>7, <1>8 DEF Backed, Pinned

(* Every step keeps it.                                                      *)
LEMMA BackedKeeps == ExitInv /\ Backed /\ [Next]_vars => Backed'
<1> SUFFICES ASSUME ExitInv, Backed, [Next]_vars PROVE Backed'
  OBVIOUS
<1>1. CASE ~Venue
  BY <1>1, ProcessIsStill, BackedStill
<1>2. ASSUME NEW i \in Slot, Vanish(i) \/ OrderEnds(i) PROVE Backed'
  <2>1. "canceled" \notin VenueWorking /\ ord \in [Slot -> OrderState]
    BY DEF VenueWorking, ExitInv, Lots, LotsTyped
  <2>2. Still
    BY <1>2, <2>1 DEF Vanish, OrderEnds, Still, Resting, intents
  <2> QED BY <2>2, BackedStill
<1> QED BY <1>1, <1>2, ArrivingIsBacked, SellingIsBacked DEF Venue

(* The stop of a position just bought asks for no more than was bought.      *)
LEMMA BackedStarts == Init => Backed
<1> SUFFICES ASSUME Init PROVE Backed
  OBVIOUS
<1>1. PICK q \in 1..scene.bought : asked = [i \in Slot |-> IF i = rowStop THEN q ELSE 0]
  BY DEF Init
<1>2. /\ scene.bought \in 1..Qty /\ held = scene.bought /\ Qty \in Nat
      /\ q \in Nat /\ q <= held
  BY <1>1, ScenesAssumption, QtyAssumption DEF Init, Scene
<1> DEFINE own == {rowStop} \X (1..q)
<1>3. IsFiniteSet(own) /\ Cardinality(own) = q
  <2>1. IsFiniteSet(1..q) /\ Cardinality(1..q) = q
    <3>1. 1 \in Int /\ q \in Int
      BY <1>2
    <3>2. IsFiniteSet(1..q) /\ Cardinality(1..q) = IF 1 > q THEN 0 ELSE q - 1 + 1
      BY ONLY <3>1, FS_Interval
    <3> QED BY <1>2, <3>2
  <2>2. IsFiniteSet({rowStop}) /\ Cardinality({rowStop}) = 1
    BY FS_Singleton
  <2>3. IsFiniteSet(own) /\ Cardinality(own) = Cardinality({rowStop}) * Cardinality(1..q)
    BY <2>1, <2>2, FS_Product
  <2> QED BY <1>2, <2>1, <2>2, <2>3
<1>4. Pledged \subseteq own
  <2>1. ord = [i \in Slot |-> IF i = rowStop THEN "accepted" ELSE "none"] /\ sold = [i \in Slot |-> 0]
        /\ "none" \notin VenueWorking
    BY DEF Init, VenueWorking
  <2> QED BY <1>1, <1>2, <2>1 DEF Pledged, Resting
<1> HIDE DEF own
<1>5. IsFiniteSet(Pledged) /\ Cardinality(Pledged) <= q /\ Cardinality(Pledged) \in Nat
  BY <1>3, <1>4, Fewer
<1> QED BY <1>2, <1>5 DEF Backed, Pinned

(* The state of an exit stays typed, the shares at the venue among it: the   *)
(* venue refuses a sell for shares another order holds, so what it still     *)
(* holds covers every order that rests, whoever sent it (decide_exit,        *)
(* _place_protective_stop, _emergency_close, the pass).                      *)
THEOREM TypeCorrect == Spec => []TypeOK
<1>1. ExitInv /\ Backed => TypeOK
  BY DEF ExitInv, Backed, TypeOK, Seats, SeatsTyped, Job, Lots, LotsTyped, Shop, DeskTyped, PassTyped
<1> QED BY <1>1, BackedStarts, BackedKeeps, ExitTyped, PTL DEF Spec
=============================================================================
