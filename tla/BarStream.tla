----------------------------- MODULE BarStream -----------------------------
(***************************************************************************)
(* The minute-bar stream of one symbol: the vendor prints and corrects      *)
(* minutes, the socket reader queues them, one writer stores them and the   *)
(* windows they complete, and tells the observer (market_data/             *)
(* alpaca_stream.py, market_data/bar_store.py).                             *)
(*                                                                          *)
(* A minute's bar is its version: 0 is none, the vendor's later word the    *)
(* higher number.  A window's bar is the versions it was made of, so every  *)
(* table of bars, of minutes or of windows, is a function on the minutes.   *)
(* The queue is first in, first out and a batch takes all of it, so the     *)
(* newest waiting message of a minute stands for all of them.               *)
(***************************************************************************)
EXTENDS Integers, FiniteSets

CONSTANTS Windows,   \* bound: windows of the session
          Length,    \* minutes in a window
          Versions,  \* bound: versions of one minute
          Scenes     \* bounds, of which a behaviour has one: see Scene

ASSUME SizeAssumption ==
  Windows \in Nat \ {0} /\ Length \in Nat \ {0} /\ Versions \in Nat \ {0}

(* Minutes of the session, those without a first print in time, corrections *)
(* and late prints, connections that may be lost, faults of a thread or a   *)
(* pass, restarts, setups handed to the entry worker, whether REST answers, *)
(* and whether full passes run.                                             *)
Scene == [minutes : Nat, silent : Nat, corrections : Nat, breaks : Nat, faults : Nat, crashes : Nat,
          entries : Nat, rest : BOOLEAN, sweeps : BOOLEAN]
ASSUME ScenesAssumption ==
  Scenes \in SUBSET {s \in Scene : s.minutes <= Windows * Length}

VARIABLES
  scene,    \* what is left of the bounds of this behaviour
  clock,    \* minutes that are over
  truth,    \* what the vendor says
  minute,   \* 1Min rows of the store
  bar,      \* 5Min rows of the store
  conn,     \* the connection: up, closing (5 s to drain), joining a thread, down
  since,    \* _connected_at: the minute it was confirmed in
  queue,    \* messages waiting for the writer
  writer,   \* the writer of this connection: ready, writing, dead
  threads,  \* transactions of ingest_batch under way: what they store and their next step
  fresh,    \* _latest and _completed
  lost,     \* history: what the failed transaction of this connection had to store
  pending   \* _pending_completed_bars

market == <<clock, truth>>
store  == <<minute, bar>>
link   == <<conn, since, queue, writer, threads, fresh, lost>>
stream == <<scene, market, store, link, pending>>

Minute == 1..(Windows * Length)
Window == 1..Windows
WindowOf(m)  == (m - 1) \div Length + 1
MinutesOf(w) == {m \in Minute : WindowOf(m) = w}

Rows == [Minute -> 0..Versions]
None == [m \in Minute |-> 0]
Larger(x, y) == IF x < y THEN y ELSE x

Has(rows, w)   == \E m \in MinutesOf(w) : rows[m] # 0
Whole(rows, w) == \A m \in MinutesOf(w) : rows[m] # 0

(* An upsert: of single minutes, and of whole windows.                      *)
Newer(rows, old) == [m \in Minute |-> IF rows[m] # 0 THEN rows[m] ELSE old[m]]
Over(rows, old)  == [m \in Minute |-> IF Has(rows, WindowOf(m)) THEN rows[m] ELSE old[m]]
Only(rows, ws)   == [m \in Minute |-> IF WindowOf(m) \in ws THEN rows[m] ELSE 0]

Closed == clock \div Length   \* windows that are over: _boundary

StreamTypeOK ==
  /\ scene \in Scene
  /\ clock \in 0..(Windows * Length)
  /\ truth \in Rows /\ minute \in Rows /\ bar \in Rows
  /\ conn \in {"down", "up", "closing", "joining"}
  /\ since \in Nat
  /\ queue \in Rows
  /\ writer \in {"ready", "writing", "dead"}
  /\ \A t \in threads : t.rows \in Rows /\ t.at \in {"minutes", "bars", "notify"}
  /\ fresh \in [latest : 0..(Windows * Length), completed : 0..Windows]
  /\ lost \in Rows /\ pending \in Rows

Stale == [latest |-> 0, completed |-> 0]

StreamInit ==
  /\ scene \in Scenes
  /\ clock = 0 /\ truth = None
  /\ minute = None /\ bar = None
  /\ conn = "down" /\ since = 0 /\ queue = None
  /\ writer = "ready" /\ threads = {} /\ fresh = Stale
  /\ lost = None /\ pending = None

(* current(): a subscribed stream whose last minute is at most 90 seconds   *)
(* old and whose last window is the last one that is over.                  *)
Current ==
  /\ conn = "up"
  /\ clock - fresh.latest \in {0, 1}
  /\ fresh.completed = Closed /\ Closed > 0

-----------------------------------------------------------------------------
(* The vendor.  What it says while nobody is subscribed is not repeated.    *)

(* Mutant of Heard: a message the full queue refuses is only dropped.       *)
HeardOrDropped(m, v, rest) ==
  \/ conn = "up" /\ queue' = [queue EXCEPT ![m] = v] /\ scene' = rest /\ UNCHANGED conn
  \/ conn = "up" /\ queue # None /\ rest.breaks > 0
     /\ scene' = [rest EXCEPT !.breaks = @ - 1] /\ UNCHANGED <<conn, queue>>
  \/ conn # "up" /\ scene' = rest /\ UNCHANGED <<conn, queue>>

(* The reader queues a message, or finds the queue full, ends the           *)
(* freshness of the stream and closes.                                      *)
Heard(m, v, rest) ==
  \/ conn = "up" /\ queue' = [queue EXCEPT ![m] = v] /\ scene' = rest /\ UNCHANGED conn
  \/ conn = "up" /\ queue # None /\ rest.breaks > 0
     /\ scene' = [rest EXCEPT !.breaks = @ - 1]
     /\ conn' = "closing" /\ UNCHANGED queue
  \/ conn # "up" /\ scene' = rest /\ UNCHANGED <<conn, queue>>

Elsewhere == UNCHANGED <<store, since, writer, threads, fresh, lost, pending>>

(* A minute is over, and was traded in.                                     *)
Trade ==
  /\ clock < scene.minutes
  /\ clock' = clock + 1
  /\ truth' = [truth EXCEPT ![clock + 1] = 1]
  /\ Heard(clock + 1, 1, scene)
  /\ Elsewhere

(* A minute is over without a bar: not traded, or the vendor is late.       *)
Silent ==
  /\ clock < scene.minutes /\ scene.silent > 0
  /\ clock' = clock + 1
  /\ scene' = [scene EXCEPT !.silent = @ - 1]
  /\ UNCHANGED <<truth, conn, queue>> /\ Elsewhere

(* updatedBars, or a late first print.                                      *)
Correct(m) ==
  /\ m <= clock /\ truth[m] < Versions /\ scene.corrections > 0
  /\ truth' = [truth EXCEPT ![m] = @ + 1]
  /\ Heard(m, truth'[m], [scene EXCEPT !.corrections = @ - 1])
  /\ UNCHANGED clock /\ Elsewhere

-----------------------------------------------------------------------------
(* The connection.                                                           *)

Subscribe ==
  /\ conn = "down"
  /\ conn' = "up" /\ since' = clock /\ writer' = "ready"
  /\ UNCHANGED <<scene, market, store, queue, threads, fresh, lost, pending>>

(* The socket fails, the day or the membership changes, the writer is dead. *)
Close ==
  /\ conn = "up"
  /\ \/ writer = "dead" /\ UNCHANGED scene
     \/ scene.breaks > 0 /\ scene' = [scene EXCEPT !.breaks = @ - 1]
  /\ conn' = "closing"
  /\ UNCHANGED <<market, store, since, queue, writer, threads, fresh, lost, pending>>

Down == /\ conn' = "down" /\ queue' = None /\ fresh' = Stale /\ writer' = "ready" /\ lost' = None
        /\ UNCHANGED <<scene, market, store, since, threads, pending>>

(* The writer has drained the queue, or is dead.                            *)
Drained ==
  /\ conn = "closing"
  /\ writer = "dead" \/ (writer = "ready" /\ queue = None)
  /\ Down

(* Mutant of GiveUp: a transaction under way is not joined.                 *)
GiveUpUnjoined == conn = "closing" /\ writer # "dead" /\ Down

(* Five seconds are over: the writer is cancelled, and what it had not      *)
(* taken is lost; it joins the transaction it waits for.                    *)
GiveUp ==
  /\ conn = "closing" /\ writer # "dead"
  /\ IF writer = "writing"
       THEN /\ conn' = "joining" /\ queue' = None
            /\ UNCHANGED <<scene, market, store, since, writer, threads, fresh, lost, pending>>
       ELSE Down

Joined == conn = "joining" /\ threads = {} /\ Down

-----------------------------------------------------------------------------
(* The writer.  A batch is two transactions, minutes and windows, and only  *)
(* then freshness and notifications.                                        *)

Take ==
  /\ conn \in {"up", "closing"} /\ writer = "ready" /\ queue # None
  /\ threads' = threads \union {[rows |-> queue, at |-> "minutes"]}
  /\ queue' = None /\ writer' = "writing"
  /\ UNCHANGED <<scene, market, store, conn, since, fresh, lost, pending>>

Advance(t, at) == threads' = (threads \ {t}) \union {[t EXCEPT !.at = at]}

StoreMinutes(t) ==
  /\ t.at = "minutes"
  /\ minute' = Newer(t.rows, minute)
  /\ Advance(t, "bars")
  /\ UNCHANGED <<scene, market, bar, conn, since, queue, writer, fresh, lost, pending>>

(* The windows a batch touched and whose every minute is there.             *)
Completed(t) == {w \in Window : Has(t.rows, w) /\ Whole(minute, w)}

StoreBars(t) ==
  /\ t.at = "bars"
  /\ bar' = Over(Only(minute, Completed(t)), bar)
  /\ Advance(t, "notify")
  /\ UNCHANGED <<scene, market, minute, conn, since, queue, writer, fresh, lost, pending>>

(* Only a window that began after the connection counts as completed by it. *)
Notify(t) ==
  /\ t.at = "notify"
  /\ pending' = Over(Only(minute, Completed(t)), pending)
  /\ \E last \in Minute :
       /\ t.rows[last] # 0 /\ \A m \in Minute : t.rows[m] # 0 => m <= last
       /\ \E done \in 0..Windows :
            /\ done \in {fresh.completed} \union {w \in Completed(t) : (w - 1) * Length > since}
            /\ \A w \in Completed(t) : (w - 1) * Length > since => w <= done
            /\ fresh.completed <= done
            /\ fresh' = [latest |-> Larger(last, fresh.latest), completed |-> done]
  /\ threads' = threads \ {t} /\ writer' = "ready"
  /\ UNCHANGED <<scene, market, store, conn, since, queue, lost>>

(* A transaction fails: the writer raises, and its cache goes with it.  The  *)
(* connection is up until its reader wakes up to that (Close).              *)
WriteFails(t) ==
  /\ t.at \in {"minutes", "bars"} /\ scene.faults > 0
  /\ scene' = [scene EXCEPT !.faults = @ - 1]
  /\ threads' = threads \ {t} /\ writer' = "dead" /\ lost' = t.rows
  /\ UNCHANGED <<market, store, conn, since, queue, fresh, pending>>

Ingest(t) == StoreMinutes(t) \/ StoreBars(t) \/ Notify(t)

Vendor == Trade \/ Silent \/ \E m \in Minute : Correct(m)
Link == Subscribe \/ Close \/ Drained \/ GiveUp \/ Joined \/ Take
Stream == Vendor \/ Link \/ \E t \in threads : Ingest(t) \/ WriteFails(t)

-----------------------------------------------------------------------------
(* Properties.                                                               *)

Held(m) == {minute[m], queue[m]} \union {t.rows[m] : t \in threads}

(* While the stream passes for current, every message of the last window is *)
(* stored or on its way, or was in the one transaction whose failure the    *)
(* socket's reader has still to see; of a window that transaction did not   *)
(* touch, the bar is made of the stored minutes (a full queue, a thread     *)
(* that outlives its writer or a cut connection ends the freshness first).  *)
FreshIsHeard ==
  Current =>
    \A m \in MinutesOf(Closed) :
      /\ truth[m] \in Held(m) \union {lost[m]}
      /\ ~scene.rest /\ threads = {} /\ ~Has(lost, Closed) => bar[m] = minute[m]

(* What ingest_batch and the failure matrix say of a failed transaction: no *)
(* freshness, the reader interrupted, recovery over REST.  But the reader   *)
(* only wakes up to the writer's end (_receive), later still where it reads *)
(* the membership; until then current() vouches for what was lost.          *)
CurrentIsComplete == Current => \A m \in MinutesOf(Closed) : truth[m] \in Held(m)

(* A correction is never undone by an older message: a connection's last    *)
(* transaction is over before the next connection stores anything.          *)
MinutesNeverRegress == [][\A m \in Minute : minute[m] <= minute'[m]]_stream

=============================================================================
