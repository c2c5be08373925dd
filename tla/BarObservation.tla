--------------------------- MODULE BarObservation ---------------------------
(***************************************************************************)
(* Who looks at the bars of one symbol: the full pass, which replays what   *)
(* the store holds after recovering it over REST, the fast pass, which      *)
(* takes the windows the stream has just completed, and the entry worker,   *)
(* to which the full pass hands a confirmed setup (strategy/orb/runtime.py  *)
(* observe, observe_priority, _evaluate_deferred_entries;                   *)
(* strategy/orb/retest_data.py).                                            *)
(*                                                                          *)
(* The symbol's row says that no bar has broken out yet ("wait"), that a    *)
(* replay has seen one that did ("seen"; what follows is Retest's), or that *)
(* the data are blocked.  A pass is atomic between its awaits.              *)
(***************************************************************************)
EXTENDS BarStream

CONSTANTS Overlap,  \* windows asked for again before what is proven
          Surge     \* <<minute, version>>: a last close above the range

ASSUME ObservationAssumption == Overlap \in Nat \ {0} /\ Surge \subseteq Minute \X (1..Versions)

VARIABLES
  why,       \* the reason in the symbol's row
  coverage,  \* _coverage: windows REST has answered for
  failure,   \* _failures: none, recent (its time is not over) or old
  cached,    \* _cache: per boundary, a complete ("whole") or partial replay
  pass,      \* the passes and their locals
  older      \* <<p, q>>: p looked at the clock before q did

recovery == <<coverage, failure, cached>>
vars == <<stream, why, recovery, pass, older>>

Pass == {"full", "fast", "entry"}
Evaluator == Pass \ {"full"}
Idle == [at |-> "idle", end |-> 0, batch |-> None, waits |-> FALSE, rows |-> None, start |-> 0,
         says |-> "none", stale |-> FALSE]

TypeOK ==
  /\ StreamTypeOK
  /\ why \in {"wait", "seen", "blocked"}
  /\ coverage \in 0..Windows /\ failure \in {"none", "recent", "old"}
  /\ cached \in [0..Windows -> {"none", "part", "whole"}]
  /\ pass \in [Pass -> [at : {"idle", "queued", "session", "history", "plan", "ask", "save", "probe",
                              "probed", "load", "read", "judge", "update", "write"},
                        end : 0..Windows, batch : Rows, waits : BOOLEAN, rows : Rows,
                        start : 0..Windows, says : {"none", "wait", "seen", "blocked"},
                        stale : BOOLEAN]]
  /\ older \subseteq Pass \X Pass

Init ==
  /\ StreamInit
  /\ why = "wait"
  /\ coverage = 0 /\ failure = "none" /\ cached = [e \in 0..Windows |-> "none"]
  /\ pass = [p \in Pass |-> Idle] /\ older = {}

(* The last minute of a window that was traded in closes above the range.   *)
BreaksOut(rows, w) ==
  \E m \in MinutesOf(w) :
    /\ <<m, rows[m]>> \in Surge
    /\ \A n \in MinutesOf(w) : n > m => rows[n] = 0

Until(rows, start, end) == Only(rows, {w \in Window : start < w /\ w <= end})
Contiguous(end) == \A w \in Window : w <= end => Has(bar, w)      \* first_gap = end
Known(rows, end) == coverage >= end \/ \A w \in Window : w <= end => Has(rows, w)
Verdict(rows) == IF \E w \in Window : BreaksOut(rows, w) THEN "seen" ELSE "wait"

Become(p, r) == pass' = [pass EXCEPT ![p] = r]
Goto(p, l) == Become(p, [pass[p] EXCEPT !.at = l])

(* A pass looks at the clock: what it sees from now on is observed then.    *)
Now(p) == older' = {e \in older : p \notin {e[1], e[2]}} \union {<<q, p>> : q \in Pass \ {p}}

(* _evaluating: one evaluation of the symbol at a time.                     *)
Evaluating(p) == p \in Evaluator /\ pass[p].at \in {"read", "judge", "update"}
Underway == \E p \in Evaluator : Evaluating(p)

-----------------------------------------------------------------------------
(* Recovery: prime_bars, for every pass.                                     *)

(* Where a request starts: behind what is proven, or, of a history that the *)
(* stream made whole, at its end; otherwise at the start of the session.    *)
Start(end) ==
  LET n == IF coverage > 0 THEN coverage ELSE IF Contiguous(end) THEN end ELSE 0
  IN  IF n > Overlap THEN n - Overlap ELSE 0

Remember(end, c) == cached' = [cached EXCEPT ![end] = c]
Seen(end) == IF Known(bar, end) THEN "whole" ELSE "part"

(* Cached, or failed a moment ago: nothing is asked.                        *)
SkipRecovery(p) ==
  /\ pass[p].at = "plan"
  /\ cached[pass[p].end] # "none" \/ failure = "recent"
  /\ Goto(p, "load")
  /\ UNCHANGED <<stream, why, recovery, older>>

PlanRecovery(p) ==
  LET end == pass[p].end IN
  /\ pass[p].at = "plan"
  /\ cached[end] = "none" /\ failure # "recent"
  /\ Remember(end, Seen(end))
  /\ IF Known(bar, end) /\ Current
       THEN Goto(p, "load") /\ failure' = "none"
       ELSE /\ UNCHANGED failure
            /\ Become(p, [pass[p] EXCEPT !.at = IF Start(end) < end THEN "ask" ELSE "load",
                                         !.start = Start(end)])
  /\ UNCHANGED <<stream, why, coverage, older>>

(* The vendor answers with what it knows at that moment.                    *)
Answer(p) ==
  /\ pass[p].at = "ask" /\ scene.rest
  /\ Become(p, [pass[p] EXCEPT !.at = "save", !.rows = Until(truth, pass[p].start, pass[p].end)])
  /\ UNCHANGED <<stream, why, recovery, older>>

(* It does not answer, or the answer cannot be stored.                      *)
AskFails(p) ==
  /\ pass[p].at \in {"ask", "save"}
  /\ \/ ~scene.rest /\ UNCHANGED scene
     \/ scene.faults > 0 /\ scene' = [scene EXCEPT !.faults = @ - 1]
  /\ failure' = "recent" /\ Remember(pass[p].end, "none")
  /\ Goto(p, "probe")
  /\ UNCHANGED <<market, store, link, pending, why, coverage, older>>

SaveAnswer(p) ==
  /\ pass[p].at = "save"
  /\ bar' = Over(pass[p].rows, bar)
  /\ coverage' = Larger(pass[p].end, coverage)
  /\ failure' = "none" /\ Remember(pass[p].end, "whole")
  /\ Become(p, [pass[p] EXCEPT !.at = "load", !.rows = None, !.start = 0])
  /\ UNCHANGED <<scene, market, minute, link, pending, why, older>>

(* One request for the last three windows, which proves nothing.            *)
Probe(p) ==
  /\ pass[p].at = "probe"
  /\ \/ scene.rest
        /\ Become(p, [pass[p] EXCEPT !.at = "probed",
                                     !.rows = Until(truth, pass[p].end - 3, pass[p].end)])
     \/ Goto(p, "load")
  /\ UNCHANGED <<stream, why, recovery, older>>

StoreProbe(p) ==
  /\ pass[p].at = "probed"
  /\ bar' = Over(pass[p].rows, bar)
  /\ Become(p, [pass[p] EXCEPT !.at = "load", !.rows = None])
  /\ UNCHANGED <<scene, market, minute, link, pending, why, recovery, older>>

(* The failure's half minute, and the partial replay's five seconds.        *)
FailureAges ==
  /\ failure = "recent" /\ failure' = "old"
  /\ UNCHANGED <<stream, why, coverage, cached, pass, older>>

CacheAges ==
  /\ \E e \in 0..Windows : cached[e] = "part" /\ Remember(e, "none")
  /\ UNCHANGED <<stream, why, coverage, failure, pass, older>>

Recover(p) ==
  \/ SkipRecovery(p) \/ PlanRecovery(p) \/ Answer(p) \/ AskFails(p) \/ SaveAnswer(p)
  \/ Probe(p) \/ StoreProbe(p)

-----------------------------------------------------------------------------
(* The full pass, one at a time (observe joins the one in flight).  It      *)
(* leaves a symbol alone that waits for the entry worker or is evaluated.   *)

StartFull ==
  /\ scene.sweeps /\ pass["full"].at = "idle"
  /\ pass["entry"].at = "idle" /\ ~Underway
  /\ Become("full", [Idle EXCEPT !.at = "plan", !.end = Closed])
  /\ Now("full")
  /\ UNCHANGED <<stream, why, recovery>>

(* read_cached_bars: the rows first, what is known of them after the await. *)
LoadFull ==
  /\ pass["full"].at = "load"
  /\ Become("full", [pass["full"] EXCEPT !.at = "judge", !.rows = Until(bar, 0, pass["full"].end)])
  /\ UNCHANGED <<stream, why, recovery, older>>

Replayed(f) ==
  IF failure # "none" \/ ~Known(f.rows, f.end) THEN "blocked" ELSE Verdict(f.rows)

JudgeFull ==
  LET f == pass["full"] IN
  /\ f.at = "judge"
  /\ Become("full", [f EXCEPT !.at = "write", !.rows = None, !.says = Replayed(f)])
  /\ UNCHANGED <<stream, why, recovery, older>>

(* A setup that goes on from the breakout to its confirmation (Retest) is   *)
(* for the entry worker: _pending_entries.                                  *)
Defer ==
  /\ pass["full"].at = "judge" /\ Replayed(pass["full"]) = "seen"
  /\ scene.entries > 0 /\ scene' = [scene EXCEPT !.entries = @ - 1]
  /\ pass' = [pass EXCEPT !["full"] = Idle, !["entry"] = [Idle EXCEPT !.at = "queued"]]
  /\ UNCHANGED <<market, store, link, pending, why, recovery, older>>

(* The stored history cannot be read: the batch is blocked, as of now.      *)
HistoryFails ==
  /\ pass["full"].at = "plan" /\ scene.faults > 0
  /\ scene' = [scene EXCEPT !.faults = @ - 1]
  /\ Become("full", [pass["full"] EXCEPT !.at = "write", !.says = "blocked", !.stale = FALSE])
  /\ Now("full")
  /\ UNCHANGED <<market, store, link, pending, why, recovery>>

Full == StartFull \/ LoadFull \/ JudgeFull \/ Defer \/ HistoryFails

-----------------------------------------------------------------------------
(* The fast pass, every second (_priority_lock).                             *)

Capture ==
  /\ pass["fast"].at = "idle" /\ pending # None
  /\ Become("fast", [Idle EXCEPT !.at = "session", !.batch = pending, !.end = Closed])
  /\ pending' = None
  /\ Now("fast")
  /\ UNCHANGED <<scene, market, store, link, why, recovery>>

ReadSession ==
  /\ pass["fast"].at = "session"
  /\ Become("fast", [pass["fast"] EXCEPT !.at = "history", !.waits = (why = "wait")])
  /\ UNCHANGED <<stream, why, recovery, older>>

(* A bar that cannot break out, of a row that waits and a history without   *)
(* gaps, is answered from the row; anything else is evaluated.              *)
CheckHistory ==
  LET f == pass["fast"] IN
  /\ f.at = "history"
  /\ IF f.waits /\ Known(bar, f.end) /\ \A w \in Window : ~BreaksOut(f.batch, w)
       THEN Become("fast", [f EXCEPT !.at = "write", !.says = "wait"])
       ELSE Goto("fast", "plan")
  /\ UNCHANGED <<stream, why, recovery, older>>

Fast == Capture \/ ReadSession \/ CheckHistory

-----------------------------------------------------------------------------
(* Evaluation: evaluate_observation_batch, of the fast pass and of the       *)
(* entry worker.                                                             *)

StartEntry ==
  /\ pass["entry"].at = "queued"
  /\ Become("entry", [pass["entry"] EXCEPT !.at = "plan", !.end = Closed])
  /\ UNCHANGED <<stream, why, recovery, older>>

(* A symbol that is being evaluated is passed over: this pass is done with  *)
(* what it had.                                                             *)
Enter(p) ==
  /\ pass[p].at = "load"
  /\ IF Underway THEN Become(p, Idle) ELSE Goto(p, "read")
  /\ UNCHANGED <<stream, why, recovery, older>>

(* evaluate_symbol, with the boundary of its own moment.                    *)
Load(p) ==
  /\ pass[p].at = "read"
  /\ Become(p, [pass[p] EXCEPT !.at = "judge", !.end = Closed, !.rows = Until(bar, 0, Closed)])
  /\ UNCHANGED <<stream, why, recovery, older>>

(* What read_bars lets through is replayed as of the moment after it: if a  *)
(* boundary has gone by since, and nobody vouches for the window, the bars  *)
(* are stale.                                                               *)
Judge(p) ==
  LET f == pass[p]
      readable == Known(f.rows, f.end) /\ (Current \/ failure = "none")
      says == IF Known(f.rows, Closed) THEN Verdict(f.rows) ELSE "blocked"
  IN
  /\ f.at = "judge"
  /\ Become(p, [f EXCEPT !.at = IF readable THEN "update" ELSE "write", !.rows = None,
                         !.stale = FALSE, !.says = IF readable THEN says ELSE "blocked"])
  /\ Now(p)
  /\ UNCHANGED <<stream, why, recovery>>

(* It raises or takes 45 seconds: its batch blocks the symbol.              *)
EvaluationFails(p) ==
  /\ Evaluating(p) /\ scene.faults > 0
  /\ scene' = [scene EXCEPT !.faults = @ - 1]
  /\ Become(p, [pass[p] EXCEPT !.at = "write", !.rows = None, !.stale = FALSE, !.says = "blocked"])
  /\ Now(p)
  /\ UNCHANGED <<market, store, link, pending, why, recovery>>

Evaluate(p) == Enter(p) \/ Load(p) \/ Judge(p) \/ EvaluationFails(p)

-----------------------------------------------------------------------------
(* What a pass found, and a pass that ends early.                            *)

(* The row was observed later than this pass looked at the clock.           *)
Overtaken(p) == pass[p].stale

Write(p) ==
  /\ pass[p].at \in {"update", "write"}
  /\ IF Overtaken(p)
       THEN UNCHANGED why /\ Become(p, Idle)
       ELSE /\ why' = pass[p].says
            /\ pass' = [q \in Pass |->
                 IF q = p THEN Idle
                 ELSE IF <<q, p>> \in older /\ pass[q].at # "idle" THEN [pass[q] EXCEPT !.stale = TRUE]
                 ELSE pass[q]]
  /\ UNCHANGED <<stream, recovery, older>>

(* Mutant of Restored: the batch goes down with its pass.                   *)
NotRestored(batch) == pending

(* Captured windows go back, unless a newer version waits already.          *)
Restored(batch) == Over(pending, batch)

(* An exception or a timeout: the full pass is simply over, the entry       *)
(* worker keeps its queue.                                                  *)
PassFails(p) ==
  /\ pass[p].at \notin {"idle", "queued", "judge"} /\ scene.faults > 0
  /\ p \in Evaluator => pass[p].at # "load" /\ ~Evaluating(p)
  /\ scene' = [scene EXCEPT !.faults = @ - 1]
  /\ pending' = IF p = "fast" THEN Restored(pass[p].batch) ELSE pending
  /\ Become(p, [Idle EXCEPT !.at = IF p = "entry" THEN "queued" ELSE "idle"])
  /\ UNCHANGED <<market, store, link, why, recovery, older>>

(* The process restarts: the database is what it was.                       *)
Crash ==
  /\ scene.crashes > 0 /\ scene' = [scene EXCEPT !.crashes = @ - 1]
  /\ conn' = "down" /\ queue' = None /\ writer' = "ready" /\ threads' = {} /\ fresh' = Stale
  /\ since' = 0 /\ lost' = None /\ pending' = None
  /\ coverage' = 0 /\ failure' = "none" /\ cached' = [e \in 0..Windows |-> "none"]
  /\ pass' = [p \in Pass |-> Idle] /\ older' = {}
  /\ UNCHANGED <<market, store, why>>

Observe(p) ==
  \/ Recover(p) \/ Write(p)
  \/ p = "full" /\ Full
  \/ p = "fast" /\ Fast
  \/ p = "entry" /\ StartEntry
  \/ p \in Evaluator /\ Evaluate(p)

Next ==
  \/ Stream /\ UNCHANGED <<why, recovery, pass, older>>
  \/ \E p \in Pass : Observe(p) \/ PassFails(p)
  \/ FailureAges \/ CacheAges \/ Crash

Spec == Init /\ [][Next]_vars

(* Passes run to their next await and start again; time passes.  Nobody     *)
(* obliges the vendor, the connection or the stream's writer to anything.   *)
Fairness ==
  /\ \A p \in Pass : WF_vars(Observe(p))
  /\ WF_vars(FailureAges) /\ WF_vars(CacheAges)

FairSpec == Spec /\ Fairness

-----------------------------------------------------------------------------
(* Properties.                                                               *)

(* A stored bar that breaks out does not stay unseen while its row shows a  *)
(* fresh WAIT_BREAKOUT: a captured batch survives the failure of its pass   *)
(* (observe_priority), and a full pass is not overruled for good by what    *)
(* was observed before it (update_states).                                  *)
Unseen(w) ==
  /\ why = "wait" /\ w <= Closed /\ BreaksOut(bar, w)
  /\ scene.sweeps \/ BreaksOut(pending, w) \/ BreaksOut(pass["fast"].batch, w)
BreakoutIsSeen == \A w \in Window : Unseen(w) ~> (why # "wait" \/ ~BreaksOut(bar, w))

=============================================================================
