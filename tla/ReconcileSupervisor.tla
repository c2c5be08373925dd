------------------------ MODULE ReconcileSupervisor ------------------------
(***************************************************************************)
(* Who may run the reconciliation pass, and how many at once.               *)
(*                                                                          *)
(* ReconciliationSupervisor.run is called by dashboard requests, by the     *)
(* route that switches automatic stops, and by the background loop.  One    *)
(* caller owns the pass; the others wait for its event on a worker thread,  *)
(* for at most _JOIN_TIMEOUT_SEC.  The guard is a threading primitive, so   *)
(* steps interleave as threads do: only the gate sections are atomic.       *)
(*                                                                          *)
(* A request that run_if_stale answers from the last success makes no call. *)
(* reset(), which drops the history, is called by tests alone.              *)
(***************************************************************************)
EXTENDS Naturals, FiniteSets

CONSTANTS Poller,     \* dashboard requests
          Operator,   \* requests that change the automatic-stop selection
          LoopTask,   \* background tasks that may ever be created
          None

Caller == Poller \union Operator \union LoopTask

ASSUME CallersDiffer ==
  /\ Poller \intersect Operator = {}
  /\ Poller \intersect LoopTask = {}
  /\ Operator \intersect LoopTask = {}
  /\ None \notin Caller

VARIABLES
  inflight,   \* whose event is in _inflight
  pc,         \* where each caller stands
  waits,      \* [Caller -> the owner whose event it waits for, None once set]
  ok,         \* status.ok: "none", "yes" or "no"
  shown,      \* status.unresolved is not empty
  actual,     \* history: the last successful pass left something unresolved
  loop,       \* _loop_task
  cancelled,  \* tasks asked to stop
  choice,     \* the automatic-stop selection on disk
  under,      \* [Operator -> the selection its own pass acted on]
  verdict,    \* [Caller -> how its own pass ended, "none" before it is recorded]
  news        \* history: joiners whose pass was recorded before they were woken

vars == <<inflight, pc, waits, ok, shown, actual, loop, cancelled, choice, under,
          verdict, news>>

Running == {"passing", "swept"}
Owning  == {"starting", "ending"} \union Running
Pc      == {"unborn", "idle", "saved", "sleeping", "joining", "signalling", "replying",
            "done"} \union Owning

TypeOK ==
  /\ inflight \in Caller \union {None}
  /\ pc \in [Caller -> Pc]
  /\ waits \in [Caller -> Caller \union {None}]
  /\ ok \in {"none", "yes", "no"}
  /\ shown \in BOOLEAN /\ actual \in BOOLEAN
  /\ loop \in LoopTask \union {None}
  /\ cancelled \in SUBSET LoopTask
  /\ choice \in BOOLEAN
  /\ under \in [Operator -> BOOLEAN]
  /\ verdict \in [Caller -> {"none", "failed", "clean", "unresolved"}]
  /\ news \in SUBSET Caller

Init ==
  /\ inflight = None
  /\ pc = [c \in Caller |-> IF c \in LoopTask THEN "unborn" ELSE "idle"]
  /\ waits = [c \in Caller |-> None]
  /\ ok = "none" /\ shown = FALSE /\ actual = FALSE
  /\ loop = None
  /\ cancelled = {}
  /\ choice \in BOOLEAN
  /\ under = [c \in Operator |-> FALSE]
  /\ verdict = [c \in Caller |-> "none"]
  /\ news = {}

-----------------------------------------------------------------------------
Goto(c, l) == pc' = [pc EXCEPT ![c] = l]

(* run returns: the loop sleeps, the operator's route composes its reply.    *)
Return(c) ==
  Goto(c, IF c \in LoopTask THEN "sleeping" ELSE IF c \in Operator THEN "replying" ELSE "idle")

(* The route stores the selection, then awaits the audit log before run.     *)
Save(c, v) ==
  /\ c \in Operator /\ pc[c] = "idle"
  /\ choice' = v
  /\ Goto(c, "saved")
  /\ UNCHANGED <<inflight, waits, ok, shown, actual, loop, cancelled, under, verdict, news>>

Calls(c) ==
  \/ c \in Poller /\ pc[c] = "idle"
  \/ c \in Operator /\ pc[c] = "saved"
  \/ c \in LoopTask /\ pc[c] = "sleeping" /\ c \notin cancelled

(* The gate section: own the pass, or take the event of whoever owns it.     *)
Own(c) ==
  /\ Calls(c)
  /\ inflight = None
  /\ inflight' = c
  /\ Goto(c, "starting")
  /\ UNCHANGED <<waits, ok, shown, actual, loop, cancelled, choice, under, verdict, news>>

Join(c) ==
  /\ Calls(c)
  /\ inflight # None
  /\ waits' = [waits EXCEPT ![c] = inflight]
  /\ Goto(c, "joining")
  /\ UNCHANGED <<inflight, ok, shown, actual, loop, cancelled, choice, under, verdict, news>>

Begin(c) ==
  /\ pc[c] = "starting"
  /\ Goto(c, "passing")
  /\ UNCHANGED <<inflight, waits, ok, shown, actual, loop, cancelled, choice, under, verdict, news>>

(* The protective sweep of the pass acts on the selection it reads.          *)
Sweep(c) ==
  /\ pc[c] = "passing"
  /\ under' = [o \in Operator |-> IF o = c THEN choice ELSE under[o]]
  /\ Goto(c, "swept")
  /\ UNCHANGED <<inflight, waits, ok, shown, actual, loop, cancelled, choice, verdict, news>>

(* getattr(report, "unresolved", ()) of the dict every caller's pass returns. *)
Attribute(left) == FALSE

PassSucceeds(c, left) ==
  /\ pc[c] = "swept"
  /\ ok' = "yes"
  /\ shown' = Attribute(left)
  /\ actual' = left
  /\ verdict' = [verdict EXCEPT ![c] = IF left THEN "unresolved" ELSE "clean"]
  /\ Goto(c, "ending")
  /\ UNCHANGED <<inflight, waits, loop, cancelled, choice, under, news>>

(* A bug: the failure propagates before it is recorded. *)
PassRaises(c) ==
  /\ pc[c] \in Running
  /\ Goto(c, "ending")
  /\ UNCHANGED <<inflight, waits, ok, shown, actual, loop, cancelled, choice, under, verdict, news>>

(* A bug of the kind the module's comment fears: a pass that raises takes the *)
(* background task down with it.                                             *)
PassFailsKillsLoop(c) ==
  /\ pc[c] \in Running
  /\ ok' = "no"
  /\ pc' = [pc EXCEPT ![c] = IF c \in LoopTask THEN "done" ELSE "ending"]
  /\ inflight' = IF c \in LoopTask THEN None ELSE inflight
  /\ UNCHANGED <<waits, shown, actual, loop, cancelled, choice, under, verdict, news>>

PassFails(c) ==
  /\ pc[c] \in Running
  /\ ok' = "no"
  /\ verdict' = [verdict EXCEPT ![c] = "failed"]
  /\ Goto(c, "ending")
  /\ UNCHANGED <<inflight, waits, shown, actual, loop, cancelled, choice, under, news>>

(* CancelledError is no Exception: only the finally clause sees it.          *)
PassCancelled(c) ==
  /\ pc[c] \in Running /\ c \in cancelled
  /\ Goto(c, "ending")
  /\ UNCHANGED <<inflight, waits, ok, shown, actual, loop, cancelled, choice, under, verdict, news>>

(* A bug: the event is set only when the pass was not cancelled. *)
ReleaseNoFinally(c) ==
  /\ pc[c] = "ending"
  /\ inflight' = None
  /\ Goto(c, IF c \in cancelled THEN "done" ELSE "signalling")
  /\ UNCHANGED <<waits, ok, shown, actual, loop, cancelled, choice, under, verdict, news>>

(* The finally clause: the gate section, then the event.                     *)
Release(c) ==
  /\ pc[c] = "ending"
  /\ inflight' = None
  /\ Goto(c, "signalling")
  /\ UNCHANGED <<waits, ok, shown, actual, loop, cancelled, choice, under, verdict, news>>

Signal(c) ==
  /\ pc[c] = "signalling"
  /\ waits' = [j \in Caller |-> IF waits[j] = c THEN None ELSE waits[j]]
  /\ news' = IF verdict[c] = "none" THEN news ELSE news \union {j \in Caller : waits[j] = c}
  /\ verdict' = [verdict EXCEPT ![c] = IF c \in Operator THEN @ ELSE "none"]
  /\ Return(c)
  /\ UNCHANGED <<inflight, ok, shown, actual, loop, cancelled, choice, under>>

(* A bug: the route takes the status for the verdict on its own selection. *)
JoinedVerifies(c) ==
  /\ pc[c] = "joining" /\ waits[c] = None
  /\ Return(c)
  /\ news' = news \ {c}
  /\ verdict' = [verdict EXCEPT ![c] = IF ok = "yes" THEN "clean" ELSE "none"]
  /\ UNCHANGED <<inflight, waits, ok, shown, actual, loop, cancelled, choice, under>>

(* A joiner resumes with the status as it is: no pass of its own ran.        *)
Joined(c) ==
  /\ pc[c] = "joining" /\ waits[c] = None
  /\ Return(c)
  /\ news' = news \ {c}
  /\ UNCHANGED <<inflight, waits, ok, shown, actual, loop, cancelled, choice, under, verdict>>

(* A bug: a joiner that waited long enough takes the pass for dead. *)
JoinTimeoutTakesOver(c) ==
  /\ pc[c] = "joining" /\ waits[c] # None
  /\ waits' = [waits EXCEPT ![c] = None]
  /\ inflight' = None
  /\ Return(c)
  /\ UNCHANGED <<ok, shown, actual, loop, cancelled, choice, under, verdict, news>>

(* A bug: an unbounded wait. *)
JoinTimeoutNever(c) == FALSE

JoinTimeout(c) ==
  /\ pc[c] = "joining" /\ waits[c] # None
  /\ waits' = [waits EXCEPT ![c] = None]
  /\ Return(c)
  /\ UNCHANGED <<inflight, ok, shown, actual, loop, cancelled, choice, under, verdict, news>>

(* The route answers with the selection as it is NOW and its pass's verdict. *)
Reply(c) ==
  /\ pc[c] = "replying"
  /\ Goto(c, "idle")
  /\ verdict' = [verdict EXCEPT ![c] = "none"]
  /\ under' = [under EXCEPT ![c] = FALSE]
  /\ UNCHANGED <<inflight, waits, ok, shown, actual, loop, cancelled, choice, news>>

-----------------------------------------------------------------------------
(* The background loop.                                                      *)

Live == {t \in LoopTask : pc[t] # "done"}

(* A bug: a second call starts a second loop. *)
StartLoopAgain(t) ==
  /\ pc[t] = "unborn"
  /\ loop' = t
  /\ Goto(t, "sleeping")
  /\ UNCHANGED <<inflight, waits, ok, shown, actual, cancelled, choice, under, verdict, news>>

StartLoop(t) ==
  /\ loop \notin Live
  /\ pc[t] = "unborn"
  /\ loop' = t
  /\ Goto(t, "sleeping")
  /\ UNCHANGED <<inflight, waits, ok, shown, actual, cancelled, choice, under, verdict, news>>

StopLoop ==
  /\ loop # None
  /\ cancelled' = cancelled \union {loop}
  /\ loop' = None
  /\ UNCHANGED <<inflight, pc, waits, ok, shown, actual, choice, under, verdict, news>>

(* The cancelled task ends at the await it is in; a worker thread that waits *)
(* on its behalf answers to nobody.                                          *)
LoopEnds(t) ==
  /\ t \in cancelled /\ pc[t] \in {"sleeping", "joining"}
  /\ waits' = [waits EXCEPT ![t] = None]
  /\ news' = news \ {t}
  /\ Goto(t, "done")
  /\ UNCHANGED <<inflight, ok, shown, actual, loop, cancelled, choice, under, verdict>>

Call(c) == Own(c) \/ Join(c)
Proceed(c) ==
  Begin(c) \/ Release(c) \/ Signal(c) \/ Joined(c) \/ JoinTimeout(c) \/ Reply(c)
Pass(c) ==
  \/ Sweep(c) \/ PassFails(c) \/ PassCancelled(c)
  \/ \E left \in BOOLEAN : PassSucceeds(c, left)

Next ==
  \/ \E c \in Caller : Call(c) \/ Proceed(c) \/ Pass(c) \/ \E v \in BOOLEAN : Save(c, v)
  \/ \E t \in LoopTask : StartLoop(t) \/ LoopEnds(t)
  \/ StopLoop

Spec == Init /\ [][Next]_vars

(* Threads are scheduled and the loop's timer fires.  Nothing makes a pass   *)
(* end: it may be wedged on a broker socket for ever.                        *)
Fairness ==
  /\ \A c \in Caller : WF_vars(Proceed(c))
  /\ \A t \in LoopTask : WF_vars(Call(t))

FairSpec == Spec /\ Fairness

-----------------------------------------------------------------------------
(* One pass at a time, whoever asks, joins, gives up waiting or is cancelled: *)
(* two passes over one book both replace the same missing stop.              *)
SingleFlight == \A c, d \in Caller : pc[c] \in Owning /\ pc[d] \in Owning => c = d

(* Nobody waits for an event that will not be set: its owner is still on its *)
(* way to done.set().                                                        *)
NoLostWakeup ==
  \A c \in Caller : pc[c] = "joining" /\ waits[c] # None =>
    pc[waits[c]] \in Owning \union {"signalling"}

(* The gate is held by the caller that runs the pass, and by nobody once it  *)
(* is over: a gate left closed would turn every later pass into a wait.      *)
GateIsHeld == \A c \in Caller : pc[c] \in Owning <=> inflight = c

(* A pass that ends without a record was cancelled. *)
EndIsRecorded ==
  \A c \in Caller :
    pc[c] \in {"ending", "signalling"} /\ verdict[c] = "none" => c \in cancelled

(* A woken joiner has news, or a cancelled loop woke it. *)
WokenHaveNews ==
  \A c \in Caller :
    pc[c] = "joining" /\ waits[c] = None => c \in news \/ cancelled # {}

(* The inductive invariant of the supervisor: the gate, the events and the   *)
(* record of a pass agree in every interleaving of its callers.              *)
FlightInv ==
  TypeOK /\ GateIsHeld /\ NoLostWakeup /\ EndIsRecorded /\ WokenHaveNews

(* A second start_reconcile_loop never adds a second live loop.              *)
LoopIsOne ==
  \A s, t \in LoopTask :
    (\A u \in {s, t} : pc[u] \notin {"unborn", "done"} /\ u \notin cancelled) => s = t

(* A joiner woken by the event answers with a status that the pass it joined *)
(* has written, unless the cancelled loop took that pass down with it.       *)
JoinedIsAnswered ==
  [][\A c \in Caller :
      pc[c] = "joining" /\ waits[c] = None /\ pc'[c] # "joining" =>
        c \in news \/ cancelled # {}]_vars

(* reconciliation_ok is only said of a selection the caller's pass acted on: *)
(* joining an older pass cannot verify it.                                   *)
VerifiedSelection ==
  [][\A c \in Operator :
      pc[c] = "replying" /\ pc'[c] = "idle" /\ verdict[c] = "clean" => under[c] = choice]_vars

(* What the last successful pass could not resolve is in the status that the *)
(* desk renders and the alerts read.                                         *)
UnresolvedIsSurfaced == actual => shown

(* A joiner gets its answer even while the pass it joined never ends.        *)
JoinersReturn == \A c \in Caller : pc[c] = "joining" ~> pc[c] # "joining"

(* While the loop is armed a pass runs again, whatever the last one did.     *)
LoopKeepsTrying == loop # None ~> (loop = None \/ \E c \in Caller : pc[c] \in Running)
=============================================================================
