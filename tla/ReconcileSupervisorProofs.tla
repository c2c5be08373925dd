--------------------- MODULE ReconcileSupervisorProofs ---------------------
(***************************************************************************)
(* Proofs about ReconcileSupervisor for any number of requests, operators   *)
(* and background tasks.  FlightInv is inductive: GateIsHeld carries the    *)
(* single flight, NoLostWakeup follows the owner from the gate to the       *)
(* event, and the two history clauses say what a woken joiner may read.     *)
(***************************************************************************)
EXTENDS ReconcileSupervisor, TLAPS

USE CallersDiffer DEF Caller, Pc, Owning, Running

(* At first no pass is asked for.                                           *)
LEMMA FlightInit == Init => FlightInv
<1> SUFFICES ASSUME Init PROVE FlightInv
  OBVIOUS
<1>1. TypeOK
  <2>1. pc \in [Caller -> {"unborn", "idle"}]
    BY DEF Init
  <2>2. waits \in [Caller -> {None}] /\ verdict \in [Caller -> {"none"}]
    BY DEF Init
  <2>3. under \in [Operator -> BOOLEAN]
    BY DEF Init
  <2>4. pc \in [Caller -> Pc] /\ waits \in [Caller -> Caller \union {None}]
    BY <2>1, <2>2, SMT
  <2>5. verdict \in [Caller -> {"none", "failed", "clean", "unresolved"}]
    BY <2>2, SMT
  <2> QED BY <2>3, <2>4, <2>5 DEF Init, TypeOK
<1>2. \A c \in Caller : pc[c] \in {"unborn", "idle"}
  BY DEF Init
<1>3. GateIsHeld
  BY <1>2 DEF Init, GateIsHeld
<1>4. NoLostWakeup /\ EndIsRecorded /\ WokenHaveNews
  BY <1>2 DEF NoLostWakeup, EndIsRecorded, WokenHaveNews
<1> QED BY <1>1, <1>3, <1>4 DEF FlightInv

(* Saving a selection and calling run: own the gate or join its owner.       *)
LEMMA CallKeeps ==
  ASSUME FlightInv, NEW c \in Caller,
         Call(c) \/ \E v \in BOOLEAN : Save(c, v)
  PROVE  FlightInv'
<1> USE DEF FlightInv, TypeOK, GateIsHeld, NoLostWakeup, EndIsRecorded, WokenHaveNews
<1>1. CASE Own(c)
  BY <1>1, SMT DEF Own, Calls, Goto
<1>2. CASE Join(c)
  BY <1>2, SMT DEF Join, Calls, Goto
<1>3. ASSUME NEW v \in BOOLEAN, Save(c, v) PROVE FlightInv'
  BY <1>3, SMT DEF Save, Goto
<1> QED BY <1>1, <1>2, <1>3 DEF Call

(* The pass itself, from its first await to the record or the cancellation.  *)
LEMMA PassKeeps ==
  ASSUME FlightInv, NEW c \in Caller, Begin(c) \/ Pass(c)
  PROVE  FlightInv'
<1> USE DEF FlightInv, TypeOK, GateIsHeld, NoLostWakeup, EndIsRecorded, WokenHaveNews
<1>1. CASE Begin(c)
  BY <1>1, SMT DEF Begin, Goto
<1>2. CASE Sweep(c)
  BY <1>2, SMT DEF Sweep, Goto
<1>3. CASE PassFails(c)
  BY <1>3, SMT DEF PassFails, Goto
<1>4. CASE PassCancelled(c)
  BY <1>4, SMT DEF PassCancelled, Goto
<1>5. ASSUME NEW left \in BOOLEAN, PassSucceeds(c, left) PROVE FlightInv'
  <2>1. TypeOK'
    <3>1. (IF left THEN "unresolved" ELSE "clean") \in {"unresolved", "clean"}
      OBVIOUS
    <3>2. verdict' \in [Caller -> {"none", "failed", "clean", "unresolved"}]
      BY <1>5, <3>1 DEF PassSucceeds
    <3>3. actual' \in BOOLEAN /\ shown' \in BOOLEAN
      BY <1>5 DEF PassSucceeds, Attribute
    <3> QED BY <1>5, <3>2, <3>3, SMT DEF PassSucceeds, Goto
  <2>2. GateIsHeld' /\ NoLostWakeup' /\ WokenHaveNews'
    BY <1>5, SMT DEF PassSucceeds, Goto
  <2>3. EndIsRecorded'
    BY <1>5, <2>1, SMT DEF PassSucceeds, Goto
  <2> QED BY <2>1, <2>2, <2>3
<1> QED BY <1>1, <1>2, <1>3, <1>4, <1>5 DEF Pass

(* The way out of run: the finally clause, the event, the joiners' returns.  *)
LEMMA ReturnKeeps ==
  ASSUME FlightInv, NEW c \in Caller,
         Release(c) \/ Signal(c) \/ Joined(c) \/ JoinTimeout(c) \/ Reply(c)
  PROVE  FlightInv'
<1> USE DEF FlightInv, TypeOK, GateIsHeld, NoLostWakeup, EndIsRecorded, WokenHaveNews
<1>1. CASE Release(c)
  BY <1>1, SMT DEF Release, Goto
<1>2. CASE Signal(c)
  BY <1>2, SMT DEF Signal, Return, Goto
<1>3. CASE Joined(c)
  BY <1>3, SMT DEF Joined, Return, Goto
<1>4. CASE JoinTimeout(c)
  BY <1>4, SMT DEF JoinTimeout, Return, Goto
<1>5. CASE Reply(c)
  <2>1. TypeOK'
    <3>1. under' \in [Operator -> BOOLEAN]
      BY <1>5 DEF Reply
    <3> QED BY <1>5, <3>1, SMT DEF Reply, Goto
  <2>2. GateIsHeld' /\ NoLostWakeup' /\ EndIsRecorded' /\ WokenHaveNews'
    BY <1>5, SMT DEF Reply, Goto
  <2> QED BY <2>1, <2>2
<1> QED BY <1>1, <1>2, <1>3, <1>4, <1>5

(* Starting, stopping and ending the background loop.                        *)
LEMMA LoopKeeps ==
  ASSUME FlightInv, StopLoop \/ \E t \in LoopTask : StartLoop(t) \/ LoopEnds(t)
  PROVE  FlightInv'
<1> USE DEF FlightInv, TypeOK, GateIsHeld, NoLostWakeup, EndIsRecorded, WokenHaveNews
<1>1. CASE StopLoop
  BY <1>1, SMT DEF StopLoop
<1>2. ASSUME NEW t \in LoopTask, StartLoop(t) PROVE FlightInv'
  BY <1>2, SMT DEF StartLoop, Goto
<1>3. ASSUME NEW t \in LoopTask, LoopEnds(t) PROVE FlightInv'
  BY <1>3, SMT DEF LoopEnds, Goto
<1> QED BY <1>1, <1>2, <1>3

(* Every step keeps who asked and who runs in agreement.                    *)
LEMMA FlightStep == FlightInv /\ [Next]_vars => FlightInv'
<1> SUFFICES ASSUME FlightInv, [Next]_vars PROVE FlightInv'
  OBVIOUS
<1>1. CASE UNCHANGED vars
  BY <1>1 DEF vars, FlightInv, TypeOK, GateIsHeld, NoLostWakeup, EndIsRecorded, WokenHaveNews
<1>2. CASE Next
  BY <1>2, CallKeeps, PassKeeps, ReturnKeeps, LoopKeeps DEF Next, Proceed
<1> QED BY <1>1, <1>2

(* The supervisor's inductive invariant, for every set of callers: the gate  *)
(* is held exactly while a pass runs and no joiner waits for nothing.        *)
THEOREM SupervisorInvariant == Spec => []FlightInv
  BY FlightInit, FlightStep, PTL DEF Spec

(* run admits one pass at a time, however many requests and loops call it.   *)
THEOREM OnePassAtATime == Spec => []SingleFlight
<1>1. FlightInv => SingleFlight
  BY DEF FlightInv, GateIsHeld, SingleFlight
<1> QED BY <1>1, SupervisorInvariant, PTL

(* A joiner woken by the event of run reads a status its pass has written,   *)
(* unless stop_reconcile_loop cancelled a pass.                              *)
THEOREM WokenAreAnswered == Spec => JoinedIsAnswered
<1>1. FlightInv /\ [Next]_vars =>
        [\A c \in Caller :
          pc[c] = "joining" /\ waits[c] = None /\ pc'[c] # "joining" =>
            c \in news \/ cancelled # {}]_vars
  BY DEF FlightInv, WokenHaveNews
<1> QED BY <1>1, SupervisorInvariant, PTL DEF Spec, JoinedIsAnswered

(* Nobody in run waits for an event that its owner is not on its way to set. *)
THEOREM NoWakeupIsLost == Spec => []NoLostWakeup
<1>1. FlightInv => NoLostWakeup
  BY DEF FlightInv
<1> QED BY <1>1, SupervisorInvariant, PTL

-----------------------------------------------------------------------------
(* The only task that is alive and not asked to stop is the one in           *)
(* _loop_task: start_reconcile_loop looks at nothing else.                   *)
LoopInv ==
  \A t \in LoopTask : pc[t] \notin {"unborn", "done"} /\ t \notin cancelled => loop = t

(* No loop runs before the first is started.                                *)
LEMMA LoopInit == Init => LoopInv
<1> SUFFICES ASSUME Init, NEW t \in LoopTask PROVE pc[t] = "unborn"
  BY DEF LoopInv
<1> QED BY DEF Init

(* A caller of run takes no task out of "unborn" or "done", nor a request.   *)
LEMMA CallersKeepLoop ==
  ASSUME FlightInv, LoopInv, NEW c \in Caller,
         Call(c) \/ Proceed(c) \/ Pass(c) \/ \E v \in BOOLEAN : Save(c, v)
  PROVE  LoopInv'
<1>1. pc \in [Caller -> Pc] /\ loop' = loop /\ cancelled' = cancelled
  BY DEF FlightInv, TypeOK, Call, Proceed, Pass, Own, Join, Begin, Release, Signal, Joined,
         JoinTimeout, Reply, Sweep, PassFails, PassCancelled, PassSucceeds, Save
<1>2. pc[c] \notin {"unborn", "done"}
  BY DEF Call, Proceed, Pass, Own, Join, Calls, Begin, Release, Signal, Joined,
         JoinTimeout, Reply, Sweep, PassFails, PassCancelled, PassSucceeds, Save
<1>3. \A t \in Caller : t # c => pc'[t] = pc[t]
  BY <1>1 DEF Call, Proceed, Pass, Own, Join, Begin, Release, Signal, Joined,
         JoinTimeout, Reply, Sweep, PassFails, PassCancelled, PassSucceeds, Save, Goto, Return
<1> QED BY <1>1, <1>2, <1>3 DEF LoopInv

(* Every step keeps the loop the only one.                                  *)
LEMMA LoopStep == FlightInv /\ LoopInv /\ [Next]_vars => LoopInv'
<1> SUFFICES ASSUME FlightInv, LoopInv, [Next]_vars PROVE LoopInv'
  OBVIOUS
<1>1. pc \in [Caller -> Pc]
  BY DEF FlightInv, TypeOK
<1>2. ASSUME NEW t \in LoopTask, StartLoop(t) PROVE LoopInv'
  <2>1. \A s \in LoopTask : pc[s] \notin {"unborn", "done"} => s \in cancelled
    BY <1>2 DEF LoopInv, StartLoop, Live
  <2> QED BY <1>1, <1>2, <2>1 DEF LoopInv, StartLoop, Goto
<1>3. ASSUME NEW t \in LoopTask, LoopEnds(t) PROVE LoopInv'
  BY <1>1, <1>3 DEF LoopInv, LoopEnds, Goto
<1>4. CASE StopLoop
  BY <1>4 DEF LoopInv, StopLoop
<1>5. CASE UNCHANGED vars
  BY <1>5 DEF vars, LoopInv
<1> QED BY <1>2, <1>3, <1>4, <1>5, CallersKeepLoop DEF Next

(* However often the loop is stopped and started, two tasks never both keep  *)
(* sweeping the book (start_reconcile_loop, stop_reconcile_loop).            *)
THEOREM OneLoop == Spec => []LoopIsOne
<1>1. LoopInv => LoopIsOne
  BY DEF LoopInv, LoopIsOne
<1> QED BY <1>1, LoopInit, LoopStep, SupervisorInvariant, PTL DEF Spec

-----------------------------------------------------------------------------
(* The desk has one operator: two routes at once pair the selection of the  *)
(* one that answers last with the pass of an earlier one.                    *)
OneOperator == \A c, d \in Operator : c = d

(* The selection the operator's own pass swept under is the one on disk, as  *)
(* long as its verdict stands: only the operator saves, and only when the    *)
(* verdict has been answered with.                                           *)
SelectionInv ==
  \A c \in Operator :
    /\ pc[c] = "swept" \/ verdict[c] = "clean" => under[c] = choice
    /\ verdict[c] # "none" => pc[c] \in {"ending", "signalling", "replying"}

(* Nothing is verified before the first pass.                                *)
LEMMA SelectionInit == Init => SelectionInv
<1> SUFFICES ASSUME Init, NEW c \in Operator PROVE pc[c] = "idle" /\ verdict[c] = "none"
  BY DEF SelectionInv
<1> QED BY DEF Init

(* A request, a poll or the loop on its way through run.                     *)
LEMMA CallersKeepSelection ==
  ASSUME OneOperator, FlightInv, SelectionInv, NEW c \in Caller,
         Call(c) \/ Proceed(c) \/ Pass(c) \/ \E v \in BOOLEAN : Save(c, v)
  PROVE  SelectionInv'
<1> USE DEF FlightInv, TypeOK, SelectionInv, OneOperator
<1>1. CASE Call(c)
  BY <1>1, SMT DEF Call, Own, Join, Calls, Goto
<1>2. CASE Proceed(c)
  <2>1. CASE Signal(c)
    BY <2>1, SMT DEF Signal, Return, Goto
  <2>2. CASE Reply(c)
    BY <2>2, SMT DEF Reply, Goto
  <2>3. CASE Begin(c) \/ Release(c) \/ Joined(c) \/ JoinTimeout(c)
    BY <2>3, SMT DEF Begin, Release, Joined, JoinTimeout, Return, Goto
  <2> QED BY <1>2, <2>1, <2>2, <2>3 DEF Proceed
<1>3. CASE Sweep(c)
  BY <1>3, SMT DEF Sweep, Goto
<1>4. CASE PassFails(c) \/ PassCancelled(c)
  BY <1>4, SMT DEF PassFails, PassCancelled, Goto
<1>5. ASSUME NEW left \in BOOLEAN, PassSucceeds(c, left) PROVE SelectionInv'
  BY <1>5, SMT DEF PassSucceeds, Goto
<1>6. ASSUME NEW v \in BOOLEAN, Save(c, v) PROVE SelectionInv'
  BY <1>6, SMT DEF Save, Goto
<1> QED BY <1>1, <1>2, <1>3, <1>4, <1>5, <1>6 DEF Pass

(* Every step keeps verdict and selection together.                          *)
LEMMA SelectionStep ==
  ASSUME OneOperator, FlightInv, SelectionInv, [Next]_vars PROVE SelectionInv'
<1>1. ASSUME NEW t \in LoopTask, StartLoop(t) \/ LoopEnds(t) PROVE SelectionInv'
  <2>1. /\ UNCHANGED <<choice, under, verdict>> /\ pc \in [Caller -> Pc]
        /\ \A c \in Operator : pc'[c] = pc[c]
    BY <1>1 DEF StartLoop, LoopEnds, Goto, FlightInv, TypeOK
  <2> QED BY <2>1 DEF SelectionInv
<1>2. CASE StopLoop
  BY <1>2 DEF StopLoop, SelectionInv
<1>3. CASE UNCHANGED vars
  BY <1>3 DEF vars, SelectionInv
<1> QED BY <1>1, <1>2, <1>3, CallersKeepSelection DEF Next

(* With one operator the auto-stop route says reconciliation_ok only of the  *)
(* selection its own pass acted on: a joined pass verifies nothing, and      *)
(* nobody else saves a selection before the route has answered.              *)
THEOREM SelectionIsVerified == ASSUME OneOperator PROVE Spec => VerifiedSelection
<1>1. Spec => []SelectionInv
  BY SelectionInit, SelectionStep, SupervisorInvariant, PTL DEF Spec
<1>2. SelectionInv /\ [Next]_vars =>
        [\A c \in Operator :
          pc[c] = "replying" /\ pc'[c] = "idle" /\ verdict[c] = "clean" => under[c] = choice]_vars
  BY DEF SelectionInv
<1> QED BY <1>1, <1>2, PTL DEF Spec, VerifiedSelection
=============================================================================
