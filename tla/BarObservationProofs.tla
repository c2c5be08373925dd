------------------------ MODULE BarObservationProofs ------------------------
(***************************************************************************)
(* Proofs about BarObservation for any windows, versions, overlaps, surges  *)
(* and scenes: corrections are never undone, and a stream that passes for   *)
(* current has lost nothing, in every interleaving of socket, writer, passes *)
(* and restarts.                                                            *)
(***************************************************************************)
EXTENDS BarObservation, TLAPS

USE SizeAssumption

(* A transaction of ingest_batch.                                            *)
Txn == [rows : Rows, at : {"minutes", "bars", "notify"}]

(* A verdict is written only by a pass that has reached one.                 *)
Found == \A p \in Pass : pass[p].at \in {"update", "write"} => pass[p].says # "none"

TypeInv ==
  /\ TypeOK /\ threads \subseteq Txn /\ Found
  /\ scene.minutes <= Windows * Length /\ clock <= scene.minutes

(* One writer: a connection stores nothing before the last transaction of   *)
(* the one before is over.                                                   *)
OneWriter ==
  /\ \A t, u \in threads : t = u
  /\ threads # {} => writer = "writing"
  /\ conn = "down" => threads = {} /\ fresh = Stale /\ lost = None

(* Messages reach the table in the order in which the vendor said them.      *)
InOrder ==
  /\ \A m \in Minute : m > clock => truth[m] = 0
  /\ \A m \in Minute : /\ minute[m] <= truth[m] /\ queue[m] <= truth[m]
                       /\ queue[m] # 0 => minute[m] <= queue[m]
  /\ \A t \in threads, m \in Minute :
       /\ t.rows[m] <= truth[m]
       /\ t.rows[m] # 0 /\ queue[m] # 0 => t.rows[m] <= queue[m]
       /\ t.rows[m] # 0 => IF t.at = "minutes" THEN minute[m] <= t.rows[m]
                                               ELSE minute[m] = t.rows[m]

(* A connection that is up has lost nothing of what was said since it was    *)
(* confirmed, but what was in the transaction that failed, with the writer.  *)
Heeded ==
  conn = "up" => \A m \in Minute : m > since => truth[m] \in Held(m) \union {lost[m]}
OnlyDeadLose == writer # "dead" => lost = None

(* A window that counts as completed began after the connection, and is      *)
(* whole.                                                                    *)
CompletedSince ==
  fresh.completed > 0 =>
    /\ \A m \in MinutesOf(fresh.completed) : m > since
    /\ Whole(minute, fresh.completed)

(* Without REST, a whole window that began after the connection is stored as *)
(* its minutes are, unless the transaction that touched it is about to, or   *)
(* has failed.                                                               *)
BarsFollow ==
  conn = "up" /\ ~scene.rest =>
    \A w \in Window :
      /\ \A m \in MinutesOf(w) : m > since
      /\ Whole(minute, w)
      /\ \A t \in threads : t.at = "bars" => ~Has(t.rows, w)
      /\ ~Has(lost, w)
      => \A m \in MinutesOf(w) : bar[m] = minute[m]

(* Only REST makes a pass store bars.                                        *)
OnlyRestAnswers == \A p \in Pass : pass[p].at \in {"save", "probed"} => scene.rest

StreamInv ==
  OneWriter /\ InOrder /\ Heeded /\ OnlyDeadLose /\ CompletedSince /\ BarsFollow /\ OnlyRestAnswers

-----------------------------------------------------------------------------
(* Minutes and windows.                                                      *)

(* The minutes of a session are a number.                                   *)
LEMMA Size == Windows * Length \in Nat
<1> QED OBVIOUS

(* Division rounds down, by less than its divisor.                          *)
LEMMA DivBounds ==
  ASSUME NEW n \in Nat
  PROVE  /\ n \div Length \in Nat
         /\ Length * (n \div Length) <= n
         /\ n < Length * (n \div Length) + Length
<1> QED OBVIOUS

(* Of the minutes gone by, as many windows are closed as fit.               *)
LEMMA ClosedType ==
  ASSUME NEW n \in Nat, n <= Windows * Length
  PROVE  n \div Length \in 0..Windows
<1>1. n \div Length \in Nat /\ Length * (n \div Length) <= n
  BY DivBounds
<1> QED BY <1>1

(* A minute belongs to the window it is in.                                 *)
LEMMA MinuteWindow ==
  ASSUME NEW m \in Minute
  PROVE  WindowOf(m) \in Window /\ m \in MinutesOf(WindowOf(m))
<1>1. m - 1 \in Nat /\ m - 1 < Windows * Length
  BY DEF Minute
<1>2. (m - 1) \div Length \in Nat /\ Length * ((m - 1) \div Length) <= m - 1
  BY <1>1, DivBounds
<1> QED BY <1>1, <1>2 DEF WindowOf, Window, MinutesOf

(* The minutes of a window not begun are still to come.                     *)
LEMMA MinuteAfter ==
  ASSUME NEW w \in Window, NEW m \in MinutesOf(w), NEW n \in Nat, (w - 1) * Length > n
  PROVE  m > n
<1>1. m - 1 \in Nat /\ m \in Minute /\ (m - 1) \div Length = w - 1
  BY DivBounds DEF Minute, WindowOf, Window, MinutesOf
<1>2. Length * ((m - 1) \div Length) <= m - 1
  BY <1>1, DivBounds
<1> QED BY <1>1, <1>2 DEF Minute, Window

-----------------------------------------------------------------------------
(* Types.                                                                    *)
PassStage == {"idle", "queued", "session", "history", "plan", "ask", "save", "probe",
              "probed", "load", "read", "judge", "update", "write"}
Saying == {"none", "wait", "seen", "blocked"}
PassRec == [at : PassStage, end : 0..Windows, batch : Rows, waits : BOOLEAN, rows : Rows,
            start : 0..Windows, says : Saying, stale : BOOLEAN]

(* Merging and restricting rows gives rows.                                 *)
LEMMA RowsType ==
  /\ None \in Rows
  /\ \A x, y \in Rows : Newer(x, y) \in Rows /\ Over(x, y) \in Rows
  /\ \A x \in Rows : \A ws : Only(x, ws) \in Rows
  /\ \A x \in Rows : \A i, j : Until(x, i, j) \in Rows
<1>1. None \in Rows
  BY DEF None, Rows
<1>2. \A x, y \in Rows : Newer(x, y) \in Rows /\ Over(x, y) \in Rows
  BY DEF Newer, Over, Rows
<1>3. \A x \in Rows : \A ws : Only(x, ws) \in Rows
  BY DEF Only, Rows
<1> QED BY <1>1, <1>2, <1>3 DEF Until

(* A pass at rest is typed.                                                 *)
LEMMA PassIdle == Idle \in PassRec
  BY RowsType DEF Idle, PassRec, PassStage, Saying

(* The bounds of the same day: its length, and whether the vendor has REST.  *)
SameDay(s) == s \in Scene /\ s.minutes = scene.minutes /\ s.rest = scene.rest

(* The other bounds are spent within the day.                               *)
LEMMA Spent ==
  ASSUME NEW s, SameDay(s)
  PROVE  /\ s.silent > 0 => SameDay([s EXCEPT !.silent = @ - 1])
         /\ s.corrections > 0 => SameDay([s EXCEPT !.corrections = @ - 1])
         /\ s.breaks > 0 => SameDay([s EXCEPT !.breaks = @ - 1])
         /\ s.faults > 0 => SameDay([s EXCEPT !.faults = @ - 1])
         /\ s.crashes > 0 => SameDay([s EXCEPT !.crashes = @ - 1])
         /\ s.entries > 0 => SameDay([s EXCEPT !.entries = @ - 1])
  BY DEF SameDay, Scene

(* The bounds as they are now are those of the day.                         *)
LEMMA SameNow == TypeInv => SameDay(scene)
  BY DEF TypeInv, TypeOK, StreamTypeOK, SameDay

(* What the passes and the connection know apart from the vendor.            *)
LinkType ==
  /\ conn \in {"down", "up", "closing", "joining"} /\ since \in Nat /\ queue \in Rows
  /\ writer \in {"ready", "writing", "dead"} /\ threads \subseteq Txn
  /\ fresh \in [latest : 0..(Windows * Length), completed : 0..Windows] /\ lost \in Rows

MarketType ==
  /\ clock \in 0..(Windows * Length) /\ clock <= scene.minutes /\ truth \in Rows
StoreType == minute \in Rows /\ bar \in Rows /\ pending \in Rows

PassType ==
  /\ why \in {"wait", "seen", "blocked"}
  /\ coverage \in 0..Windows /\ failure \in {"none", "recent", "old"}
  /\ cached \in [0..Windows -> {"none", "part", "whole"}]
  /\ pass \in [Pass -> PassRec] /\ older \subseteq Pass \X Pass /\ Found

(* The type invariant, by the part of the state a step moves.               *)
LEMMA TypeParts ==
  TypeInv <=> /\ scene \in Scene /\ scene.minutes <= Windows * Length
              /\ LinkType /\ MarketType /\ StoreType /\ PassType
<1>1. threads \subseteq Txn => \A t \in threads : t.rows \in Rows /\ t.at \in {"minutes", "bars", "notify"}
  BY DEF Txn
<1> QED BY <1>1 DEF TypeInv, TypeOK, StreamTypeOK, LinkType, MarketType, StoreType, PassType, PassRec,
                   PassStage, Saying

(* Its parts, after a step.                                                 *)
LEMMA TypePrimed ==
  ASSUME TypeInv, SameDay(scene'), LinkType', MarketType', StoreType', PassType'
  PROVE  TypeInv'
<1>1. scene' \in Scene /\ scene'.minutes <= Windows * Length
  BY TypeParts DEF SameDay
<1>2. threads' \subseteq Txn => \A t \in threads' : t.rows \in Rows /\ t.at \in {"minutes", "bars", "notify"}
  BY DEF Txn
<1> QED BY <1>1, <1>2 DEF TypeInv, TypeOK, StreamTypeOK, LinkType, MarketType, StoreType, PassType, PassRec,
                   PassStage, Saying

(* The vendor.                                                               *)
LEMMA HeardType ==
  ASSUME TypeInv, NEW m \in Minute, NEW v \in 0..Versions, NEW s, SameDay(s), Heard(m, v, s)
  PROVE  /\ SameDay(scene') /\ queue' \in Rows
         /\ conn' \in {"down", "up", "closing", "joining"}
  BY Spent, TypeParts DEF Heard, LinkType, Rows

(* The vendor and the connection keep the types.                            *)
LEMMA VendorType ==
  ASSUME TypeInv, Vendor, UNCHANGED <<why, recovery, pass, older>>
  PROVE  TypeInv' /\ SameDay(scene')
<1>1. PassType'
  BY TypeParts DEF PassType, recovery, Found
<1>2. scene.minutes \in Nat /\ scene.minutes <= Windows * Length /\ SameDay(scene)
  BY SameNow, TypeParts DEF SameDay, Scene
<1>3. CASE Trade
  <2>1. clock + 1 \in Minute /\ clock' \in 0..(Windows * Length) /\ clock' <= scene.minutes
    BY <1>2, <1>3, TypeParts, Size DEF Trade, MarketType, Minute
  <2>2. 1 \in 0..Versions
    OBVIOUS
  <2>3. truth' \in Rows
    BY <1>3, <2>2, TypeParts DEF Trade, MarketType, Rows
  <2>4. SameDay(scene') /\ queue' \in Rows /\ conn' \in {"down", "up", "closing", "joining"}
    BY <1>2, <1>3, <2>1, <2>2, HeardType DEF Trade
  <2>5. LinkType' /\ MarketType' /\ StoreType'
    BY <1>3, <2>1, <2>3, <2>4, TypeParts DEF Trade, Elsewhere, LinkType, MarketType, StoreType,
                                              SameDay, store
  <2> QED BY <1>1, <2>4, <2>5, TypePrimed
<1>4. CASE Silent
  <2>1. SameDay(scene')
    BY <1>2, <1>4, Spent DEF Silent
  <2>2. LinkType' /\ MarketType' /\ StoreType'
    BY <1>2, <1>4, <2>1, TypeParts, Size DEF Silent, Elsewhere, LinkType, MarketType, StoreType,
                                             SameDay, store
  <2> QED BY <1>1, <2>1, <2>2, TypePrimed
<1>5. ASSUME NEW m \in Minute, Correct(m) PROVE TypeInv' /\ SameDay(scene')
  <2>1. truth' \in Rows /\ truth'[m] \in 0..Versions
    BY <1>5, TypeParts DEF Correct, MarketType, Rows
  <2>2. SameDay([scene EXCEPT !.corrections = @ - 1])
    BY <1>2, <1>5, Spent DEF Correct
  <2>3. SameDay(scene') /\ queue' \in Rows /\ conn' \in {"down", "up", "closing", "joining"}
    BY <1>5, <2>1, <2>2, HeardType DEF Correct
  <2>4. LinkType' /\ MarketType' /\ StoreType'
    BY <1>5, <2>1, <2>3, TypeParts DEF Correct, Elsewhere, LinkType, MarketType, StoreType,
                                       SameDay, store
  <2> QED BY <1>1, <2>3, <2>4, TypePrimed
<1> QED BY <1>3, <1>4, <1>5 DEF Vendor

(* The connection and its writer.                                            *)
LEMMA LinkStepType ==
  ASSUME TypeInv, Link, UNCHANGED <<why, recovery, pass, older>>
  PROVE  TypeInv' /\ SameDay(scene')
<1>1. PassType' /\ Stale \in [latest : 0..(Windows * Length), completed : 0..Windows]
  BY TypeParts, Size DEF PassType, recovery, Found, Stale
<1>2. SameDay(scene)
  BY SameNow
<1>3. SameDay(scene')
  BY <1>2, Spent DEF Link, Subscribe, Close, Drained, GiveUp, Joined, Down, Take
<1>4. MarketType' /\ StoreType'
  BY <1>3, TypeParts DEF Link, Subscribe, Close, Drained, GiveUp, Joined, Down, Take, MarketType, StoreType,
                  SameDay, market, store
<1>5. CASE Take
  <2>1. [rows |-> queue, at |-> "minutes"] \in Txn
    BY TypeParts DEF Txn, LinkType
  <2>2. LinkType'
    BY <1>5, <2>1, TypeParts, RowsType DEF Take, LinkType
  <2> QED BY <1>1, <1>3, <1>4, <2>2, TypePrimed
<1>6. CASE Subscribe \/ Close \/ Drained \/ GiveUp \/ Joined
  <2>1. LinkType'
    BY <1>1, <1>6, TypeParts, RowsType DEF Subscribe, Close, Drained, GiveUp, Joined, Down, LinkType, MarketType
  <2> QED BY <1>1, <1>3, <1>4, <2>1, TypePrimed
<1> QED BY <1>5, <1>6 DEF Link

(* The ingest transactions keep the types.                                  *)
LEMMA IngestType ==
  ASSUME TypeInv, NEW t \in threads, Ingest(t) \/ WriteFails(t),
         UNCHANGED <<why, recovery, pass, older>>
  PROVE  TypeInv' /\ SameDay(scene')
<1>1. PassType' /\ SameDay(scene) /\ t \in Txn
  BY SameNow, TypeParts DEF PassType, recovery, Found, LinkType
<1>2. SameDay(scene') /\ MarketType'
  BY <1>1, Spent, TypeParts DEF Ingest, StoreMinutes, StoreBars, Notify, WriteFails, MarketType, SameDay, market
<1>3. \A l \in {"minutes", "bars", "notify"} : [t EXCEPT !.at = l] \in Txn
  BY <1>1 DEF Txn
<1>4. StoreType'
  BY <1>1, TypeParts, RowsType DEF Ingest, StoreMinutes, StoreBars, Notify, WriteFails, StoreType, Txn, store
<1>5. CASE StoreMinutes(t) \/ StoreBars(t) \/ WriteFails(t)
  <2>1. t.rows \in Rows
    BY <1>1 DEF Txn
  <2>2. LinkType'
    BY <1>3, <1>5, <2>1, TypeParts DEF StoreMinutes, StoreBars, WriteFails, Advance, LinkType
  <2> QED BY <1>1, <1>2, <1>4, <2>2, TypePrimed
<1>6. CASE Notify(t)
  <2>1. PICK last \in Minute, done \in 0..Windows :
          fresh' = [latest |-> Larger(last, fresh.latest), completed |-> done]
    BY <1>6 DEF Notify
  <2>2. fresh' \in [latest : 0..(Windows * Length), completed : 0..Windows]
    BY <2>1, TypeParts, Size DEF Larger, LinkType, Minute
  <2>3. LinkType'
    BY <1>6, <2>2, TypeParts DEF Notify, LinkType
  <2> QED BY <1>1, <1>2, <1>4, <2>3, TypePrimed
<1> QED BY <1>5, <1>6 DEF Ingest

(* The passes.                                                               *)
(* A pass moves on, and has an answer of the vendor only where REST works.   *)
Becomes(p, r) ==
  /\ pass' = [pass EXCEPT ![p] = r]
  /\ r.at \in {"save", "probed"} => scene.rest
  /\ r.at \in {"update", "write"} => r.says # "none"
Turn(p) ==
  \E r \in PassRec : Becomes(p, r)

(* What a pass carries.                                                     *)
LEMMA PassParts ==
  ASSUME TypeInv, NEW p \in Pass
  PROVE  pass[p] \in PassRec /\ pass[p].end \in 0..Windows /\ pass[p].rows \in Rows
  BY TypeParts DEF PassType, PassRec

(* A record of a pass with some of its fields changed.                       *)
LEMMA PatchAt ==
  ASSUME NEW r \in PassRec, NEW l \in PassStage
  PROVE  /\ [r EXCEPT !.at = l] \in PassRec
         /\ [r EXCEPT !.at = l].at = l
  BY DEF PassRec

(* A pass gets rows to go on with.                                          *)
LEMMA PatchRows ==
  ASSUME NEW r \in PassRec, NEW l \in PassStage, NEW rows \in Rows
  PROVE  /\ [r EXCEPT !.at = l, !.rows = rows] \in PassRec
         /\ [r EXCEPT !.at = l, !.rows = rows].at = l
  BY DEF PassRec

(* A pass is answered for all it asked.                                     *)
LEMMA PatchAnswered ==
  ASSUME NEW r \in PassRec, NEW l \in PassStage, NEW rows \in Rows
  PROVE  /\ [r EXCEPT !.at = l, !.rows = rows, !.start = 0] \in PassRec
         /\ [r EXCEPT !.at = l, !.rows = rows, !.start = 0].at = l
<1>1. 0 \in 0..Windows
  OBVIOUS
<1> QED BY <1>1 DEF PassRec

(* A pass sets out from a window to ask for what came after it.              *)
Departing(r, l, n) == [r EXCEPT !.at = l, !.start = n]

(* A pass sets out from a window.                                           *)
LEMMA PatchStart ==
  ASSUME NEW r \in PassRec, NEW l \in PassStage, NEW n \in 0..Windows
  PROVE  Departing(r, l, n) \in PassRec /\ Departing(r, l, n).at = l
  BY DEF PassRec, Departing

(* Where a pass sets out is a window or before the first.                   *)
LEMMA StartType == ASSUME NEW e \in 0..Windows, TypeInv PROVE Start(e) \in 0..Windows
<1>1. coverage \in 0..Windows /\ Overlap \in Nat
  BY TypeParts, ObservationAssumption DEF PassType
<1> QED BY <1>1 DEF Start

(* What the range cache remembers is typed.                                 *)
LEMMA RememberType ==
  ASSUME TypeInv, NEW e, NEW c \in {"none", "part", "whole"}, Remember(e, c)
  PROVE  cached' \in [0..Windows -> {"none", "part", "whole"}]
  BY TypeParts DEF PassType, Remember

(* A verdict is that a bar broke out, or none yet.                          *)
LEMMA VerdictType == ASSUME NEW rows PROVE Verdict(rows) \in {"wait", "seen"}
  BY DEF Verdict

(* A step of a pass: the stream is not touched, and bars are stored only     *)
(* from an answer of the vendor.                                             *)
Aside ==
  /\ TypeInv' /\ SameDay(scene') /\ UNCHANGED <<market, minute, link>>
  /\ bar' # bar => \E p \in Pass : pass[p].at \in {"save", "probed"}
  /\ \A p \in Pass : pass'[p].at \in {"save", "probed"} => pass[p].at = pass'[p].at \/ scene.rest

(* A pass that goes on leaves the stream aside.                             *)
LEMMA TurnAside ==
  ASSUME TypeInv, NEW p \in Pass, Turn(p), SameDay(scene'), UNCHANGED <<market, minute, link>>,
         why' \in {"wait", "seen", "blocked"}, older' \subseteq Pass \X Pass, pending' \in Rows,
         coverage' \in 0..Windows, failure' \in {"none", "recent", "old"},
         cached' \in [0..Windows -> {"none", "part", "whole"}],
         bar' = bar \/ (bar' \in Rows /\ pass[p].at \in {"save", "probed"})
  PROVE  Aside
<1>1. PICK r \in PassRec : Becomes(p, r)
  BY DEF Turn
<1>2. pass \in [Pass -> PassRec]
  BY TypeParts DEF PassType
<1>3. PassType'
  BY <1>1, <1>2, TypeParts DEF PassType, Found, Becomes
<1>4. LinkType' /\ MarketType' /\ StoreType'
  BY TypeParts DEF LinkType, MarketType, StoreType, market, link, SameDay
<1>5. \A q \in Pass : pass'[q].at \in {"save", "probed"} => pass[q].at = pass'[q].at \/ scene.rest
  BY <1>1, <1>2 DEF Becomes
<1> QED BY <1>3, <1>4, <1>5, TypePrimed DEF Aside

(* The recovery leaves the stream aside.                                    *)
LEMMA RecoverAside ==
  ASSUME TypeInv, NEW p \in Pass, Recover(p)
  PROVE  Aside
<1>1. pass[p] \in PassRec /\ pass[p].end \in 0..Windows /\ pass[p].rows \in Rows
  BY PassParts
<1>2. /\ SameDay(scene') /\ UNCHANGED <<market, minute, link, pending, why, older>>
  BY SameNow, Spent DEF Recover, SkipRecovery, PlanRecovery, Answer, AskFails, SaveAnswer, Probe,
                        StoreProbe, stream, store
<1>3. bar' = bar \/ (bar' \in Rows /\ pass[p].at \in {"save", "probed"})
  BY <1>1, TypeParts, RowsType DEF Recover, SkipRecovery, PlanRecovery, Answer, AskFails, SaveAnswer, Probe,
         StoreProbe, stream, store, StoreType
<1>4. /\ coverage' \in 0..Windows /\ failure' \in {"none", "recent", "old"}
      /\ cached' \in [0..Windows -> {"none", "part", "whole"}]
  <2>1. Larger(pass[p].end, coverage) \in 0..Windows
    BY <1>1, TypeParts DEF PassType, Larger
  <2>2. Seen(pass[p].end) \in {"part", "whole"}
    BY DEF Seen
  <2> QED BY <2>1, <2>2, TypeParts, RememberType DEF Recover, SkipRecovery, PlanRecovery, Answer, AskFails,
             SaveAnswer, Probe, StoreProbe, recovery, PassType
<1>5. Turn(p)
  <2>1. CASE SkipRecovery(p) \/ AskFails(p) \/ (Probe(p) /\ Goto(p, "load"))
    <3>1. PICK l \in {"load", "probe"} : Goto(p, l)
      BY <2>1 DEF SkipRecovery, AskFails
    <3>2. l \in PassStage
      BY DEF PassStage
    <3> DEFINE r == [pass[p] EXCEPT !.at = l]
    <3>3. r \in PassRec /\ r.at = l
      BY <1>1, <3>2, PatchAt
    <3>4. pass' = [pass EXCEPT ![p] = r]
      BY <3>1 DEF Goto, Become
    <3> QED BY <3>3, <3>4 DEF Becomes, Turn
  <2>2. CASE PlanRecovery(p)
    <3>1. Start(pass[p].end) \in 0..Windows
      BY <1>1, StartType
    <3>2. PICK l \in {"ask", "load"} : \/ Goto(p, l)
                                      \/ Become(p, [pass[p] EXCEPT !.at = l, !.start = Start(pass[p].end)])
      BY <2>2 DEF PlanRecovery
    <3>3. l \in PassStage
      BY DEF PassStage
    <3> DEFINE r == [pass[p] EXCEPT !.at = l]
               q == [pass[p] EXCEPT !.at = l, !.start = Start(pass[p].end)]
    <3>4. r \in PassRec /\ r.at = l
      BY <1>1, <3>3, PatchAt
    <3>5. q \in PassRec /\ q.at = l
      <4>1. q = Departing(pass[p], l, Start(pass[p].end))
        BY DEF Departing
      <4> HIDE DEF q
      <4> QED BY <1>1, <3>1, <3>3, <4>1, PatchStart
    <3>6. pass' = [pass EXCEPT ![p] = r] \/ pass' = [pass EXCEPT ![p] = q]
      BY <3>2 DEF Goto, Become
    <3> QED BY <3>4, <3>5, <3>6 DEF Turn, Becomes
  <2>3. CASE Answer(p)
    <3>1. Until(truth, pass[p].start, pass[p].end) \in Rows /\ "save" \in PassStage
      BY TypeParts, RowsType DEF MarketType, PassStage
    <3> DEFINE r == [pass[p] EXCEPT !.at = "save", !.rows = Until(truth, pass[p].start, pass[p].end)]
    <3>2. r \in PassRec /\ r.at = "save"
      BY <1>1, <3>1, PatchRows
    <3>3. pass' = [pass EXCEPT ![p] = r] /\ scene.rest
      BY <2>3 DEF Answer, Become
    <3> QED BY <3>2, <3>3 DEF Turn, Becomes
  <2>4. CASE SaveAnswer(p)
    <3>1. None \in Rows /\ "load" \in PassStage
      BY RowsType DEF PassStage
    <3> DEFINE r == [pass[p] EXCEPT !.at = "load", !.rows = None, !.start = 0]
    <3>2. r \in PassRec /\ r.at = "load"
      BY <1>1, <3>1, PatchAnswered
    <3>3. pass' = [pass EXCEPT ![p] = r]
      BY <2>4 DEF SaveAnswer, Become
    <3> QED BY <3>2, <3>3 DEF Turn, Becomes
  <2>5. CASE Probe(p) /\ ~Goto(p, "load")
    <3>1. Until(truth, pass[p].end - 3, pass[p].end) \in Rows /\ "probed" \in PassStage
      BY TypeParts, RowsType DEF MarketType, PassStage
    <3> DEFINE r == [pass[p] EXCEPT !.at = "probed",
                                    !.rows = Until(truth, pass[p].end - 3, pass[p].end)]
    <3>2. r \in PassRec /\ r.at = "probed"
      BY <1>1, <3>1, PatchRows
    <3>3. pass' = [pass EXCEPT ![p] = r] /\ scene.rest
      BY <2>5 DEF Probe, Become
    <3> QED BY <3>2, <3>3 DEF Turn, Becomes
  <2>6. CASE StoreProbe(p)
    <3>1. None \in Rows /\ "load" \in PassStage
      BY RowsType DEF PassStage
    <3> DEFINE r == [pass[p] EXCEPT !.at = "load", !.rows = None]
    <3>2. r \in PassRec /\ r.at = "load"
      BY <1>1, <3>1, PatchRows
    <3>3. pass' = [pass EXCEPT ![p] = r]
      BY <2>6 DEF StoreProbe, Become
    <3> QED BY <3>2, <3>3 DEF Turn, Becomes
  <2> QED BY <2>1, <2>2, <2>3, <2>4, <2>5, <2>6 DEF Recover
<1> QED BY <1>2, <1>3, <1>4, <1>5, TypeParts, TurnAside DEF PassType, StoreType

(* The other records a pass makes of its own.                                *)
LEMMA PatchPlan ==
  ASSUME TypeInv, NEW r \in PassRec
  PROVE  /\ [r EXCEPT !.at = "plan", !.end = Closed] \in PassRec
         /\ [r EXCEPT !.at = "plan", !.end = Closed].at = "plan"
         /\ [r EXCEPT !.at = "session", !.batch = pending, !.end = Closed] \in PassRec
         /\ [r EXCEPT !.at = "session", !.batch = pending, !.end = Closed].at = "session"
<1>1. Closed \in 0..Windows
  BY ClosedType, TypeParts DEF MarketType, Closed
<1>2. pending \in Rows
  BY TypeParts DEF StoreType
<1> QED BY <1>1, <1>2 DEF PassRec, PassStage

(* A pass loads the bars it judges.                                         *)
LEMMA PatchLoad ==
  ASSUME TypeInv, NEW r \in PassRec, NEW rows \in Rows
  PROVE  /\ [r EXCEPT !.at = "judge", !.rows = rows] \in PassRec
         /\ [r EXCEPT !.at = "judge", !.rows = rows].at = "judge"
         /\ [r EXCEPT !.at = "judge", !.end = Closed, !.rows = rows] \in PassRec
         /\ [r EXCEPT !.at = "judge", !.end = Closed, !.rows = rows].at = "judge"
<1>1. Closed \in 0..Windows
  BY ClosedType, TypeParts DEF MarketType, Closed
<1> QED BY <1>1 DEF PassRec, PassStage

(* A pass has something to say.                                             *)
LEMMA PatchSays ==
  ASSUME NEW r \in PassRec, NEW v \in Saying
  PROVE  /\ [r EXCEPT !.at = "write", !.says = v] \in PassRec
         /\ [r EXCEPT !.at = "write", !.says = v].at = "write"
         /\ [r EXCEPT !.at = "write", !.says = v].says = v
         /\ [r EXCEPT !.at = "write", !.says = v, !.stale = FALSE] \in PassRec
         /\ [r EXCEPT !.at = "write", !.says = v, !.stale = FALSE].at = "write"
         /\ [r EXCEPT !.at = "write", !.says = v, !.stale = FALSE].says = v
  BY DEF PassRec, PassStage

(* A pass judged, and drops its rows.                                       *)
LEMMA PatchJudged ==
  ASSUME NEW r \in PassRec, NEW v \in Saying
  PROVE  /\ [r EXCEPT !.at = "write", !.rows = None, !.says = v] \in PassRec
         /\ [r EXCEPT !.at = "write", !.rows = None, !.says = v].at = "write"
         /\ [r EXCEPT !.at = "write", !.rows = None, !.says = v].says = v
<1>1. None \in Rows
  BY RowsType
<1> QED BY <1>1 DEF PassRec, PassStage

(* An evaluation has ended, in a verdict or in an error.                    *)
Concluded(r, l, v) == [r EXCEPT !.at = l, !.rows = None, !.stale = FALSE, !.says = v]

(* An evaluation that has ended has something to say.                       *)
LEMMA PatchConcluded ==
  ASSUME NEW r \in PassRec, NEW l \in PassStage, NEW v \in Saying
  PROVE  /\ Concluded(r, l, v) \in PassRec
         /\ Concluded(r, l, v).at = l /\ Concluded(r, l, v).says = v
<1>1. None \in Rows
  BY RowsType
<1> QED BY <1>1 DEF PassRec, Concluded

(* A pass remembers whether its row waits.                                  *)
LEMMA PatchWaits ==
  ASSUME NEW r \in PassRec, NEW b \in BOOLEAN
  PROVE  /\ [r EXCEPT !.at = "history", !.waits = b] \in PassRec
         /\ [r EXCEPT !.at = "history", !.waits = b].at = "history"
  BY DEF PassRec, PassStage

(* A pass that writes nothing, or writes what it says, goes on.             *)
LEMMA TurnFrom ==
  ASSUME NEW p, NEW r \in PassRec, r.at \notin {"save", "probed"},
         r.at \in {"update", "write"} => r.says # "none", Become(p, r)
  PROVE  Turn(p)
  BY DEF Turn, Becomes, Become

(* A pass looks at the clock.                                               *)
LEMMA NowType == ASSUME TypeInv, NEW p \in Pass, Now(p) PROVE older' \subseteq Pass \X Pass
  BY TypeParts DEF PassType, Now

(* The full pass hands its symbol to the entry worker.                      *)
LEMMA DeferAside ==
  ASSUME TypeInv, Defer
  PROVE  Aside
<1> DEFINE r == [Idle EXCEPT !.at = "queued"]
<1>1. /\ pass \in [Pass -> PassRec] /\ "full" \in Pass /\ "entry" \in Pass
      /\ Idle \in PassRec /\ Idle.at = "idle" /\ r \in PassRec /\ r.at = "queued"
  BY PassIdle, PatchAt, TypeParts DEF PassType, Idle, Pass, PassStage
<1>2. pass' = [pass EXCEPT !["full"] = Idle, !["entry"] = r]
  BY DEF Defer
<1> HIDE DEF r
<1>3. SameDay(scene') /\ UNCHANGED <<market, minute, link, bar, pending, why, recovery, older>>
  BY SameNow, Spent DEF Defer, store
<1>4. \A q \in Pass : /\ pass'[q] \in PassRec
                     /\ \/ pass'[q].at \in {"idle", "queued"}
                        \/ pass'[q] = pass[q]
  BY <1>1, <1>2
<1>5. PassType'
  <2>1. pass' \in [Pass -> PassRec]
    BY <1>1, <1>2
  <2> QED BY <1>3, <1>4, <2>1, TypeParts DEF PassType, Found, recovery
<1>6. LinkType' /\ MarketType' /\ StoreType'
  BY <1>3, TypeParts DEF LinkType, MarketType, StoreType, market, link, SameDay
<1> QED BY <1>3, <1>4, <1>5, <1>6, TypePrimed DEF Aside

(* The full pass leaves the stream aside.                                   *)
LEMMA FullAside ==
  ASSUME TypeInv, Full
  PROVE  Aside
<1> SUFFICES ASSUME ~Defer PROVE Aside
  BY DeferAside
<1>1. "full" \in Pass /\ pass["full"] \in PassRec /\ pass["full"].end \in 0..Windows
  BY PassParts DEF Pass
<1>2. SameDay(scene') /\ UNCHANGED <<market, minute, link, bar, pending, why, coverage, failure, cached>>
  BY SameNow, Spent DEF Full, StartFull, LoadFull, JudgeFull, HistoryFails, stream, store, recovery
<1>3. older' \subseteq Pass \X Pass
  BY <1>1, NowType, TypeParts DEF Full, StartFull, LoadFull, JudgeFull, HistoryFails, PassType
<1>4. ASSUME StartFull PROVE Turn("full")
  <2> DEFINE r == [Idle EXCEPT !.at = "plan", !.end = Closed]
  <2>1. r \in PassRec /\ r.at = "plan"
    BY PassIdle, PatchPlan
  <2>2. Become("full", r)
    BY <1>4 DEF StartFull
  <2> HIDE DEF r
  <2> QED BY <2>1, <2>2, TurnFrom
<1>5. ASSUME LoadFull PROVE Turn("full")
  <2> DEFINE rows == Until(bar, 0, pass["full"].end)
             r == [pass["full"] EXCEPT !.at = "judge", !.rows = rows]
  <2>1. rows \in Rows
    BY TypeParts, RowsType DEF StoreType
  <2>2. Become("full", r)
    BY <1>5 DEF LoadFull
  <2>3. r \in PassRec /\ r.at = "judge"
    <3> HIDE DEF rows
    <3> QED BY <1>1, <2>1, PatchLoad
  <2> HIDE DEF r
  <2> QED BY <2>2, <2>3, TurnFrom
<1>6. ASSUME JudgeFull PROVE Turn("full")
  <2> DEFINE v == Replayed(pass["full"])
             r == [pass["full"] EXCEPT !.at = "write", !.rows = None, !.says = v]
  <2>1. v \in Saying /\ v # "none"
    BY VerdictType DEF Saying, Replayed
  <2>2. Become("full", r)
    BY <1>6 DEF JudgeFull
  <2>3. r \in PassRec /\ r.at = "write" /\ r.says = v
    <3> HIDE DEF v
    <3> QED BY <1>1, <2>1, PatchJudged
  <2> HIDE DEF r, v
  <2> QED BY <2>1, <2>2, <2>3, TurnFrom
<1>7. ASSUME HistoryFails PROVE Turn("full")
  <2> DEFINE r == [pass["full"] EXCEPT !.at = "write", !.says = "blocked", !.stale = FALSE]
  <2>1. "blocked" \in Saying
    BY DEF Saying
  <2>2. Become("full", r)
    BY <1>7 DEF HistoryFails
  <2>3. r \in PassRec /\ r.at = "write" /\ r.says = "blocked"
    BY <1>1, <2>1, PatchSays
  <2> HIDE DEF r
  <2> QED BY <2>2, <2>3, TurnFrom
<1>8. Turn("full")
  BY <1>4, <1>5, <1>6, <1>7 DEF Full
<1> QED BY <1>1, <1>2, <1>3, <1>8, TypeParts, TurnAside DEF PassType, StoreType

(* The fast pass leaves the stream aside.                                   *)
LEMMA FastAside ==
  ASSUME TypeInv, Fast
  PROVE  Aside
<1>1. "fast" \in Pass /\ pass["fast"] \in PassRec
  BY PassParts DEF Pass
<1>2. SameDay(scene') /\ UNCHANGED <<market, minute, link, bar, why, coverage, failure, cached>>
  BY SameNow DEF Fast, Capture, ReadSession, CheckHistory, stream, store, recovery
<1>3. older' \subseteq Pass \X Pass /\ pending' \in Rows
  BY <1>1, NowType, RowsType, TypeParts DEF Fast, Capture, ReadSession, CheckHistory, PassType,
                                            StoreType, stream
<1>4. ASSUME Capture PROVE Turn("fast")
  <2> DEFINE r == [Idle EXCEPT !.at = "session", !.batch = pending, !.end = Closed]
  <2>1. r \in PassRec /\ r.at = "session"
    BY PassIdle, PatchPlan
  <2>2. Become("fast", r)
    BY <1>4 DEF Capture
  <2> HIDE DEF r
  <2> QED BY <2>1, <2>2, TurnFrom
<1>5. ASSUME ReadSession PROVE Turn("fast")
  <2> DEFINE b == why = "wait"
             r == [pass["fast"] EXCEPT !.at = "history", !.waits = b]
  <2>1. Become("fast", r)
    BY <1>5 DEF ReadSession
  <2>2. b \in BOOLEAN
    OBVIOUS
  <2>3. r \in PassRec /\ r.at = "history"
    <3> HIDE DEF b
    <3> QED BY <1>1, <2>2, PatchWaits
  <2> HIDE DEF r
  <2> QED BY <2>1, <2>3, TurnFrom
<1>6. ASSUME CheckHistory PROVE Turn("fast")
  <2> DEFINE r == [pass["fast"] EXCEPT !.at = "write", !.says = "wait"]
             q == [pass["fast"] EXCEPT !.at = "plan"]
  <2>1. "wait" \in Saying /\ "plan" \in PassStage
    BY DEF Saying, PassStage
  <2>2. Become("fast", r) \/ Become("fast", q)
    BY <1>6 DEF CheckHistory, Goto
  <2>3. r \in PassRec /\ r.at = "write" /\ r.says = "wait"
    BY <1>1, <2>1, PatchSays
  <2>4. q \in PassRec /\ q.at = "plan"
    BY <1>1, <2>1, PatchAt
  <2> HIDE DEF r, q
  <2> QED BY <2>2, <2>3, <2>4, TurnFrom
<1>7. Turn("fast")
  BY <1>4, <1>5, <1>6 DEF Fast
<1> QED BY <1>1, <1>2, <1>3, <1>7, TypeParts, TurnAside DEF PassType, StoreType

(* The entry worker sets out.                                               *)
LEMMA EntryAside ==
  ASSUME TypeInv, StartEntry
  PROVE  Aside
<1> DEFINE r == [pass["entry"] EXCEPT !.at = "plan", !.end = Closed]
<1>1. "entry" \in Pass /\ pass["entry"] \in PassRec
  BY PassParts DEF Pass
<1>2. r \in PassRec /\ r.at = "plan" /\ Become("entry", r)
  BY <1>1, PatchPlan DEF StartEntry
<1> HIDE DEF r
<1>3. SameDay(scene') /\ UNCHANGED <<market, minute, link, bar, pending, why, coverage, failure, cached, older>>
  BY SameNow DEF StartEntry, stream, store, recovery
<1>4. Turn("entry")
  BY <1>2, TurnFrom
<1> QED BY <1>1, <1>3, <1>4, TypeParts, TurnAside DEF PassType, StoreType

(* An evaluation leaves the stream aside.                                   *)
LEMMA EvaluateAside ==
  ASSUME TypeInv, NEW p \in Evaluator, Evaluate(p)
  PROVE  Aside
<1>1. p \in Pass /\ pass[p] \in PassRec
  BY PassParts DEF Evaluator
<1>2. SameDay(scene') /\ UNCHANGED <<market, minute, link, bar, pending, why, coverage, failure, cached>>
  BY SameNow, Spent DEF Evaluate, Enter, Load, Judge, EvaluationFails, stream, store, recovery
<1>3. older' \subseteq Pass \X Pass
  BY <1>1, NowType, TypeParts DEF Evaluate, Enter, Load, Judge, EvaluationFails, PassType
<1>4. ASSUME Enter(p) PROVE Turn(p)
  <2> DEFINE r == [pass[p] EXCEPT !.at = "read"]
  <2>1. r \in PassRec /\ r.at = "read"
    BY <1>1, PatchAt DEF PassStage
  <2>2. Become(p, r) \/ Become(p, Idle)
    BY <1>4 DEF Enter, Goto
  <2>3. Idle.at = "idle"
    BY DEF Idle
  <2> HIDE DEF r
  <2> QED BY <2>1, <2>2, <2>3, PassIdle, TurnFrom
<1>5. ASSUME Load(p) PROVE Turn(p)
  <2> DEFINE rows == Until(bar, 0, Closed)
             r == [pass[p] EXCEPT !.at = "judge", !.end = Closed, !.rows = rows]
  <2>1. rows \in Rows
    BY TypeParts, RowsType DEF StoreType
  <2>2. Become(p, r)
    BY <1>5 DEF Load
  <2>3. r \in PassRec /\ r.at = "judge"
    <3> HIDE DEF rows
    <3> QED BY <1>1, <2>1, PatchLoad
  <2> HIDE DEF r
  <2> QED BY <2>2, <2>3, TurnFrom
<1>6. ASSUME Judge(p) \/ EvaluationFails(p) PROVE Turn(p)
  <2>1. PICK l \in {"update", "write"}, v \in Saying \ {"none"} : Become(p, Concluded(pass[p], l, v))
    <3>1. CASE Judge(p)
      <4> DEFINE readable == Known(pass[p].rows, pass[p].end) /\ (Current \/ failure = "none")
                 says == IF Known(pass[p].rows, Closed) THEN Verdict(pass[p].rows) ELSE "blocked"
      <4>1. says \in Saying \ {"none"} /\ "blocked" \in Saying \ {"none"}
        BY VerdictType DEF Saying
      <4>2. Become(p, Concluded(pass[p], IF readable THEN "update" ELSE "write",
                                IF readable THEN says ELSE "blocked"))
        BY <3>1 DEF Judge, Concluded
      <4> HIDE DEF readable, says
      <4> QED BY <4>1, <4>2
    <3>2. CASE EvaluationFails(p)
      <4>1. Become(p, Concluded(pass[p], "write", "blocked"))
        BY <3>2 DEF EvaluationFails, Concluded
      <4> QED BY <4>1 DEF Saying
    <3> QED BY <1>6, <3>1, <3>2
  <2>2. l \in PassStage /\ l \notin {"save", "probed"} /\ v \in Saying /\ v # "none"
    BY <2>1 DEF PassStage
  <2>3. /\ Concluded(pass[p], l, v) \in PassRec
        /\ Concluded(pass[p], l, v).at = l /\ Concluded(pass[p], l, v).says = v
    BY <1>1, <2>2, PatchConcluded
  <2> QED BY <2>1, <2>2, <2>3, TurnFrom
<1>7. Turn(p)
  BY <1>4, <1>5, <1>6 DEF Evaluate
<1> QED BY <1>1, <1>2, <1>3, <1>7, TypeParts, TurnAside DEF PassType, StoreType

(* A pass writes what it found, and marks the other one overtaken.           *)
LEMMA WriteAside ==
  ASSUME TypeInv, NEW p \in Pass, Write(p)
  PROVE  Aside
<1>1. pass \in [Pass -> PassRec] /\ Idle \in PassRec /\ Idle.at = "idle"
  BY PassIdle, TypeParts DEF PassType, Idle
<1>2. SameDay(scene') /\ UNCHANGED <<market, minute, link, bar, pending, coverage, failure, cached, older>>
  BY SameNow DEF Write, Become, stream, store, recovery
<1>3. why' \in {"wait", "seen", "blocked"}
  <2>1. pass[p].says \in Saying /\ pass[p].says # "none"
    BY <1>1, TypeParts DEF Write, PassType, Found, PassRec
  <2> QED BY <2>1, TypeParts DEF Write, PassType, Saying
<1>4. \A q \in Pass : /\ pass'[q] \in PassRec
                     /\ \/ pass'[q].at = "idle"
                        \/ pass'[q].at = pass[q].at /\ pass'[q].says = pass[q].says
  <2>1. \A q \in Pass : /\ [pass[q] EXCEPT !.stale = TRUE] \in PassRec
                         /\ [pass[q] EXCEPT !.stale = TRUE].at = pass[q].at
                         /\ [pass[q] EXCEPT !.stale = TRUE].says = pass[q].says
    BY <1>1 DEF PassRec
  <2>2. ASSUME NEW q \in Pass
        PROVE  pass'[q] = Idle \/ pass'[q] = pass[q] \/ pass'[q] = [pass[q] EXCEPT !.stale = TRUE]
    BY <1>1 DEF Write, Become
  <2> QED BY <1>1, <2>1, <2>2
<1>5. DOMAIN pass' = Pass /\ pass' = [q \in Pass |-> pass'[q]]
  BY <1>1 DEF Write, Become
<1>6. PassType'
  BY <1>2, <1>3, <1>4, <1>5, TypeParts DEF PassType, Found
<1>7. LinkType' /\ MarketType' /\ StoreType'
  BY <1>2, TypeParts DEF LinkType, MarketType, StoreType, market, link, SameDay
<1> QED BY <1>2, <1>4, <1>6, <1>7, TypePrimed DEF Aside

(* A pass that fails leaves the stream aside.                               *)
LEMMA FailsAside ==
  ASSUME TypeInv, NEW p \in Pass, PassFails(p)
  PROVE  Aside
<1> DEFINE l == IF p = "entry" THEN "queued" ELSE "idle"
           r == [Idle EXCEPT !.at = l]
<1>1. r \in PassRec /\ r.at = l /\ pass[p].batch \in Rows
  <2>1. l \in PassStage
    BY DEF PassStage
  <2> HIDE DEF l
  <2> QED BY <2>1, PassIdle, PatchAt, PassParts DEF PassRec
<1>2. SameDay(scene') /\ UNCHANGED <<market, minute, link, bar, why, recovery, older>>
  BY SameNow, Spent DEF PassFails, store
<1>3. pending' \in Rows
  BY <1>1, RowsType, TypeParts DEF PassFails, Restored, StoreType
<1>4. Turn(p)
  <2>1. Become(p, r)
    BY DEF PassFails
  <2> HIDE DEF r
  <2> QED BY <1>1, <2>1, TurnFrom
<1> QED BY <1>2, <1>3, <1>4, TypeParts, TurnAside DEF PassType, recovery

(* What ages leaves the stream aside.                                       *)
LEMMA AgesAside ==
  ASSUME TypeInv, FailureAges \/ CacheAges
  PROVE  Aside
<1>1. SameDay(scene') /\ UNCHANGED <<stream, why, coverage, pass, older>>
  BY SameNow DEF FailureAges, CacheAges, stream
<1>2. /\ failure' \in {"none", "recent", "old"}
      /\ cached' \in [0..Windows -> {"none", "part", "whole"}]
  BY TypeParts, RememberType DEF FailureAges, CacheAges, PassType
<1>3. PassType'
  BY <1>1, <1>2, TypeParts DEF PassType, Found
<1>4. LinkType' /\ MarketType' /\ StoreType'
  BY <1>1, TypeParts DEF LinkType, MarketType, StoreType, stream, store, market, link, SameDay
<1> QED BY <1>1, <1>3, <1>4, TypePrimed DEF Aside, stream, store

(* A step of the observers, whatever it is.                                  *)
LEMMA ObserverAside ==
  ASSUME TypeInv,
         (\E p \in Pass : Observe(p) \/ PassFails(p)) \/ FailureAges \/ CacheAges
  PROVE  Aside
  BY RecoverAside, FullAside, FastAside, EntryAside, EvaluateAside, WriteAside, FailsAside, AgesAside
     DEF Observe

(* The process restarts.                                                     *)
LEMMA CrashType ==
  ASSUME TypeInv, Crash
  PROVE  TypeInv' /\ SameDay(scene')
<1>1. SameDay(scene') /\ MarketType' /\ StoreType'
  BY SameNow, Spent, TypeParts, RowsType DEF Crash, MarketType, StoreType, market, store, SameDay
<1>2. LinkType'
  BY RowsType, Size DEF Crash, LinkType, Stale
<1>3. Idle \in PassRec /\ Idle.at = "idle"
  BY PassIdle DEF Idle
<1>4. PassType'
  BY <1>3, TypeParts DEF Crash, PassType, Found
<1> QED BY <1>1, <1>2, <1>4, TypePrimed

(* The types hold at first.                                                 *)
LEMMA TypeInit == Init => TypeInv
<1> SUFFICES ASSUME Init PROVE TypeInv
  OBVIOUS
<1>1. scene \in Scene /\ scene.minutes \in Nat /\ scene.minutes <= Windows * Length
  BY ScenesAssumption DEF Init, StreamInit, Scene
<1>2. LinkType /\ MarketType /\ StoreType
  BY <1>1, RowsType, Size DEF Init, StreamInit, LinkType, MarketType, StoreType, Stale
<1>3. Idle \in PassRec /\ Idle.at = "idle"
  BY PassIdle DEF Idle
<1>4. PassType
  BY <1>3 DEF Init, PassType, Found, Pass
<1> QED BY <1>1, <1>2, <1>4, TypeParts

(* Every step keeps the types, and the length of the day.                   *)
LEMMA TypeStep == TypeInv /\ [Next]_vars => TypeInv' /\ SameDay(scene')
<1> SUFFICES ASSUME TypeInv, [Next]_vars PROVE TypeInv' /\ SameDay(scene')
  OBVIOUS
<1>1. CASE Stream /\ UNCHANGED <<why, recovery, pass, older>>
  BY <1>1, VendorType, LinkStepType, IngestType DEF Stream
<1>2. CASE (\E p \in Pass : Observe(p) \/ PassFails(p)) \/ FailureAges \/ CacheAges
  BY <1>2, ObserverAside DEF Aside
<1>3. CASE Crash
  BY <1>3, CrashType
<1>4. CASE UNCHANGED vars
  <2>1. LinkType' /\ MarketType' /\ StoreType' /\ PassType'
    BY <1>4, TypeParts DEF LinkType, MarketType, StoreType, PassType, Found, vars, stream, store,
                           market, link, recovery
  <2>2. SameDay(scene')
    BY <1>4, SameNow DEF vars, stream
  <2> QED BY <2>1, <2>2, TypePrimed
<1> QED BY <1>1, <1>2, <1>3, <1>4 DEF Next

(* Bars, messages, transactions, passes and what they remember stay in their *)
(* domains, and a pass writes only a verdict it has reached (alpaca_stream,  *)
(* retest_data, runtime).                                                    *)
THEOREM StreamTyped == Spec => []TypeOK
<1>1. TypeInv => TypeOK
  BY DEF TypeInv
<1> QED BY <1>1, TypeInit, TypeStep, PTL DEF Spec

-----------------------------------------------------------------------------
(* The stream's invariant.                                                   *)

(* Minutes, clocks and versions are numbers.                                *)
LEMMA Numbers ==
  ASSUME TypeInv, NEW m \in Minute
  PROVE  /\ m \in Nat /\ clock \in Nat /\ since \in Nat
         /\ truth[m] \in Nat /\ minute[m] \in Nat /\ queue[m] \in Nat /\ bar[m] \in Nat
         /\ \A t \in threads : t.rows[m] \in Nat
<1>1. threads \subseteq Txn
  BY TypeParts DEF LinkType
<1>2. \A t \in threads : t.rows \in Rows
  BY <1>1 DEF Txn
<1>3. \A n \in 0..Versions : n \in Nat
  OBVIOUS
<1>4. \A x \in Rows : x[m] \in Nat
  BY <1>3 DEF Rows
<1>5. clock \in Nat
  BY TypeParts, Size DEF MarketType
<1> QED BY <1>2, <1>4, <1>5, TypeParts, Size DEF LinkType, MarketType, StoreType, Minute

(* The stream invariant holds of a connection that is down.                 *)
LEMMA StreamInit0 == Init => StreamInv
<1> SUFFICES ASSUME Init PROVE StreamInv
  OBVIOUS
<1>1. /\ threads = {} /\ fresh = Stale /\ conn = "down" /\ clock = 0 /\ lost = None
      /\ truth = None /\ minute = None /\ queue = None
  BY DEF Init, StreamInit
<1>2. OneWriter /\ Heeded /\ OnlyDeadLose /\ CompletedSince /\ BarsFollow
  BY <1>1 DEF Init, StreamInit, OneWriter, Heeded, OnlyDeadLose, CompletedSince, BarsFollow, Stale
<1>3. InOrder
  BY <1>1 DEF InOrder, None
<1>4. OnlyRestAnswers
  BY DEF Init, OnlyRestAnswers, Idle
<1> QED BY <1>2, <1>3, <1>4 DEF StreamInv

(* An observer may store bars, and does so only where REST answers.          *)
LEMMA AsideKeeps ==
  ASSUME TypeInv, StreamInv, Aside
  PROVE  StreamInv'
<1>1. scene'.rest = scene.rest /\ UNCHANGED <<clock, truth, minute, conn, since, queue, writer, threads, fresh, lost>>
  BY DEF Aside, SameDay, market, link
<1>2. ~scene.rest => bar' = bar
  BY DEF Aside, StreamInv, OnlyRestAnswers
<1>3. OneWriter' /\ InOrder'
  BY <1>1 DEF StreamInv, OneWriter, InOrder
<1>4. Heeded' /\ OnlyDeadLose' /\ CompletedSince'
  BY <1>1 DEF StreamInv, Heeded, Held, OnlyDeadLose, CompletedSince, Whole
<1>5. BarsFollow'
  BY <1>1, <1>2 DEF StreamInv, BarsFollow, Has, Whole
<1>6. OnlyRestAnswers'
  BY <1>1 DEF StreamInv, OnlyRestAnswers, Aside
<1> QED BY <1>3, <1>4, <1>5, <1>6 DEF StreamInv

(* A restart forgets the connection, its queue and its threads.             *)
LEMMA CrashKeeps ==
  ASSUME TypeInv, StreamInv, Crash
  PROVE  StreamInv'
<1>1. /\ threads' = {} /\ fresh' = Stale /\ conn' = "down" /\ queue' = None /\ lost' = None
      /\ UNCHANGED <<clock, truth, minute>>
  BY DEF Crash, market, store
<1>2. OneWriter' /\ Heeded' /\ OnlyDeadLose' /\ CompletedSince' /\ BarsFollow'
  BY <1>1 DEF OneWriter, Heeded, OnlyDeadLose, CompletedSince, BarsFollow, Stale
<1>3. \A m \in Minute : queue'[m] = 0
  BY <1>1 DEF None
<1>4. InOrder'
  BY <1>1, <1>3, Numbers DEF InOrder, StreamInv
<1>5. OnlyRestAnswers'
  BY DEF Crash, OnlyRestAnswers, Idle
<1> QED BY <1>2, <1>4, <1>5 DEF StreamInv

(* The vendor says a later version of a minute that is over.                 *)
LEMMA SaysKeeps ==
  ASSUME TypeInv, StreamInv, NEW m \in Minute, NEW v \in Nat, NEW s, truth[m] < v,
         m <= clock', clock <= clock', clock' \in Nat, truth' = [truth EXCEPT ![m] = v],
         Heard(m, v, s), SameDay(scene'), Elsewhere, UNCHANGED pass
  PROVE  StreamInv'
<1>1. scene'.rest = scene.rest /\ UNCHANGED <<minute, bar, since, writer, threads, fresh, lost, pass>>
  BY DEF SameDay, Elsewhere, store
<1>2. truth \in Rows /\ queue \in Rows
  BY TypeParts DEF MarketType, LinkType
<1>3. conn' = "up" => conn = "up" /\ queue' = [queue EXCEPT ![m] = v]
  BY DEF Heard
<1>4. /\ queue' = queue \/ queue' = [queue EXCEPT ![m] = v]
      /\ conn' = "down" => conn = "down"
  BY DEF Heard
<1>5. OneWriter' /\ OnlyDeadLose' /\ CompletedSince' /\ OnlyRestAnswers'
  BY <1>1, <1>4 DEF StreamInv, OneWriter, OnlyDeadLose, CompletedSince, Whole, OnlyRestAnswers
<1>6. BarsFollow'
  BY <1>1, <1>3 DEF StreamInv, BarsFollow, Has, Whole
<1>7. \A n \in Minute : truth'[n] = IF n = m THEN v ELSE truth[n]
  BY <1>2 DEF Rows
<1>8. \A n \in Minute : queue'[n] = queue[n] \/ (n = m /\ queue'[n] = v)
  BY <1>2, <1>4 DEF Rows
<1>9. \A n \in Minute : conn' = "up" => queue'[n] = IF n = m THEN v ELSE queue[n]
  BY <1>2, <1>3 DEF Rows
<1>10. InOrder'
  <2>1. \A n \in Minute : n > clock' => truth'[n] = 0
    BY <1>7, Numbers DEF StreamInv, InOrder
  <2>2. \A n \in Minute : /\ minute[n] <= truth'[n] /\ queue'[n] <= truth'[n]
                          /\ queue'[n] # 0 => minute[n] <= queue'[n]
    BY <1>7, <1>8, Numbers DEF StreamInv, InOrder
  <2>3. \A t \in threads, n \in Minute :
          t.rows[n] <= truth'[n] /\ (t.rows[n] # 0 /\ queue'[n] # 0 => t.rows[n] <= queue'[n])
    BY <1>7, <1>8, Numbers DEF StreamInv, InOrder
  <2> QED BY <1>1, <2>1, <2>2, <2>3 DEF StreamInv, InOrder
<1>11. Heeded'
  BY <1>1, <1>3, <1>7, <1>9 DEF StreamInv, Heeded, Held
<1> QED BY <1>5, <1>6, <1>10, <1>11 DEF StreamInv

(* What the vendor prints and the connection carries keeps it.              *)
LEMMA VendorKeeps ==
  ASSUME TypeInv, StreamInv, Vendor, UNCHANGED <<why, recovery, pass, older>>
  PROVE  StreamInv'
<1>1. SameDay(scene') /\ SameDay(scene) /\ scene.minutes \in Nat /\ scene.minutes <= Windows * Length
  BY VendorType, SameNow, TypeParts DEF Scene
<1>2. clock \in Nat
  BY TypeParts, Size DEF MarketType
<1>3. CASE Trade
  <2>1. clock + 1 \in Minute
    BY <1>1, <1>2, <1>3, Size DEF Trade, Minute
  <2>2. truth[clock + 1] < 1
    BY <1>2, <2>1 DEF StreamInv, InOrder
  <2>3. /\ clock + 1 <= clock' /\ clock <= clock' /\ clock' \in Nat
        /\ truth' = [truth EXCEPT ![clock + 1] = 1]
        /\ Heard(clock + 1, 1, scene) /\ Elsewhere
    BY <1>2, <1>3 DEF Trade
  <2>4. 1 \in Nat
    OBVIOUS
  <2> QED BY <1>1, <2>1, <2>2, <2>3, <2>4, SaysKeeps
<1>4. CASE Silent
  <2>1. /\ scene'.rest = scene.rest /\ clock' = clock + 1
        /\ UNCHANGED <<truth, minute, bar, conn, since, queue, writer, threads, fresh, lost, pass>>
    BY <1>1, <1>4 DEF Silent, Elsewhere, SameDay, store
  <2>2. OneWriter' /\ OnlyDeadLose' /\ CompletedSince' /\ OnlyRestAnswers' /\ Heeded' /\ BarsFollow'
    BY <2>1 DEF StreamInv, OneWriter, OnlyDeadLose, CompletedSince, Whole, Has, OnlyRestAnswers, Heeded,
                Held, BarsFollow
  <2>3. InOrder'
    BY <1>2, <2>1, Numbers DEF StreamInv, InOrder
  <2> QED BY <2>2, <2>3 DEF StreamInv
<1>5. ASSUME NEW m \in Minute, Correct(m) PROVE StreamInv'
  <2>1. truth[m] \in Nat /\ truth'[m] = truth[m] + 1
    BY <1>5, Numbers, TypeParts DEF Correct, MarketType, Rows
  <2> DEFINE v == truth'[m]
  <2>2. v \in Nat /\ truth[m] < v
    BY <2>1
  <2>3. m <= clock' /\ clock <= clock' /\ clock' \in Nat /\ Elsewhere
    BY <1>2, <1>5, Numbers DEF Correct
  <2>4. truth' = [truth EXCEPT ![m] = v]
    BY <1>5, <2>1 DEF Correct
  <2>5. Heard(m, v, [scene EXCEPT !.corrections = @ - 1])
    BY <1>5 DEF Correct
  <2> HIDE DEF v
  <2> QED BY <1>1, <2>2, <2>3, <2>4, <2>5, SaysKeeps
<1> QED BY <1>3, <1>4, <1>5 DEF Vendor

(* The stream goes down only when no transaction is under way.               *)
LEMMA DownKeeps ==
  ASSUME TypeInv, StreamInv, Down, threads = {}, UNCHANGED pass
  PROVE  StreamInv'
<1>1. /\ conn' = "down" /\ fresh' = Stale /\ queue' = None /\ lost' = None
      /\ UNCHANGED <<scene, clock, truth, minute, threads>>
  BY DEF Down, market, store
<1>2. OneWriter' /\ Heeded' /\ OnlyDeadLose' /\ CompletedSince' /\ BarsFollow' /\ OnlyRestAnswers'
  BY <1>1 DEF StreamInv, OneWriter, Heeded, OnlyDeadLose, CompletedSince, BarsFollow, Stale, OnlyRestAnswers
<1>3. \A m \in Minute : queue'[m] = 0
  BY <1>1 DEF None
<1>4. InOrder'
  BY <1>1, <1>3, Numbers DEF InOrder, StreamInv
<1> QED BY <1>2, <1>4 DEF StreamInv

(* What is told of a minute stays in the same order under the steps that     *)
(* only lose messages, or hand them on.                                      *)
LEMMA LinkKeeps ==
  ASSUME TypeInv, StreamInv, Link, UNCHANGED <<why, recovery, pass, older>>
  PROVE  StreamInv'
<1>1. threads # {} => writer = "writing"
  BY DEF StreamInv, OneWriter
<1>2. CASE Subscribe
  <2>1. /\ conn = "down" /\ conn' = "up" /\ since' = clock /\ threads = {} /\ fresh = Stale /\ lost = None
        /\ UNCHANGED <<scene, clock, truth, minute, bar, queue, threads, fresh, lost>>
    BY <1>2 DEF Subscribe, StreamInv, OneWriter, market, store
  <2>2. \A m \in Minute : m > clock => truth[m] = 0 /\ minute[m] = 0
    BY Numbers DEF StreamInv, InOrder
  <2>3. Heeded' /\ BarsFollow'
    BY <2>1, <2>2 DEF Heeded, Held, BarsFollow, Whole, MinutesOf
  <2>4. OneWriter' /\ InOrder' /\ OnlyDeadLose' /\ CompletedSince' /\ OnlyRestAnswers'
    BY <2>1 DEF StreamInv, OneWriter, InOrder, OnlyDeadLose, CompletedSince, Stale, OnlyRestAnswers
  <2> QED BY <2>3, <2>4 DEF StreamInv
<1>3. CASE Close
  <2>1. /\ conn' = "closing" /\ scene'.rest = scene.rest
        /\ UNCHANGED <<clock, truth, minute, bar, since, queue, writer, threads, fresh, lost>>
    BY <1>3, LinkStepType DEF Close, Link, SameDay, market, store
  <2> QED BY <2>1 DEF StreamInv, OneWriter, InOrder, Heeded, OnlyDeadLose, CompletedSince, Whole, BarsFollow,
                      OnlyRestAnswers
<1>4. CASE Drained \/ Joined \/ (GiveUp /\ Down)
  BY <1>1, <1>4, DownKeeps DEF Drained, Joined, GiveUp, Down
<1>5. CASE GiveUp /\ ~Down
  <2>1. /\ conn' = "joining" /\ queue' = None
        /\ UNCHANGED <<scene, clock, truth, minute, bar, since, writer, threads, fresh, lost>>
    BY <1>5 DEF GiveUp, market, store
  <2>2. \A m \in Minute : queue'[m] = 0
    BY <2>1 DEF None
  <2>3. InOrder'
    BY <2>1, <2>2, Numbers DEF InOrder, StreamInv
  <2> QED BY <2>1, <2>3 DEF StreamInv, OneWriter, Heeded, OnlyDeadLose, CompletedSince, Whole, BarsFollow,
                            OnlyRestAnswers
<1>6. CASE Take
  <2> DEFINE t == [rows |-> queue, at |-> "minutes"]
  <2>1. /\ conn # "down" /\ threads = {} /\ threads' = {t} /\ queue' = None /\ writer' = "writing"
        /\ writer = "ready"
        /\ UNCHANGED <<scene, clock, truth, minute, bar, conn, since, fresh, lost>>
    BY <1>1, <1>6 DEF Take, market, store
  <2>2. \A m \in Minute : queue'[m] = 0
    BY <2>1 DEF None
  <2>3. t.rows = queue /\ t.at = "minutes"
    OBVIOUS
  <2> HIDE DEF t
  <2>4. InOrder'
    BY <2>1, <2>2, <2>3, Numbers DEF InOrder, StreamInv
  <2>5. Heeded'
    BY <2>1, <2>3 DEF StreamInv, Heeded, Held
  <2>6. OneWriter' /\ OnlyDeadLose' /\ CompletedSince' /\ BarsFollow' /\ OnlyRestAnswers'
    BY <2>1, <2>3 DEF StreamInv, OneWriter, OnlyDeadLose, CompletedSince, Whole, BarsFollow, OnlyRestAnswers
  <2> QED BY <2>4, <2>5, <2>6 DEF StreamInv
<1> QED BY <1>2, <1>3, <1>4, <1>5, <1>6 DEF Link

(* The one transaction under way, and what becomes of it.                    *)
LEMMA Alone ==
  ASSUME TypeInv, StreamInv, NEW t \in threads
  PROVE  threads = {t} /\ t \in Txn /\ writer = "writing" /\ conn # "down" /\ lost = None
<1>1. threads = {t} /\ writer = "writing" /\ conn # "down" /\ lost = None
  BY DEF StreamInv, OneWriter, OnlyDeadLose
<1>2. t \in Txn
  BY TypeParts DEF LinkType
<1> QED BY <1>1, <1>2

(* A transaction goes on with the same rows.                                *)
LEMMA Advances ==
  ASSUME TypeInv, StreamInv, NEW t \in threads, NEW l, Advance(t, l)
  PROVE  \E u : threads' = {u} /\ u.rows = t.rows /\ u.at = l
<1> DEFINE u == [t EXCEPT !.at = l]
<1>1. u.rows = t.rows /\ u.at = l
  BY Alone DEF Txn
<1>2. threads' = {u}
  BY Alone DEF Advance
<1> QED BY <1>1, <1>2

(* The minutes of a batch are stored: none goes back to an older version.   *)
LEMMA StoreMinutesKeeps ==
  ASSUME TypeInv, StreamInv, NEW t \in threads, StoreMinutes(t), UNCHANGED pass
  PROVE  StreamInv' /\ \A m \in Minute : minute[m] <= minute'[m]
<1>1. /\ threads = {t} /\ t \in Txn /\ writer = "writing" /\ conn # "down" /\ t.at = "minutes"
      /\ UNCHANGED <<scene, clock, truth, bar, conn, since, queue, writer, fresh, lost>>
  BY Alone DEF StoreMinutes, market
<1>2. PICK u : threads' = {u} /\ u.rows = t.rows /\ u.at = "bars"
  BY Advances DEF StoreMinutes
<1>3. \A m \in Minute : minute'[m] = IF t.rows[m] # 0 THEN t.rows[m] ELSE minute[m]
  BY DEF StoreMinutes, Newer
<1>4. \A m \in Minute : /\ t.rows[m] \in Nat /\ minute[m] \in Nat /\ queue[m] \in Nat
                        /\ t.rows[m] <= truth[m] /\ minute[m] <= truth[m]
                        /\ t.rows[m] # 0 => minute[m] <= t.rows[m]
  BY <1>1, Numbers DEF StreamInv, InOrder
<1>5. \A m \in Minute : minute[m] <= minute'[m] /\ minute'[m] <= truth[m]
  BY <1>3, <1>4
<1>6. InOrder'
  BY <1>1, <1>2, <1>3, <1>4, <1>5 DEF StreamInv, InOrder
<1>7. Heeded'
  <2>1. ASSUME NEW m \in Minute, truth[m] \in Held(m) PROVE truth[m] \in Held(m)'
    <3>1. CASE truth[m] = minute[m]
      <4>1. minute'[m] = truth[m]
        BY <1>3, <1>4, <3>1, Numbers
      <4> QED BY <4>1 DEF Held
    <3>2. CASE truth[m] = queue[m] \/ truth[m] = t.rows[m]
      BY <1>1, <1>2, <3>2 DEF Held
    <3> QED BY <1>1, <2>1, <3>1, <3>2 DEF Held
  <2> QED BY <1>1, <2>1 DEF StreamInv, Heeded
<1>8. \A w \in Window : Whole(minute, w) => Whole(minute, w)'
  BY <1>3 DEF Whole, MinutesOf
<1>9. BarsFollow'
  <2> SUFFICES ASSUME conn' = "up", ~scene'.rest, NEW w \in Window,
                      \A m \in MinutesOf(w) : m > since', Whole(minute', w), ~Has(lost', w),
                      \A x \in threads' : x.at = "bars" => ~Has(x.rows, w),
                      NEW m \in MinutesOf(w)
               PROVE  bar'[m] = minute'[m]
    BY DEF BarsFollow, Whole, Has
  <2>1. ~Has(t.rows, w)
    BY <1>2
  <2>2. \A n \in MinutesOf(w) : n \in Minute /\ minute'[n] = minute[n]
    BY <1>3, <2>1 DEF Has, MinutesOf
  <2>3. Whole(minute, w)
    BY <2>2 DEF Whole
  <2> QED BY <1>1, <2>2, <2>3 DEF StreamInv, BarsFollow
<1>10. CompletedSince'
  <2>1. fresh.completed > 0 => fresh.completed \in Window
    BY TypeParts DEF LinkType, Window
  <2> QED BY <1>1, <1>8, <2>1 DEF StreamInv, CompletedSince
<1>11. OneWriter' /\ OnlyDeadLose' /\ OnlyRestAnswers'
  BY <1>1, <1>2 DEF StreamInv, OneWriter, OnlyDeadLose, OnlyRestAnswers
<1> QED BY <1>5, <1>6, <1>7, <1>9, <1>10, <1>11 DEF StreamInv

(* The bars of the batch are stored after its minutes.                      *)
LEMMA StoreBarsKeeps ==
  ASSUME TypeInv, StreamInv, NEW t \in threads, StoreBars(t), UNCHANGED pass
  PROVE  StreamInv'
<1>1. /\ threads = {t} /\ t \in Txn /\ writer = "writing" /\ conn # "down" /\ t.at = "bars"
      /\ UNCHANGED <<scene, clock, truth, minute, conn, since, queue, writer, fresh, lost>>
  BY Alone DEF StoreBars, market
<1>2. PICK u : threads' = {u} /\ u.rows = t.rows /\ u.at = "notify"
  BY Advances DEF StoreBars
<1>3. InOrder'
  BY <1>1, <1>2 DEF StreamInv, InOrder
<1>4. Heeded'
  BY <1>1, <1>2 DEF StreamInv, Heeded, Held
<1>5. BarsFollow'
  <2> SUFFICES ASSUME conn' = "up", ~scene'.rest, NEW w \in Window,
                      \A m \in MinutesOf(w) : m > since', Whole(minute', w), ~Has(lost', w),
                      NEW m \in MinutesOf(w)
               PROVE  bar'[m] = minute'[m]
    BY DEF BarsFollow, Whole, Has
  <2>1. m \in Minute /\ WindowOf(m) = w /\ Whole(minute, w) /\ minute[m] # 0
    BY <1>1 DEF MinutesOf, Whole
  <2> DEFINE rows == Only(minute, Completed(t))
  <2>2. bar' = Over(rows, bar)
    BY DEF StoreBars
  <2>3. \A n \in Minute : rows[n] = IF WindowOf(n) \in Completed(t) THEN minute[n] ELSE 0
    BY DEF Only
  <2> HIDE DEF rows
  <2>4. bar'[m] = IF Has(rows, w) THEN rows[m] ELSE bar[m]
    BY <2>1, <2>2 DEF Over
  <2>5. CASE Has(t.rows, w)
    <3>1. w \in Completed(t)
      BY <2>1, <2>5 DEF Completed
    <3>2. rows[m] = minute[m] /\ Has(rows, w)
      BY <2>1, <2>3, <3>1 DEF Has
    <3> QED BY <1>1, <2>4, <3>2
  <2>6. CASE ~Has(t.rows, w)
    <3>1. w \notin Completed(t)
      BY <2>6 DEF Completed
    <3>2. ~Has(rows, w)
      BY <2>3, <3>1 DEF Has, MinutesOf
    <3>3. bar[m] = minute[m]
      BY <1>1, <2>1, <2>6 DEF StreamInv, BarsFollow
    <3> QED BY <1>1, <2>4, <3>2, <3>3
  <2> QED BY <2>5, <2>6
<1>6. OneWriter' /\ OnlyDeadLose' /\ CompletedSince' /\ OnlyRestAnswers'
  BY <1>1, <1>2 DEF StreamInv, OneWriter, OnlyDeadLose, CompletedSince, Whole, OnlyRestAnswers
<1> QED BY <1>3, <1>4, <1>5, <1>6 DEF StreamInv

(* The batch is announced once it is stored.                                *)
LEMMA NotifyKeeps ==
  ASSUME TypeInv, StreamInv, NEW t \in threads, Notify(t), UNCHANGED pass
  PROVE  StreamInv'
<1>1. /\ threads = {t} /\ t \in Txn /\ conn # "down" /\ t.at = "notify"
      /\ UNCHANGED <<scene, clock, truth, minute, bar, conn, since, queue, lost>>
      /\ writer' = "ready" /\ threads' = {}
  <2>1. threads' = threads \ {t} /\ writer' = "ready"
    BY DEF Notify
  <2> QED BY <2>1, Alone DEF Notify, market, store
<1>2. PICK done \in 0..Windows :
        /\ done \in {fresh.completed} \union {w \in Completed(t) : (w - 1) * Length > since}
        /\ fresh'.completed = done
  BY DEF Notify
<1>3. InOrder'
  BY <1>1 DEF StreamInv, InOrder
<1>4. Heeded'
  <2>1. ASSUME NEW m \in Minute, truth[m] \in Held(m) PROVE truth[m] \in Held(m)'
    <3>1. t.rows[m] # 0 => minute[m] = t.rows[m]
      BY <1>1 DEF StreamInv, InOrder
    <3>2. truth[m] = 0 => minute[m] = 0
      BY Numbers DEF StreamInv, InOrder
    <3> QED BY <1>1, <2>1, <3>1, <3>2 DEF Held
  <2> QED BY <1>1, <2>1 DEF StreamInv, Heeded
<1>5. BarsFollow'
  BY <1>1, Alone DEF StreamInv, BarsFollow, Whole, Has
<1>6. CompletedSince'
  <2>1. CASE done = fresh.completed
    BY <1>1, <1>2, <2>1 DEF StreamInv, CompletedSince, Whole
  <2>2. CASE done \in Completed(t) /\ (done - 1) * Length > since
    <3>1. done \in Window /\ Whole(minute, done) /\ since \in Nat
      BY <2>2, TypeParts DEF Completed, LinkType
    <3>2. \A m \in MinutesOf(done) : m > since
      BY <2>2, <3>1, MinuteAfter
    <3> QED BY <1>1, <1>2, <3>1, <3>2 DEF CompletedSince, Whole
  <2> QED BY <1>2, <2>1, <2>2
<1>7. OneWriter' /\ OnlyDeadLose' /\ OnlyRestAnswers'
  BY <1>1, Alone DEF StreamInv, OneWriter, OnlyDeadLose, OnlyRestAnswers
<1> QED BY <1>3, <1>4, <1>5, <1>6, <1>7 DEF StreamInv

(* A write that fails loses what was in it, and nothing else.               *)
LEMMA WriteFailsKeeps ==
  ASSUME TypeInv, StreamInv, NEW t \in threads, WriteFails(t), SameDay(scene'), UNCHANGED pass
  PROVE  StreamInv'
<1>1. /\ threads = {t} /\ conn # "down" /\ scene'.rest = scene.rest /\ lost = None
      /\ UNCHANGED <<clock, truth, minute, bar, conn, since, queue, fresh>>
      /\ writer' = "dead" /\ threads' = {} /\ lost' = t.rows
  <2>1. threads' = threads \ {t} /\ writer' = "dead" /\ lost' = t.rows
    BY DEF WriteFails
  <2> QED BY <2>1, Alone DEF WriteFails, SameDay, market, store
<1>2. Heeded'
  <2>1. \A m \in Minute : lost[m] = 0 /\ minute[m] \in Nat /\ minute[m] <= truth[m]
    BY <1>1, Numbers DEF None, StreamInv, InOrder
  <2>2. ASSUME NEW m \in Minute, truth[m] \in Held(m) \union {lost[m]}
        PROVE  truth[m] \in Held(m)' \union {lost'[m]}
    <3>1. truth[m] = 0 => minute[m] = 0
      BY <2>1
    <3> QED BY <1>1, <2>1, <2>2, <3>1 DEF Held
  <2> QED BY <1>1, <2>2 DEF StreamInv, Heeded
<1>3. BarsFollow'
  <2>1. \A w \in Window : ~Has(lost, w)
    BY <1>1 DEF Has, None, MinutesOf
  <2> QED BY <1>1, <2>1 DEF StreamInv, BarsFollow, Whole, Has
<1>4. OneWriter' /\ InOrder' /\ OnlyDeadLose' /\ CompletedSince' /\ OnlyRestAnswers'
  BY <1>1 DEF StreamInv, OneWriter, InOrder, OnlyDeadLose, CompletedSince, Whole, OnlyRestAnswers
<1> QED BY <1>2, <1>3, <1>4 DEF StreamInv

(* Every step keeps the stream invariant, and no minute regresses.          *)
LEMMA StreamStep ==
  TypeInv /\ StreamInv /\ [Next]_vars =>
    StreamInv' /\ (\A m \in Minute : minute[m] <= minute'[m])
<1> DEFINE Grows == \A m \in Minute : minute[m] <= minute'[m]
<1> SUFFICES ASSUME TypeInv, StreamInv, [Next]_vars PROVE StreamInv' /\ Grows
  OBVIOUS
<1>0. minute' = minute => Grows
  <2>1. \A m \in Minute : minute[m] \in Nat
    BY Numbers
  <2>2. \A n \in Nat : n <= n
    OBVIOUS
  <2> QED BY <2>1, <2>2
<1> HIDE DEF Grows
<1>1. CASE Vendor /\ UNCHANGED <<why, recovery, pass, older>>
  <2>1. minute' = minute
    BY <1>1 DEF Vendor, Trade, Silent, Correct, Elsewhere, store
  <2> QED BY <1>0, <1>1, <2>1, VendorKeeps
<1>2. CASE Link /\ UNCHANGED <<why, recovery, pass, older>>
  <2>1. minute' = minute
    BY <1>2 DEF Link, Subscribe, Close, Drained, GiveUp, Joined, Down, Take, store
  <2> QED BY <1>0, <1>2, <2>1, LinkKeeps
<1>3. ASSUME NEW t \in threads, Ingest(t) \/ WriteFails(t), UNCHANGED <<why, recovery, pass, older>>
      PROVE  StreamInv' /\ Grows
  <2>1. SameDay(scene')
    BY <1>3, IngestType
  <2>2. CASE StoreMinutes(t)
    BY <1>3, <2>2, StoreMinutesKeeps DEF Grows
  <2>3. CASE StoreBars(t)
    BY <1>0, <1>3, <2>3, StoreBarsKeeps DEF StoreBars
  <2>4. CASE Notify(t)
    BY <1>0, <1>3, <2>4, NotifyKeeps DEF Notify, store
  <2>5. CASE WriteFails(t)
    BY <1>0, <1>3, <2>1, <2>5, WriteFailsKeeps DEF WriteFails, store
  <2> QED BY <1>3, <2>2, <2>3, <2>4, <2>5 DEF Ingest
<1>4. CASE (\E p \in Pass : Observe(p) \/ PassFails(p)) \/ FailureAges \/ CacheAges
  BY <1>0, <1>4, ObserverAside, AsideKeeps DEF Aside
<1>5. CASE Crash
  BY <1>0, <1>5, CrashKeeps DEF Crash, store
<1>6. CASE UNCHANGED vars
  BY <1>0, <1>6 DEF vars, stream, market, store, link, StreamInv, OneWriter, InOrder, Heeded, Held,
              OnlyDeadLose, CompletedSince, Whole, BarsFollow, OnlyRestAnswers
<1> QED BY <1>1, <1>2, <1>3, <1>4, <1>5, <1>6 DEF Next, Stream, Grows

(* The types and the stream invariant hold of every state.                  *)
LEMMA StreamInvariant == Spec => [](TypeInv /\ StreamInv)
<1> QED BY TypeInit, TypeStep, StreamInit0, StreamStep, PTL DEF Spec

(* A correction is never undone by an older message, through full queues,    *)
(* failed transactions, reconnections and restarts: the last transaction of  *)
(* a connection is joined before the next one stores anything                *)
(* (alpaca_stream.py _run, which waits for its writer).                                        *)
THEOREM CorrectionsStay == Spec => MinutesNeverRegress
<1>1. TypeInv /\ StreamInv /\ [Next]_vars => [\A m \in Minute : minute[m] <= minute'[m]]_stream
  BY StreamStep
<1> QED BY <1>1, StreamInvariant, PTL DEF Spec, MinutesNeverRegress

(* While the stream passes for current, nothing it said of the last window   *)
(* is lost but what was in the transaction that failed, until the reader has *)
(* seen that; without REST the bar of a window that transaction did not      *)
(* touch is made of the stored minutes (current(), ingest_batch, _receive).  *)
THEOREM CurrentStreamIsHeard == Spec => []FreshIsHeard
<1>1. TypeInv /\ StreamInv => FreshIsHeard
  <2> SUFFICES ASSUME TypeInv, StreamInv, Current, NEW m \in MinutesOf(Closed)
               PROVE  /\ truth[m] \in Held(m) \union {lost[m]}
                      /\ ~scene.rest /\ threads = {} /\ ~Has(lost, Closed) => bar[m] = minute[m]
    BY DEF FreshIsHeard
  <2>1. conn = "up" /\ fresh.completed = Closed /\ Closed > 0
    BY DEF Current
  <2>2. Closed \in Window
    BY <2>1, ClosedType, TypeParts DEF MarketType, Closed, Window
  <2>3. (\A n \in MinutesOf(Closed) : n > since) /\ Whole(minute, Closed)
    BY <2>1 DEF StreamInv, CompletedSince
  <2>4. m \in Minute /\ m > since
    BY <2>3 DEF MinutesOf
  <2>5. truth[m] \in Held(m) \union {lost[m]}
    BY <2>1, <2>4 DEF StreamInv, Heeded
  <2>6. ~scene.rest /\ threads = {} /\ ~Has(lost, Closed) => bar[m] = minute[m]
    BY <2>1, <2>2, <2>3 DEF StreamInv, BarsFollow
  <2> QED BY <2>5, <2>6
<1> QED BY <1>1, StreamInvariant, PTL
=============================================================================
