-------------------------- MODULE EntryRefinement --------------------------
(***************************************************************************)
(* EntryExecution implements EntryAttempt: whatever the interleaving of     *)
(* decide, the reconciliation pass, the venue and restarts, a card is       *)
(* attempted once, sent once, and dead only when it bought nothing.         *)
(*                                                                          *)
(* Every step of the detailed model does one of four things to the intents  *)
(* and the fills, and the proof has one lemma for each: it touches neither  *)
(* (a stutter), it creates the intent of an untouched card, it moves one    *)
(* intent that exists, or the venue fills a share.                          *)
(*                                                                          *)
(* From it follows what the check of the symbol's blockers is good for: a   *)
(* second entry needs a race (EntryRace).                                   *)
(***************************************************************************)
EXTENDS EntryExecutionProofs, EntryRace

Live == IntentStatus \ ({Created} \union Terminal)

phaseBar == [k \in Key |-> AttemptPhase(intent[k])]

(* The abstract state of each status.                                       *)
LEMMA PhaseOf ==
  /\ AttemptPhase("none") = "none"
  /\ AttemptPhase(Created) = "prepared"
  /\ AttemptPhase(Filled) = "bought"
  /\ \A s \in {Rejected, Canceled, Expired} : AttemptPhase(s) = "dead"
  /\ \A s \in Live : AttemptPhase(s) = "live"
<1> USE DEF AttemptPhase
<1>1. AttemptPhase("none") = "none" /\ AttemptPhase(Created) = "prepared"
  BY DEF Created, Filled, Rejected, Canceled, Expired
<1>2. AttemptPhase(Filled) = "bought"
  BY DEF Created, Filled, Rejected, Canceled, Expired
<1>3. \A s \in {Rejected, Canceled, Expired} : AttemptPhase(s) = "dead"
  BY DEF Created, Filled, Rejected, Canceled, Expired
<1>4. ASSUME NEW s \in Live PROVE AttemptPhase(s) = "live"
  <2>1. s \notin {"none", Created, Filled, Rejected, Canceled, Expired}
    BY SentNames DEF Live
  <2> QED
    BY <2>1
<1> QED
  BY <1>1, <1>2, <1>3, <1>4

(* A step that changes neither an intent nor a fill is a stutter.           *)
LEMMA Stutters ==
  ASSUME UNCHANGED <<intent, filled>>
  PROVE  UNCHANGED <<phaseBar, filled>>
  BY DEF phaseBar

(* Moving the intent of a key leaves every other key's phase alone.         *)
LEMMA OnePhase ==
  ASSUME TypeOK, NEW k \in Key, NEW t, intent' = [intent EXCEPT ![k] = t]
  PROVE  phaseBar' = [phaseBar EXCEPT ![k] = AttemptPhase(t)]
<1>1. \A j \in Key : intent'[j] = IF j = k THEN t ELSE intent[j]
  BY DEF TypeOK
<1>2. phaseBar = [j \in Key |-> AttemptPhase(intent[j])]
  BY DEF phaseBar
<1>3. phaseBar' = [j \in Key |-> AttemptPhase(intent'[j])]
  BY DEF phaseBar, AttemptPhase
<1> QED
  BY <1>1, <1>2, <1>3

(* The first approval of a card that commits prepares its attempt.          *)
LEMMA CreationPrepares ==
  ASSUME TypeOK, NEW k \in Key, CommitCreates(k),
         intent' = [intent EXCEPT ![k] = Created], UNCHANGED filled
  PROVE  Attempt!Next
<1>1. \A r \in Request : <<k[1], r>> \in Key /\ intent[<<k[1], r>>] = "none"
  BY DEF CommitCreates, HasIntent, Key
<1>2. \A r \in Request : phaseBar[<<k[1], r>>] = "none"
  BY <1>1, PhaseOf DEF phaseBar
<1>3. phaseBar' = [phaseBar EXCEPT ![k] = "prepared"]
  <2>1. AttemptPhase(Created) = "prepared"
    BY PhaseOf
  <2>2. phaseBar' = [phaseBar EXCEPT ![k] = AttemptPhase(Created)]
    BY OnePhase
  <2> QED BY <2>1, <2>2
<1>4. Attempt!Prepare(k)
  BY <1>2, <1>3 DEF Attempt!Prepare, phaseBar
<1> QED
  BY <1>4 DEF Attempt!Next, Attempt!Step, Attempt!Key, Key

(* An intent that exists is sent, abandoned, given up or owned, or its       *)
(* phase stays: the invariant after the step says which the fills allow.    *)
LEMMA IntentMoves ==
  ASSUME EntryInv, EntryInv', NEW k \in Key, NEW t,
         intent' = [intent EXCEPT ![k] = t], UNCHANGED filled,
         \/ t = intent[k]
         \/ intent[k] = Created /\ t \in {Submitting, Rejected}
         \/ intent[k] \in Live /\ t \in PastSubmit
  PROVE  [Attempt!Next]_<<phaseBar, filled>>
<1>t. TypeOK /\ intent'[k] = t /\ filled'[k] = filled[k] /\ filled[k] \in Nat
  BY DEF EntryInv, TypeOK
<1>0. phaseBar' = [phaseBar EXCEPT ![k] = AttemptPhase(t)]
  BY <1>t, OnePhase
<1>p. phaseBar[k] = AttemptPhase(intent[k])
  BY DEF phaseBar
<1>i. k \in Attempt!Key
  BY DEF Attempt!Key, Key
<1>v. /\ t = Filled => filled[k] > 0
      /\ t \in {Rejected, Canceled, Expired} => filled[k] = 0
  BY <1>t DEF EntryInv, VenueBehindIntent
<1>1. CASE AttemptPhase(t) = AttemptPhase(intent[k])
  BY <1>0, <1>p, <1>1 DEF phaseBar
<1>2. CASE intent[k] = Created /\ t = Submitting
  <2>1. phaseBar[k] = "prepared" /\ phaseBar' = [phaseBar EXCEPT ![k] = "live"]
    BY <1>0, <1>p, <1>2, PhaseOf, SentNames DEF Live
  <2>2. Attempt!Send(k)
    BY <2>1 DEF Attempt!Send, phaseBar
  <2> QED
    BY <2>2, <1>i DEF Attempt!Next, Attempt!Step
<1>3. CASE intent[k] = Created /\ t = Rejected
  <2>1. phaseBar[k] = "prepared" /\ phaseBar' = [phaseBar EXCEPT ![k] = "dead"]
    BY <1>0, <1>p, <1>3, PhaseOf
  <2>2. Attempt!Abandon(k)
    BY <2>1 DEF Attempt!Abandon, phaseBar
  <2> QED
    BY <2>2, <1>i DEF Attempt!Next, Attempt!Step
<1>4. CASE intent[k] \in Live /\ t = Filled
  <2>1. phaseBar[k] = "live" /\ phaseBar' = [phaseBar EXCEPT ![k] = "bought"]
    BY <1>0, <1>p, <1>4, PhaseOf
  <2>2. Attempt!Own(k)
    BY <2>1, <1>4, <1>v DEF Attempt!Own, phaseBar
  <2> QED
    BY <2>2, <1>i DEF Attempt!Next, Attempt!Step
<1>5. CASE intent[k] \in Live /\ t \in {Rejected, Canceled, Expired}
  <2>1. phaseBar[k] = "live" /\ phaseBar' = [phaseBar EXCEPT ![k] = "dead"]
    BY <1>0, <1>p, <1>5, PhaseOf
  <2>2. Attempt!GiveUp(k)
    BY <2>1, <1>5, <1>v DEF Attempt!GiveUp, phaseBar
  <2> QED
    BY <2>2, <1>i DEF Attempt!Next, Attempt!Step
<1>6. CASE intent[k] \in Live /\ t \in PastSubmit \ Terminal
  <2>1. t \in Live
    BY <1>6, SentNames DEF Live
  <2>2. AttemptPhase(t) = AttemptPhase(intent[k])
    BY <2>1, <1>6, PhaseOf
  <2> QED
    BY <2>2, <1>1
<1> QED
  BY <1>1, <1>2, <1>3, <1>4, <1>5, <1>6, SentNames

(* A share bought at the venue belongs to a live attempt with room for it.  *)
LEMMA FillBuys ==
  ASSUME EntryInv, NEW k \in Key, Fill(k)
  PROVE  Attempt!Next
<1>1. filled[k] < Qty /\ intent[k] \in Live
  BY SentNames, VenueNames
  DEF EntryInv, TypeOK, VenueBehindIntent, Fill, Working, Sent, Live
<1>2. phaseBar[k] = "live"
  BY <1>1, PhaseOf DEF phaseBar
<1>3. UNCHANGED phaseBar
  BY DEF Fill, desk, phaseBar
<1>4. Attempt!Buy(k)
  BY <1>1, <1>2, <1>3 DEF Attempt!Buy, Fill, phaseBar
<1> QED
  BY <1>4 DEF Attempt!Next, Attempt!Step, Attempt!Key, Key

(* Every step of decide is a step of the attempt it drives, or a stutter.    *)
LEMMA DecideRefines ==
  ASSUME EntryInv, EntryInv', NEW w \in Worker, Decide(w)
  PROVE  [Attempt!Next]_<<phaseBar, filled>>
<1> DEFINE k == job[w]
<1>t. TypeOK /\ (pc[w] # "idle" => k \in Key)
  BY DEF EntryInv, TypeOK
<1>1. ASSUME UNCHANGED <<intent, filled>> PROVE [Attempt!Next]_<<phaseBar, filled>>
  BY <1>1, Stutters
<1>2. CASE CommitNew(w)
  BY <1>2, <1>t, CreationPrepares DEF CommitNew, venue
<1>3. CASE SubmitClaim(w) \/ SubmissionBlocked(w) \/ ReplyRecord(w) \/ ReplyRejection(w)
        \/ ReplyLost(w)
  <2>1. k \in Key /\ UNCHANGED filled
    BY <1>3, <1>t
    DEF SubmitClaim, SubmissionBlocked, ReplyRecord, ReplyRejection, ReplyLost, venue
  <2>2. CASE SubmitClaim(w)
    BY <2>1, <2>2, IntentMoves DEF SubmitClaim
  <2>3. CASE SubmissionBlocked(w) \/ ReplyRecord(w) \/ ReplyRejection(w) \/ ReplyLost(w)
    <3>1. intent[k] = Submitting /\ intent[k] \in Live
      BY <2>3, SentNames
      DEF SubmissionBlocked, ReplyRecord, ReplyRejection, ReplyLost, EntryInv,
          CoroutineBehindIntent, Sending, Live, PastSubmit
    <3>2. PICK t \in PastSubmit : intent' = [intent EXCEPT ![k] = t]
      BY <2>3, <3>1, SentNames
      DEF SubmissionBlocked, ReplyRecord, ReplyRejection, ReplyLost, MarkUnknown, Live
    <3> QED
      BY <2>1, <3>1, <3>2, IntentMoves
  <2> QED
    BY <1>3, <2>2, <2>3
<1>4. CASE RecoverFails(w) \/ FillGivesUp(w) \/ SettleUnknown(w) \/ SettleEmpty(w)
        \/ SettlePartial(w) \/ FlattenUnconfirmed(w) \/ ResolveEntry(w)
  <2>1. intent[k] \in PastSubmit
    BY <1>4, <1>t
    DEF RecoverFails, FillGivesUp, SettleUnknown, SettleEmpty, SettlePartial,
        FlattenUnconfirmed, ResolveEntry, EntryInv, CoroutineBehindIntent, Settling, Owning
  <2>2. PICK t : /\ intent' = [intent EXCEPT ![k] = t] /\ UNCHANGED filled /\ k \in Key
                 /\ t \in PastSubmit /\ (intent[k] \in Terminal => t = intent[k])
    BY <1>4, <1>t, <2>1, SentNames, Moves
    DEF RecoverFails, FillGivesUp, SettleUnknown, SettleEmpty, SettlePartial,
        FlattenUnconfirmed, ResolveEntry, venue
  <2> QED
    BY <2>1, <2>2, IntentMoves, SentNames DEF Live
<1>5. CASE RecoverAdopts(w)
  <2> DEFINE u == IntentStatusFor(order[k], filled[k])
  <2>1. CASE intent' = [intent EXCEPT ![k] = u] /\ (intent[k] = u \/ CanTransition(intent[k], u))
    <3>1. intent[k] \in PastSubmit /\ k \in Key /\ UNCHANGED filled
      BY <1>5, <1>t DEF RecoverAdopts, EntryInv, CoroutineBehindIntent, venue
    <3>2. intent[k] = u \/ (intent[k] \in Live /\ u \in PastSubmit)
      BY <2>1, <3>1, TransitionsLeaveSubmit, SentNames DEF Live
    <3> HIDE DEF u
    <3> QED
      BY <2>1, <3>1, <3>2, IntentMoves
  <2>2. CASE UNCHANGED intent
    BY <1>5, <1>1, <2>2 DEF RecoverAdopts, venue
  <2> QED
    BY <1>5, <2>1, <2>2 DEF RecoverAdopts
<1>6. CASE FlattenConfirmed(w)
  <2>1. intent[k] \in PastSubmit /\ k \in Key /\ UNCHANGED filled
    BY <1>6, <1>t DEF FlattenConfirmed, EntryInv, CoroutineBehindIntent, Owning
  <2>2. CASE CanTransition(intent[k], Filled)
    <3>1. intent[k] \in Live /\ intent' = [intent EXCEPT ![k] = Filled]
      BY <1>6, <2>1, <2>2, TransitionsLeaveSubmit, SentNames DEF FlattenConfirmed, Live
    <3> QED
      BY <2>1, <3>1, IntentMoves, SentNames
  <2>3. CASE ~CanTransition(intent[k], Filled)
    BY <1>6, <1>1, <2>1, <2>3 DEF FlattenConfirmed
  <2> QED
    BY <2>2, <2>3
<1>7. CASE \/ \E j \in Key : Approve(w, j)
           \/ Refuse(w) \/ CheckSymbol(w) \/ CommitRetry(w) \/ EntryInFlight(w)
           \/ ResumeUnknown(w) \/ Transmit(w) \/ FillSeen(w) \/ CancelEntry(w)
           \/ StopRests(w) \/ StopSwitchedOff(w) \/ StopFails(w) \/ BookPosition(w)
           \/ FinishEntry(w)
  <2>1. UNCHANGED <<intent, filled>>
    BY <1>7
    DEF Approve, Refuse, CheckSymbol, CommitRetry, EntryInFlight, ResumeUnknown, Transmit,
        FillSeen, CancelEntry, StopRests, StopSwitchedOff, StopFails, BookPosition,
        FinishEntry, desk, venue
  <2> QED
    BY <2>1, <1>1
<1> QED
  BY <1>2, <1>3, <1>4, <1>5, <1>6, <1>7 DEF Decide

(* Two steps of the pass touch an intent; the others stutter.                *)
LEMMA ReconcileRefines ==
  ASSUME EntryInv, EntryInv', Reconcile
  PROVE  [Attempt!Next]_<<phaseBar, filled>>
<1>1. ASSUME NEW k \in Key, RetireUnsent(k) PROVE [Attempt!Next]_<<phaseBar, filled>>
  <2> DEFINE t == TransitionFrom(intent[k], Created, Rejected)
  <2>1. /\ intent' = [intent EXCEPT ![k] = t] /\ UNCHANGED filled
        /\ t = intent[k] \/ (intent[k] = Created /\ t = Rejected)
    BY <1>1 DEF RetireUnsent, TransitionFrom, venue
  <2> HIDE DEF t
  <2> QED
    BY <2>1, IntentMoves
<1>2. CASE SettleIntent
  <2> DEFINE t == SettledStatus(intent[at])
             u == IntentStatusFor(found.st, found.qty)
  <2>1. /\ at \in Key /\ at # NoKey /\ rpc = "intents"
        /\ intent' = [intent EXCEPT ![at] = t] /\ UNCHANGED filled
    BY <1>2 DEF SettleIntent, venue, EntryInv, TypeOK
  <2>2. Sent(at) /\ found \in [st : VenueStatus \union {"none"}, qty : Nat]
    BY <2>1 DEF EntryInv, AnswerIsPast, TypeOK
  <2>3. snap[at] \in Unresolved \union {"none"}
    BY <2>1 DEF EntryInv, TypeOK
  <2>4. found.st # "none" => u \in PastSubmit
    BY <2>2, AnswerRead
  <2>5. t = intent[at] \/ (intent[at] \in Live /\ t \in PastSubmit)
    <3>1. CASE found.st = "none"
      <4>1. t = intent[at] \/ (t = Unknown /\ intent[at] = snap[at])
        BY <3>1 DEF SettledStatus, TransitionFrom
      <4> QED
        BY <4>1, <2>2, <2>3, SentNames DEF Live, Sent
    <3>2. CASE found.st # "none"
      <4>1. t = intent[at] \/ (intent[at] \in Unresolved /\ t \in {u, Unknown})
        BY <3>2 DEF SettledStatus
      <4> HIDE DEF t, u
      <4> QED
        BY <4>1, <3>2, <2>2, <2>4, SentNames DEF Live, Sent
    <3> QED
      BY <3>1, <3>2
  <2> HIDE DEF t, u
  <2> QED
    BY <2>1, <2>5, IntentMoves
<1>3. ASSUME NEW k \in Key, SkipActive(k) \/ LocateIntent(k)
      PROVE  [Attempt!Next]_<<phaseBar, filled>>
  BY <1>3, Stutters DEF SkipActive, LocateIntent, desk, venue
<1>4. CASE \/ StartPass \/ IntentsDone \/ ReadPositions \/ PassFails \/ FindRecovery
           \/ RecoverPosition \/ CheckPositions \/ BlockOrphans \/ ProtectPosition
           \/ ReleaseStale \/ ListStrays \/ EndPass
  <2>1. UNCHANGED <<intent, filled>>
    BY <1>4
    DEF StartPass, IntentsDone, ReadPositions, PassFails, FindRecovery, RecoverPosition,
        CheckPositions, BlockOrphans, ProtectPosition, ReleaseStale, ListStrays, EndPass,
        desk, venue
  <2> QED
    BY <2>1, Stutters
<1> QED
  BY <1>1, <1>2, <1>3, <1>4 DEF Reconcile

(* Every step of the system is a step of the attempts, or a stutter.         *)
LEMMA NextRefines ==
  ASSUME EntryInv, EntryInv', [Next]_vars
  PROVE  [Attempt!Next]_<<phaseBar, filled>>
<1>1. ASSUME NEW w \in Worker, Decide(w) PROVE [Attempt!Next]_<<phaseBar, filled>>
  BY <1>1, DecideRefines
<1>2. CASE Reconcile
  BY <1>2, ReconcileRefines
<1>3. ASSUME NEW k \in Key, Fill(k) PROVE [Attempt!Next]_<<phaseBar, filled>>
  BY <1>3, FillBuys
<1>4. ASSUME NEW k \in Key, Arrive(k) \/ Vanish(k) \/ VenueExpires(k)
      PROVE  [Attempt!Next]_<<phaseBar, filled>>
  BY <1>4, Stutters DEF Arrive, Vanish, VenueExpires, desk
<1>5. ASSUME NEW c \in Card, Skip(c) \/ Lapse(c) PROVE [Attempt!Next]_<<phaseBar, filled>>
  BY <1>5, Stutters DEF Skip, Lapse, venue
<1>6. CASE StopTriggers \/ ListPositions \/ Crash \/ UNCHANGED vars
  BY <1>6, Stutters DEF StopTriggers, ListPositions, Crash, vars, desk, venue
<1> QED
  BY <1>1, <1>2, <1>3, <1>4, <1>5, <1>6 DEF Next, Venue

(* No intent and no share: the initial states agree.                         *)
LEMMA InitRefines == Init => Attempt!Init
<1> SUFFICES ASSUME Init PROVE Attempt!Init
  OBVIOUS
<1>1. \A k \in Key : AttemptPhase(intent[k]) = "none"
  BY PhaseOf DEF Init
<1>2. filled = [k \in Key |-> 0] /\ Attempt!Key = Key
  BY DEF Init, Attempt!Key, Key
<1> HIDE DEF AttemptPhase
<1> QED
  BY <1>1, <1>2 DEF Attempt!Init, phaseBar

(* The desk buys as EntryAttempt promises, for any number of cards,          *)
(* approvals, coroutines, shares and restarts.                               *)
THEOREM DeskImplementsAttempt == Spec => ImplementsAttempt
<1>1. Init => Attempt!Init
  BY InitRefines
<1>2. EntryInv /\ EntryInv' /\ [Next]_vars => [Attempt!Next]_<<phaseBar, filled>>
  BY NextRefines
<1> QED
  BY <1>1, <1>2, EntryInvariant, PTL DEF Spec, ImplementsAttempt, Attempt!Spec, phaseBar
-----------------------------------------------------------------------------
(* What follows for the symbol.                                              *)

(* Only the commit of an approval creates an intent.                         *)
LEMMA OnlyACommitCreates ==
  ASSUME EntryInv, [Next]_vars, NEW k \in Key, intent[k] = "none", intent'[k] # "none"
  PROVE  \E w \in Worker : CommitNew(w) /\ k = job[w]
<1>t. TypeOK
  BY DEF EntryInv
<1>1. ASSUME NEW j, intent[j] # "none", NEW t, intent' = [intent EXCEPT ![j] = t] PROVE FALSE
  BY <1>1, <1>t DEF TypeOK
<1>2. intent' # intent
  OBVIOUS
<1>3. ASSUME NEW w \in Worker, Decide(w), ~CommitNew(w) PROVE FALSE
  <2> DEFINE j == job[w]
  <2>1. pc[w] \in {"checking", "sending", "locating"} \union Settling \union Owning => intent[j] # "none"
    BY SentNames DEF EntryInv, CoroutineBehindIntent, Sending
  <2>2. CASE SubmitClaim(w) \/ RecoverFails(w) \/ SubmissionBlocked(w) \/ ReplyRecord(w) \/ ReplyRejection(w)
               \/ ReplyLost(w)
    BY <1>1, <2>1, <2>2 DEF SubmitClaim, RecoverFails, SubmissionBlocked, ReplyRecord, ReplyRejection, ReplyLost, Created
  <2>3. CASE FillGivesUp(w) \/ SettleUnknown(w) \/ SettleEmpty(w) \/ SettlePartial(w) \/ FlattenUnconfirmed(w)
               \/ ResolveEntry(w)
    BY <1>1, <2>1, <2>3
    DEF FillGivesUp, SettleUnknown, SettleEmpty, SettlePartial, FlattenUnconfirmed, ResolveEntry, Settling, Owning
  <2>4. CASE RecoverAdopts(w) \/ FlattenConfirmed(w)
    BY <1>1, <1>2, <2>1, <2>4 DEF RecoverAdopts, FlattenConfirmed, Owning
  <2>5. CASE \/ \E i \in Key : Approve(w, i)
             \/ Refuse(w) \/ CheckSymbol(w) \/ CommitRetry(w) \/ EntryInFlight(w)
             \/ ResumeUnknown(w) \/ Transmit(w) \/ FillSeen(w) \/ CancelEntry(w)
             \/ StopRests(w) \/ StopSwitchedOff(w) \/ StopFails(w) \/ BookPosition(w)
             \/ FinishEntry(w)
    BY <1>2, <2>5
    DEF Approve, Refuse, CheckSymbol, CommitRetry, EntryInFlight, ResumeUnknown, Transmit,
        FillSeen, CancelEntry, StopRests, StopSwitchedOff, StopFails, BookPosition,
        FinishEntry, desk
  <2> QED BY <1>3, <2>2, <2>3, <2>4, <2>5 DEF Decide
<1>4. ASSUME NEW w \in Worker, CommitNew(w) PROVE k = job[w]
  BY <1>4, <1>t DEF CommitNew, TypeOK
<1>5. ~Reconcile
  <2>1. ASSUME NEW j \in Key, RetireUnsent(j) PROVE FALSE
    <3>1. CASE intent[j] = "none"
      BY <1>2, <1>t, <2>1, <3>1 DEF RetireUnsent, TransitionFrom, TypeOK, Created
    <3>2. CASE intent[j] # "none"
      BY <1>1, <2>1, <3>2 DEF RetireUnsent
    <3> QED BY <3>1, <3>2
  <2>2. ~SettleIntent
    <3>1. at # NoKey /\ rpc = "intents" => intent[at] # "none"
      BY SentNames DEF EntryInv, AnswerIsPast, Sent
    <3> QED BY <1>1, <3>1 DEF SettleIntent
  <2>3. ASSUME \/ \E j \in Key : SkipActive(j) \/ LocateIntent(j)
               \/ StartPass \/ IntentsDone \/ ReadPositions \/ PassFails \/ FindRecovery
        PROVE  FALSE
    BY <1>2, <2>3 DEF SkipActive, LocateIntent, StartPass, IntentsDone, ReadPositions, PassFails, FindRecovery, desk
  <2>4. ASSUME \/ RecoverPosition \/ CheckPositions \/ BlockOrphans \/ ProtectPosition
               \/ ReleaseStale \/ ListStrays \/ EndPass
        PROVE  FALSE
    BY <1>2, <2>4 DEF RecoverPosition, CheckPositions, BlockOrphans, ProtectPosition, ReleaseStale, ListStrays, EndPass, desk
  <2> QED BY <2>1, <2>2, <2>3, <2>4 DEF Reconcile
<1>6. ASSUME Venue PROVE FALSE
  BY <1>2, <1>6 DEF Venue, Arrive, Vanish, Fill, VenueExpires, StopTriggers, desk
<1>7. ASSUME (\E c \in Card : Skip(c) \/ Lapse(c)) \/ ListPositions \/ Crash \/ UNCHANGED vars
      PROVE  FALSE
  BY <1>2, <1>7 DEF Skip, Lapse, ListPositions, Crash, vars, desk
<1> QED BY <1>3, <1>4, <1>5, <1>6, <1>7 DEF Next

(* What is over stays over, and only a commit opens what never was.          *)
LEMMA OnlyACommitOpens ==
  ASSUME EntryInv, EntryInv', [Next]_vars, NEW k \in Key, ~IsUnresolved(k), IsUnresolved(k)'
  PROVE  \E w \in Worker : CommitNew(w) /\ k = job[w]
<1>1. intent[k] \in Terminal \union {"none"} /\ intent'[k] \in Unresolved
  BY SentNames DEF IsUnresolved, EntryInv, TypeOK
<1>2. intent[k] \notin Terminal
  <2> SUFFICES ASSUME intent[k] \in Terminal PROVE FALSE
    OBVIOUS
  <2>1. phaseBar[k] \in {"bought", "dead"} /\ phaseBar'[k] \in {"prepared", "live"}
    BY <1>1, PhaseOf, SentNames DEF phaseBar, Live
  <2>2. Attempt!Next
    BY <2>1, NextRefines
  <2>3. PICK j \in Key : Attempt!Step(j)
    BY <2>2 DEF Attempt!Next, Attempt!Key, Key
  <2>4. /\ phaseBar' = phaseBar \/ \E v : phaseBar' = [phaseBar EXCEPT ![j] = v]
        /\ phaseBar[j] \in {"bought", "dead"} => phaseBar' = phaseBar
    <3>1. phaseBar[j] = "none" \/ phaseBar[j] \in {"prepared", "live"}
      <4>1. Attempt!Prepare(j) => phaseBar[<<j[1], j[2]>>] = "none"
        BY DEF Attempt!Prepare, phaseBar, Key
      <4>2. j = <<j[1], j[2]>>
        BY DEF Key
      <4> QED BY <2>3, <4>1, <4>2 DEF Attempt!Step, Attempt!Send, Attempt!Abandon, Attempt!Buy, Attempt!GiveUp,
                                      Attempt!Own, phaseBar
    <3>2. phaseBar' = phaseBar \/ \E v : phaseBar' = [phaseBar EXCEPT ![j] = v]
      BY <2>3 DEF Attempt!Step, Attempt!Prepare, Attempt!Send, Attempt!Abandon, Attempt!Buy, Attempt!GiveUp,
                  Attempt!Own, phaseBar
    <3> QED BY <3>1, <3>2
  <2>5. k # j => phaseBar'[k] = phaseBar[k]
    BY <2>4 DEF phaseBar
  <2> QED BY <2>1, <2>4, <2>5
<1> QED BY <1>1, <1>2, OnlyACommitCreates, SentNames

(* Whoever is past the check still sees the symbol clear, or is late.        *)
Cleared == \A w \in Worker : pc[w] \in ClearedPc => Clear(job[w][1]) \/ w \in late

(* Only a commit opens another card, and a commit makes late whoever is past *)
(* the check by then.                                                        *)
LEMMA ClearStays ==
  ASSUME EntryInv, EntryInv', [Next]_vars, Record, NEW w \in Worker, pc[w] \in ClearedPc,
         pc'[w] \in ClearedPc, job'[w] = job[w], Clear(job[w][1])
  PROVE  Clear(job[w][1])' \/ w \in late'
<1> SUFFICES ASSUME NEW k \in Key, k[1] # job[w][1], IsUnresolved(k)' PROVE w \in late'
  BY DEF Clear
<1>1. ~IsUnresolved(k)
  BY DEF Clear
<1>2. PICK v \in Worker : CommitNew(v) /\ k = job[v]
  BY <1>1, OnlyACommitOpens
<1>3. intent[k] = "none"
  <2>1. k = <<k[1], k[2]>> /\ k[2] \in Request
    BY DEF Key
  <2> QED BY <1>2, <2>1 DEF CommitNew, CommitCreates, HasIntent
<1>4. intent'[k] # "none"
  BY SentNames DEF IsUnresolved
<1> QED BY <1>3, <1>4 DEF Record, OtherCommits

(* Who is past the check came to it, and keeps its card.                     *)
LEMMA ClearedWho ==
  ASSUME EntryInv, [Next]_vars, NEW w \in Worker, pc'[w] \in ClearedPc
  PROVE  job'[w] = job[w] /\ (pc[w] \in ClearedPc \/ CheckSymbol(w))
<1>t. pc \in [Worker -> TaskPc] /\ job \in [Worker -> Key \union {NoKey}]
  BY DEF EntryInv, TypeOK
<1> USE <1>t DEF ClearedPc
<1>1. ASSUME NEW v \in Worker, Decide(v), v # w PROVE UNCHANGED <<pc[w], job[w]>>
  <2>1. CASE Refuse(v) \/ CheckSymbol(v) \/ CommitNew(v) \/ CommitRetry(v) \/ SubmitClaim(v)
               \/ EntryInFlight(v) \/ ResumeUnknown(v) \/ RecoverFails(v) \/ RecoverAdopts(v)
    BY <1>1, <2>1 DEF Refuse, CheckSymbol, CommitNew, CommitRetry, SubmitClaim, EntryInFlight, ResumeUnknown,
                      RecoverFails, RecoverAdopts, Goto, Leave
  <2>2. CASE SubmissionBlocked(v) \/ Transmit(v) \/ ReplyRecord(v) \/ ReplyRejection(v) \/ ReplyLost(v)
               \/ FillSeen(v) \/ FillGivesUp(v) \/ CancelEntry(v) \/ SettleUnknown(v) \/ SettleEmpty(v)
    BY <1>1, <2>2 DEF SubmissionBlocked, Transmit, ReplyRecord, ReplyRejection, ReplyLost, FillSeen, FillGivesUp,
                      CancelEntry, SettleUnknown, SettleEmpty, Goto, Leave
  <2>3. CASE SettlePartial(v) \/ StopRests(v) \/ StopSwitchedOff(v) \/ StopFails(v) \/ FlattenConfirmed(v)
               \/ FlattenUnconfirmed(v) \/ BookPosition(v) \/ ResolveEntry(v) \/ FinishEntry(v)
    BY <1>1, <2>3 DEF SettlePartial, StopRests, StopSwitchedOff, StopFails, FlattenConfirmed, FlattenUnconfirmed,
                      BookPosition, ResolveEntry, FinishEntry, Goto, Leave
  <2>4. ASSUME NEW k \in Key, Approve(v, k) PROVE UNCHANGED <<pc[w], job[w]>>
    BY <1>1, <2>4 DEF Approve, Goto
  <2> QED BY <1>1, <2>1, <2>2, <2>3, <2>4 DEF Decide
<1>2. ASSUME Decide(w) PROVE job'[w] = job[w] /\ (pc[w] \in ClearedPc \/ CheckSymbol(w))
  <2>1. CASE CheckSymbol(w) \/ CommitNew(w) \/ CommitRetry(w) \/ SubmitClaim(w) \/ ResumeUnknown(w)
    BY <2>1 DEF CheckSymbol, CommitNew, CommitRetry, SubmitClaim, ResumeUnknown, Goto
  <2>2. ~CheckSymbol(w) /\ ~CommitNew(w) /\ ~CommitRetry(w) /\ ~SubmitClaim(w) /\ ~ResumeUnknown(w) => pc'[w] \notin ClearedPc
    <3>1. ASSUME (\E k \in Key : Approve(w, k)) \/ Refuse(w) \/ EntryInFlight(w) \/ RecoverFails(w) \/ RecoverAdopts(w)
                 \/ SubmissionBlocked(w) \/ Transmit(w) \/ ReplyRecord(w) \/ ReplyRejection(w) \/ ReplyLost(w)
          PROVE  pc'[w] \notin ClearedPc
      BY <3>1 DEF Approve, Refuse, EntryInFlight, RecoverFails, RecoverAdopts, SubmissionBlocked, Transmit, ReplyRecord,
                  ReplyRejection, ReplyLost, Goto, Leave
    <3>2. ASSUME FillSeen(w) \/ FillGivesUp(w) \/ CancelEntry(w) \/ SettleUnknown(w) \/ SettleEmpty(w)
                 \/ SettlePartial(w) \/ StopRests(w) \/ StopSwitchedOff(w) \/ StopFails(w)
          PROVE  pc'[w] \notin ClearedPc
      BY <3>2 DEF FillSeen, FillGivesUp, CancelEntry, SettleUnknown, SettleEmpty, SettlePartial, StopRests,
                  StopSwitchedOff, StopFails, Goto, Leave
    <3>3. ASSUME FlattenConfirmed(w) \/ FlattenUnconfirmed(w) \/ BookPosition(w) \/ ResolveEntry(w) \/ FinishEntry(w)
          PROVE  pc'[w] \notin ClearedPc
      BY <3>3 DEF FlattenConfirmed, FlattenUnconfirmed, BookPosition, ResolveEntry, FinishEntry, Goto, Leave
    <3> QED BY <1>2, <3>1, <3>2, <3>3 DEF Decide
  <2> QED BY <2>1, <2>2
<1>3. CASE (\E c \in Card : Skip(c) \/ Lapse(c)) \/ Venue \/ ListPositions \/ UNCHANGED vars
  BY <1>3 DEF Skip, Lapse, Venue, Arrive, Vanish, Fill, VenueExpires, StopTriggers, ListPositions, vars, task
<1>4. CASE Reconcile
  BY <1>4 DEF Reconcile, StartPass, SkipActive, RetireUnsent, LocateIntent, SettleIntent, IntentsDone, ReadPositions,
              PassFails, FindRecovery, RecoverPosition, CheckPositions, BlockOrphans, ProtectPosition, ReleaseStale,
              ListStrays, EndPass, task
<1>5. CASE Crash
  BY <1>5 DEF Crash
<1> QED BY <1>1, <1>2, <1>3, <1>4, <1>5 DEF Next

(* A step keeps what was cleared.                                            *)
LEMMA ClearedKeeps ==
  ASSUME EntryInv, EntryInv', Cleared, [RaceNext]_raceVars
  PROVE  Cleared'
<1>1. CASE UNCHANGED raceVars
  BY <1>1 DEF raceVars, vars, task, desk, Cleared, Clear, IsUnresolved
<1>2. CASE RaceNext
  <2> SUFFICES ASSUME NEW w \in Worker, pc'[w] \in ClearedPc PROVE Clear(job[w][1])' \/ w \in late'
    BY DEF Cleared
  <2>1. Next /\ Record
    BY <1>2 DEF RaceNext
  <2>2. job'[w] = job[w] /\ (pc[w] \in ClearedPc \/ CheckSymbol(w))
    BY <2>1, ClearedWho
  <2>3. CASE w \in late
    BY <2>1, <2>3 DEF Record
  <2>4. CASE pc[w] \in ClearedPc /\ w \notin late
    BY <2>1, <2>2, <2>4, ClearStays DEF Cleared
  <2>5. CASE pc[w] \notin ClearedPc
    <3>1. CheckSymbol(w)
      BY <2>2, <2>5
    <3>2. UNCHANGED intent /\ Clear(job[w][1])
      BY <3>1 DEF CheckSymbol, desk, SymbolFree, Clear
    <3> QED BY <2>2, <3>2 DEF Clear, IsUnresolved
  <2> QED BY <2>3, <2>4, <2>5
<1> QED BY <1>1, <1>2

(* An order on its way or working belongs to an unresolved intent.           *)
LEMMA AtTheVenue ==
  ASSUME EntryInv, NEW k \in Key, k \in wire \/ Working(k)
  PROVE  IsUnresolved(k)
<1>1. Sent(k) /\ intent[k] \notin Terminal
  BY VenueNames DEF EntryInv, VenueBehindIntent, Working
<1> QED BY <1>1, SentNames DEF Sent, IsUnresolved

(* A second entry of the symbol is refused before transmission              *)
(* (_symbol_blockers) for any number of cards, coroutines, shares and        *)
(* restarts, whatever the pass does meanwhile: an entry goes out beside an   *)
(* order of another card only if that card was committed between the check   *)
(* and the transmission. The code checks once, and that race is left open.   *)
THEOREM SecondEntryNeedsARace == RaceSpec => OnlyARaceSendsASecond
<1>1. RaceInit => Cleared
  BY DEF RaceInit, Init, Cleared, ClearedPc
<1>2. EntryInv /\ EntryInv' /\ Cleared /\ [RaceNext]_raceVars => Cleared'
  BY ClearedKeeps
<1>3. ASSUME EntryInv, Cleared, NEW w \in Worker, Transmit(w), w \notin late, NEW k \in Key, k[1] # job[w][1]
      PROVE  k \notin wire /\ ~Working(k)
  <2>1. Clear(job[w][1])
    BY <1>3 DEF Cleared, Transmit, ClearedPc
  <2> QED BY <1>3, <2>1, AtTheVenue DEF Clear
<1>4. RaceSpec => Spec
  <2>1. RaceInit => Init
    BY DEF RaceInit
  <2>2. [RaceNext]_raceVars => [Next]_vars
    BY DEF RaceNext, raceVars
  <2> QED BY <2>1, <2>2, PTL DEF RaceSpec, Spec
<1>5. EntryInv /\ Cleared /\ [RaceNext]_raceVars
        => [\A w \in Worker : Transmit(w) /\ w \notin late =>
              \A k \in Key : k[1] # job[w][1] => k \notin wire /\ ~Working(k)]_raceVars
  BY <1>3
<1> QED BY <1>1, <1>2, <1>4, <1>5, EntryInvariant, PTL DEF RaceSpec, OnlyARaceSendsASecond
=============================================================================
