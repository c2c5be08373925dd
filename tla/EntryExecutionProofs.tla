------------------------ MODULE EntryExecutionProofs ------------------------
(***************************************************************************)
(* Proofs about EntryExecution for any number of cards, requests,           *)
(* coroutines, shares and restarts.                                         *)
(***************************************************************************)
EXTENDS EntryInvariants, TLAPS

-----------------------------------------------------------------------------
(* The lifecycle operators.                                                  *)

(* An intent that may have been sent never becomes one that may be sent, and *)
(* a terminal one never moves.                                               *)
LEMMA TransitionsLeaveSubmit ==
  ASSUME NEW s \in PastSubmit \union {Submitting}, NEW t, CanTransition(s, t)
  PROVE  t \in PastSubmit /\ s \notin Terminal
  BY DEF CanTransition, AllowedTransitions, PastSubmit, IntentStatus, Unresolved, Terminal,
         Created, Submitting, Submitted, Acknowledged, PartiallyFilled, CancelPending,
         Unknown, Filled, Canceled, Rejected, Expired

(* How the venue's answer is read.                                           *)
LEMMA AnswerRead ==
  ASSUME NEW st \in VenueStatus, NEW q \in Nat
  PROVE  /\ IntentStatusFor(st, q) \in PastSubmit
         /\ IntentStatusFor(st, q) \in Terminal => st \in VenueDone
         /\ IntentStatusFor(st, q) = Filled => st = "filled"
         /\ IntentStatusFor(st, q) \in {Rejected, Canceled, Expired} => q = 0 \/ st = "rejected"
<1>1. CASE st \in {"submitted", "accepted", "partial"}
  BY <1>1 DEF IntentStatusFor, VenueDone, PastSubmit, IntentStatus, Unresolved, Terminal,
         Created, Submitting, Submitted, Acknowledged, PartiallyFilled, CancelPending,
         Unknown, Filled, Canceled, Rejected, Expired
<1>2. CASE st \in {"filled", "rejected"}
  BY <1>2 DEF IntentStatusFor, VenueDone, PastSubmit, IntentStatus, Unresolved, Terminal,
         Created, Submitting, Submitted, Acknowledged, PartiallyFilled, CancelPending,
         Unknown, Filled, Canceled, Rejected, Expired
<1>3. CASE st \in {"canceled", "expired"} /\ q > 0
  BY <1>3 DEF IntentStatusFor, VenueDone, PastSubmit, IntentStatus, Unresolved, Terminal,
         Created, Submitting, Submitted, Acknowledged, PartiallyFilled, CancelPending,
         Unknown, Filled, Canceled, Rejected, Expired
<1>4. CASE st \in {"canceled", "expired"} /\ q = 0
  BY <1>4 DEF IntentStatusFor, VenueDone, PastSubmit, IntentStatus, Unresolved, Terminal,
         Created, Submitting, Submitted, Acknowledged, PartiallyFilled, CancelPending,
         Unknown, Filled, Canceled, Rejected, Expired
<1>5. q = 0 \/ q > 0
  OBVIOUS
<1>6. QED
  BY <1>1, <1>2, <1>3, <1>4, <1>5 DEF VenueStatus, VenueWorking, VenueDone

(* Each way of moving an intent leaves it or puts it where it says.          *)
LEMMA MovesOrStays ==
  /\ \A s : MarkUnknown(s) \in {s, Unknown}
  /\ \A s, e, t : TransitionFrom(s, e, t) \in {s, t}
  /\ \A s, t : SafeTransition(s, t) \in {s, t}
  BY DEF MarkUnknown, TransitionFrom, SafeTransition

-----------------------------------------------------------------------------
(* Type correctness.                                                         *)

(* The status names are distinct and classified as order_intent.py does.     *)
LEMMA StatusNames ==
  /\ {Created, Submitting, Submitted, Acknowledged, PartiallyFilled, CancelPending, Unknown,
      Filled, Canceled, Rejected, Expired} \subseteq IntentStatus
  /\ "none" \notin IntentStatus
  /\ Unresolved \subseteq IntentStatus
  /\ Terminal \subseteq IntentStatus
  /\ Unknown \in Unresolved /\ Created \in Unresolved
  /\ Created # Unknown /\ Created # Submitting
  BY DEF IntentStatus, Unresolved, Terminal, Created, Submitting, Submitted, Acknowledged,
         PartiallyFilled, CancelPending, Unknown, Filled, Canceled, Rejected, Expired

(* The empty desk is well typed.                                            *)
LEMMA TypeInit == Init => TypeOK
<1> SUFFICES ASSUME Init PROVE TypeOK
  OBVIOUS
<1> USE DEF Init
<1>1. /\ card \in [Card -> CardStatus]
      /\ intent \in [Key -> IntentStatus \union {"none"}]
      /\ order \in [Key -> VenueStatus \union {"none"}]
      /\ filled \in [Key -> Nat]
      /\ row \in [Key -> RowStatus]
  BY DEF CardStatus, RowStatus
<1>2. /\ pc \in [Worker -> TaskPc]
      /\ job \in [Worker -> Key \union {NoKey}]
      /\ \A w \in Worker : pc[w] # "idle" => job[w] \in Key
      /\ seen \in [Worker -> Unresolved \union {"none"}]
  BY DEF TaskPc
<1>3. /\ rpc \in PassPc
      /\ snap \in [Key -> Unresolved \union {"none"}]
      /\ at \in Key \union {NoKey}
      /\ rpc = "confirm" => at \in Key
      /\ found \in [st : VenueStatus \union {"none"}, qty : Nat]
  BY DEF PassPc, NoOrder
<1>4. /\ wire \in SUBSET Key /\ sweep \in SUBSET Key
      /\ held \in Nat /\ stop \in Nat /\ rowQty \in Nat /\ rpos \in Nat /\ crashes \in Nat
      /\ incident \in BOOLEAN /\ fresh \in BOOLEAN
  OBVIOUS
<1> HIDE DEF Init
<1> QED
  BY <1>1, <1>2, <1>3, <1>4 DEF TypeOK

(* Every step of decide keeps the types: the venue's answers it stores are   *)
(* statuses of the lifecycle, and the share arithmetic stays in Nat.         *)
LEMMA TypeDecide ==
  ASSUME TypeOK, NEW w \in Worker, Decide(w)
  PROVE  TypeOK'
<1> USE DEF TypeOK, Goto, Leave, desk, venue, task, pass
<1>0. CASE \E k \in Key : Approve(w, k)
  BY <1>0 DEF Approve, TaskPc
<1>1. CASE Refuse(w)
  BY <1>1, StatusNames, MovesOrStays DEF Refuse, TaskPc, CardStatus, Key
<1>2. CASE CheckSymbol(w)
  BY <1>2, StatusNames, MovesOrStays DEF CheckSymbol, TaskPc, CardStatus, Key
<1>3. CASE CommitNew(w)
  BY <1>3, StatusNames, MovesOrStays DEF CommitNew, TaskPc, CardStatus, Key
<1>4. CASE CommitRetry(w)
  BY <1>4, StatusNames, MovesOrStays DEF CommitRetry, CommitReuses, IsUnresolved, TaskPc, CardStatus, Key
<1>5. CASE SubmitClaim(w)
  BY <1>5, StatusNames, MovesOrStays DEF SubmitClaim, TaskPc, CardStatus, Key
<1>6. CASE EntryInFlight(w)
  BY <1>6, StatusNames, MovesOrStays DEF EntryInFlight, TaskPc, CardStatus, Key
<1>7. CASE ResumeUnknown(w)
  BY <1>7, StatusNames, MovesOrStays DEF ResumeUnknown, TaskPc, CardStatus, Key
<1>8. CASE RecoverFails(w)
  BY <1>8, StatusNames, MovesOrStays DEF RecoverFails, TaskPc, CardStatus, Key
<1>9. CASE RecoverAdopts(w)
  <2> DEFINE k == job[w]
             t == IntentStatusFor(order[k], filled[k])
  <2>1. k \in Key /\ order[k] \in VenueStatus /\ filled[k] \in Nat
    BY <1>9 DEF RecoverAdopts
  <2>2. t \in IntentStatus
    BY <2>1, AnswerRead DEF PastSubmit
  <2>3. CASE intent[k] = t \/ CanTransition(intent[k], t)
    <3>1. /\ intent' = [intent EXCEPT ![k] = t]
          /\ card' = [card EXCEPT ![k[1]] = "approving"]
          /\ pc' = [pc EXCEPT ![w] = "waiting"]
          /\ UNCHANGED <<job, seen, row, rowQty, incident, venue, pass, crashes>>
      BY <1>9, <2>3 DEF RecoverAdopts
    <3> HIDE DEF t
    <3>2. intent' \in [Key -> IntentStatus \union {"none"}]
      BY <2>2, <3>1
    <3>3. card' \in [Card -> CardStatus]
      BY <3>1 DEF CardStatus
    <3> QED
      BY <3>1, <3>2, <3>3 DEF TaskPc
  <2>4. CASE ~(intent[k] = t \/ CanTransition(intent[k], t))
    BY <1>9, <2>4 DEF RecoverAdopts, TaskPc
  <2> QED
    BY <2>3, <2>4
<1>10. CASE SubmissionBlocked(w)
  BY <1>10, StatusNames, MovesOrStays DEF SubmissionBlocked, TaskPc, CardStatus, Key
<1>11. CASE Transmit(w)
  BY <1>11, StatusNames, MovesOrStays DEF Transmit, TaskPc, CardStatus, Key
<1>12. CASE ReplyRecord(w)
  BY <1>12, StatusNames, MovesOrStays DEF ReplyRecord, TaskPc, CardStatus, Key
<1>13. CASE ReplyRejection(w)
  BY <1>13, StatusNames, MovesOrStays DEF ReplyRejection, TaskPc, CardStatus, Key
<1>14. CASE ReplyLost(w)
  BY <1>14, StatusNames, MovesOrStays DEF ReplyLost, TaskPc, CardStatus, Key
<1>15. CASE FillSeen(w)
  BY <1>15, StatusNames, MovesOrStays DEF FillSeen, TaskPc, CardStatus, Key
<1>16. CASE FillGivesUp(w)
  BY <1>16, StatusNames, MovesOrStays DEF FillGivesUp, TaskPc, CardStatus, Key
<1>17. CASE CancelEntry(w)
  BY <1>17, StatusNames, MovesOrStays DEF CancelEntry, VenueStatus, VenueDone, TaskPc, CardStatus, Key
<1>18. CASE SettleUnknown(w)
  BY <1>18, StatusNames, MovesOrStays DEF SettleUnknown, TaskPc, CardStatus, Key
<1>19. CASE SettleEmpty(w)
  BY <1>19, StatusNames, MovesOrStays DEF SettleEmpty, TaskPc, CardStatus, Key
<1>20. CASE SettlePartial(w)
  BY <1>20, StatusNames, MovesOrStays DEF SettlePartial, TaskPc, CardStatus, Key
<1>21. CASE StopRests(w)
  BY <1>21, StatusNames, MovesOrStays DEF StopRests, TaskPc, CardStatus, Key
<1>22. CASE StopSwitchedOff(w)
  BY <1>22, StatusNames, MovesOrStays, SMTT(30) DEF StopSwitchedOff, TaskPc, CardStatus, Key
<1>23. CASE StopFails(w)
  BY <1>23, StatusNames, MovesOrStays DEF StopFails, TaskPc, CardStatus, Key
<1>24. CASE FlattenConfirmed(w)
  <2>1. held' \in Nat /\ stop' \in Nat
    BY <1>24 DEF FlattenConfirmed
  <2>2. card' \in [Card -> CardStatus] /\ intent' \in [Key -> IntentStatus \union {"none"}]
    BY <1>24, StatusNames, SMTT(30) DEF FlattenConfirmed, CardStatus, Key
  <2> QED
    BY <1>24, <2>1, <2>2 DEF FlattenConfirmed, TaskPc
<1>25. CASE FlattenUnconfirmed(w)
  BY <1>25, StatusNames, MovesOrStays DEF FlattenUnconfirmed, TaskPc, CardStatus, Key
<1>26. CASE BookPosition(w)
  <2>1. CASE OpenRow
    BY <1>26, <2>1 DEF BookPosition, TaskPc
  <2>2. CASE ~OpenRow
    BY <1>26, <2>2 DEF BookPosition, RowStatus, TaskPc
  <2> QED
    BY <2>1, <2>2
<1>27. CASE ResolveEntry(w)
  BY <1>27, StatusNames, MovesOrStays DEF ResolveEntry, TaskPc, CardStatus, Key
<1>28. CASE FinishEntry(w)
  BY <1>28, StatusNames, MovesOrStays DEF FinishEntry, TaskPc, CardStatus, Key
<1> HIDE DEF TypeOK
<1> QED
  BY <1>0, <1>1, <1>2, <1>3, <1>4, <1>5, <1>6, <1>7, <1>8, <1>9, <1>10, <1>11, <1>12, <1>13, <1>14, <1>15, <1>16, <1>17, <1>18, <1>19, <1>20, <1>21, <1>22, <1>23, <1>24, <1>25, <1>26, <1>27, <1>28 DEF Decide

(* So does every step of the venue: a stop never sells more than is held.    *)
LEMMA TypeVenue ==
  ASSUME TypeOK, Venue
  PROVE  TypeOK'
<1> USE DEF TypeOK, desk, task, pass
<1>1. ASSUME NEW k \in Key, Arrive(k) PROVE TypeOK'
  BY <1>1 DEF Arrive, VenueStatus, VenueWorking
<1>2. ASSUME NEW k \in Key, Vanish(k) PROVE TypeOK'
  BY <1>2 DEF Vanish
<1>3. ASSUME NEW k \in Key, Fill(k) PROVE TypeOK'
  BY <1>3 DEF Fill, VenueStatus, VenueWorking, VenueDone
<1>4. ASSUME NEW k \in Key, VenueExpires(k) PROVE TypeOK'
  BY <1>4 DEF VenueExpires, VenueStatus, VenueDone
<1>5. CASE StopTriggers
  BY <1>5 DEF StopTriggers
<1> HIDE DEF TypeOK
<1> QED
  BY <1>1, <1>2, <1>3, <1>4, <1>5 DEF Venue

(* So does every step of the reconciliation pass.                            *)
LEMMA TypeReconcile ==
  ASSUME TypeOK, Reconcile
  PROVE  TypeOK'
<1> USE DEF TypeOK, PassGoto, PassPc, desk, venue, task
<1>1. CASE StartPass
  BY <1>1 DEF StartPass, IsUnresolved
<1>2. ASSUME NEW k \in Key, SkipActive(k) PROVE TypeOK'
  BY <1>2 DEF SkipActive
<1>3. ASSUME NEW k \in Key, RetireUnsent(k) PROVE TypeOK'
  BY <1>3, StatusNames, MovesOrStays DEF RetireUnsent
<1>4. ASSUME NEW k \in Key, LocateIntent(k) PROVE TypeOK'
  BY <1>4 DEF LocateIntent, LocateAnswer, NoOrder
<1>5. CASE SettleIntent
  <2>1. at \in Key
    BY <1>5 DEF SettleIntent
  <2>2. SettledStatus(intent[at]) \in IntentStatus \union {"none"}
    BY <2>1, StatusNames, MovesOrStays, AnswerRead DEF SettledStatus, PastSubmit
  <2>3. intent' \in [Key -> IntentStatus \union {"none"}]
    BY <1>5, <2>1, <2>2 DEF SettleIntent
  <2> QED
    BY <1>5, <2>3 DEF SettleIntent, NoOrder
<1>6. CASE IntentsDone
  BY <1>6 DEF IntentsDone
<1>7. CASE ReadPositions \/ PassFails
  BY <1>7 DEF ReadPositions, PassFails
<1>8. CASE FindRecovery
  <2>1. CASE /\ PassGoto("flat")
             /\ UNCHANGED <<at, found, snap, rpos, sweep, fresh, desk, venue, task, crashes>>
    BY <2>1
  <2>2. ASSUME PassGoto("confirm"), at' \in Key,
               found' = [st |-> order[at'], qty |-> filled[at']],
               UNCHANGED <<snap, rpos, sweep, fresh, desk, venue, task, crashes>>
        PROVE  TypeOK'
    BY <2>2
  <2>3. QED
    BY <1>8, <2>1, <2>2 DEF FindRecovery, Matches
<1>9. CASE RecoverPosition
  BY <1>9 DEF RecoverPosition, NoOrder, RowStatus
<1>10. CASE CheckPositions
  BY <1>10 DEF CheckPositions, RowStatus
<1>11. CASE BlockOrphans
  BY <1>11 DEF BlockOrphans, CardStatus
<1>12. CASE ProtectPosition
  BY <1>12 DEF ProtectPosition, RowStatus
<1>13. CASE ReleaseStale
  BY <1>13 DEF ReleaseStale, CardStatus
<1>14. CASE ListStrays
  <2>1. sweep' \in SUBSET Key
    BY <1>14 DEF ListStrays
  <2> QED
    BY <1>14, <2>1 DEF ListStrays
<1>15. CASE EndPass
  <2>1. order' \in [Key -> VenueStatus \union {"none"}]
    BY <1>15 DEF EndPass, VenueStatus, VenueDone
  <2> QED
    BY <1>15, <2>1 DEF EndPass
<1> HIDE DEF TypeOK
<1> QED
  BY <1>1, <1>2, <1>3, <1>4, <1>5, <1>6, <1>7, <1>8, <1>9, <1>10, <1>11, <1>12, <1>13, <1>14,
     <1>15 DEF Reconcile

(* So does every step of the system, restarts included.                      *)
LEMMA TypeNext == TypeOK /\ [Next]_vars => TypeOK'
<1> SUFFICES ASSUME TypeOK, [Next]_vars PROVE TypeOK'
  OBVIOUS
<1>1. ASSUME NEW w \in Worker, Decide(w) PROVE TypeOK'
  BY <1>1, TypeDecide
<1>2. ASSUME NEW c \in Card, Skip(c) \/ Lapse(c) PROVE TypeOK'
  BY <1>2 DEF Skip, Lapse, TypeOK, CardStatus, venue, task, pass
<1>3. CASE Venue
  BY <1>3, TypeVenue
<1>4. CASE Reconcile
  BY <1>4, TypeReconcile
<1>5. CASE Crash
  <2>1. /\ pc' \in [Worker -> TaskPc]
        /\ job' \in [Worker -> Key \union {NoKey}]
        /\ \A w \in Worker : pc'[w] # "idle" => job'[w] \in Key
        /\ seen' \in [Worker -> Unresolved \union {"none"}]
    BY <1>5 DEF Crash, TaskPc
  <2>2. /\ rpc' \in PassPc
        /\ snap' \in [Key -> Unresolved \union {"none"}]
        /\ at' \in Key \union {NoKey}
        /\ rpc' = "confirm" => at' \in Key
        /\ found' \in [st : VenueStatus \union {"none"}, qty : Nat]
        /\ rpos' \in Nat /\ sweep' \in SUBSET Key /\ fresh' \in BOOLEAN
    BY <1>5 DEF Crash, PassPc, NoOrder, TypeOK
  <2>3. crashes' \in Nat
    BY <1>5 DEF Crash, TypeOK
  <2> QED
    BY <1>5, <2>1, <2>2, <2>3 DEF Crash, TypeOK, desk, venue
<1>6. CASE UNCHANGED vars
  BY <1>6 DEF vars, desk, venue, task, pass, TypeOK
<1>7. CASE ListPositions
  BY <1>7 DEF ListPositions, desk, venue, task, TypeOK
<1> QED
  BY <1>1, <1>2, <1>3, <1>4, <1>5, <1>6, <1>7 DEF Next

(* Every reachable state is well typed.                                      *)
THEOREM TypeCorrect == Spec => []TypeOK
<1>1. Init => TypeOK
  BY TypeInit
<1>2. TypeOK /\ [Next]_vars => TypeOK'
  BY TypeNext
<1> QED
  BY <1>1, <1>2, PTL DEF Spec

-----------------------------------------------------------------------------
(* The inductive invariant.                                                  *)

(* Which statuses can be left for the venue, which are over, which are both. *)
LEMMA SentNames ==
  /\ PastSubmit \subseteq IntentStatus
  /\ Terminal \subseteq PastSubmit
  /\ Terminal = {Filled, Canceled, Rejected, Expired}
  /\ Filled \notin {Canceled, Rejected, Expired}
  /\ {Submitted, Acknowledged, PartiallyFilled, CancelPending, Unknown} \subseteq PastSubmit \ Terminal
  /\ Unresolved = IntentStatus \ Terminal
  /\ IntentStatus = PastSubmit \union {Created, Submitting}
  /\ Created \notin PastSubmit /\ Submitting \notin PastSubmit /\ Created # Submitting
  /\ "none" \notin IntentStatus
  BY DEF PastSubmit, IntentStatus, Unresolved, Terminal, Created, Submitting, Submitted,
         Acknowledged, PartiallyFilled, CancelPending, Unknown, Filled, Canceled, Rejected, Expired

(* An order at the venue is either working or done.                          *)
LEMMA VenueNames ==
  /\ VenueStatus = VenueWorking \union VenueDone
  /\ VenueWorking \cap VenueDone = {}
  /\ {"accepted", "partial"} \subseteq VenueWorking
  /\ {"filled", "canceled", "expired", "rejected"} = VenueDone
  /\ "none" \notin VenueStatus
  BY DEF VenueStatus, VenueWorking, VenueDone

(* Tolerant moves of a sent intent keep it sent and leave a terminal one.    *)
LEMMA Moves ==
  /\ \A s \in PastSubmit : MarkUnknown(s) \in PastSubmit
  /\ \A s \in Terminal : MarkUnknown(s) = s
  /\ \A s : MarkUnknown(s) \in {s, Unknown}
  /\ \A s \in PastSubmit, t \in PastSubmit : SafeTransition(s, t) \in PastSubmit
  /\ \A s, t : SafeTransition(s, t) \in {s, t}
  /\ \A s \in Terminal, t \in PastSubmit : SafeTransition(s, t) = s
<1>1. \A s \in Terminal, t \in PastSubmit : ~CanTransition(s, t)
  BY SentNames, TransitionsLeaveSubmit
<1> QED
  BY <1>1, SentNames DEF MarkUnknown, SafeTransition

(* What decide does, step by step.                                           *)
LEMMA InvDecide ==
  ASSUME EntryInv, NEW w \in Worker, Decide(w)
  PROVE  EntryInv'
<1>t. TypeOK /\ TypeOK'
  BY TypeDecide DEF EntryInv
<1>p. OneAttempt /\ VenueBehindIntent /\ CoroutineBehindIntent /\ OneSender /\ AnswerIsPast /\ RowBacked
  BY DEF EntryInv
<1> USE <1>t, <1>p, SentNames, VenueNames, Moves
    DEF Goto, Leave, desk, venue, task, pass, TypeOK, OneAttempt, VenueBehindIntent,
        CoroutineBehindIntent, OneSender, AnswerIsPast, RowBacked, HasIntent, Sent, Working,
        Sending, Settling, Owning
<1>0. CASE \E k \in Key : Approve(w, k)
  BY <1>0 DEF Approve, EntryInv
<1>1. CASE Refuse(w)
  <2>1. CoroutineBehindIntent'
    BY <1>1 DEF Refuse
  <2>2. OneSender'
    BY <1>1 DEF Refuse
  <2>3. OneAttempt' /\ VenueBehindIntent' /\ AnswerIsPast' /\ RowBacked'
    BY <1>1 DEF Refuse
  <2> QED
    BY <2>1, <2>2, <2>3 DEF EntryInv
<1>2. CASE CheckSymbol(w)
  <2>1. CoroutineBehindIntent'
    BY <1>2 DEF CheckSymbol
  <2>2. OneSender'
    BY <1>2 DEF CheckSymbol
  <2>3. OneAttempt' /\ VenueBehindIntent' /\ AnswerIsPast' /\ RowBacked'
    BY <1>2 DEF CheckSymbol
  <2> QED
    BY <2>1, <2>2, <2>3 DEF EntryInv
<1>3. CASE CommitNew(w)
  <2>0. \A k2 \in Key : k2[1] = job[w][1] => ~HasIntent(k2)
    BY <1>3, <1>t DEF CommitNew, CommitCreates, Key, TypeOK
  <2>1. OneAttempt'
    BY <1>3, <2>0 DEF CommitNew
  <2>2. VenueBehindIntent'
    BY <1>3, <2>0 DEF CommitNew
  <2>3. CoroutineBehindIntent'
    BY <1>3, <2>0 DEF CommitNew
  <2>4. OneSender'
    BY <1>3, <2>0 DEF CommitNew
  <2>5. AnswerIsPast'
    BY <1>3, <2>0 DEF CommitNew
  <2>6. RowBacked'
    BY <1>3, <2>0 DEF CommitNew
  <2> QED
    BY <2>1, <2>2, <2>3, <2>4, <2>5, <2>6 DEF EntryInv
<1>4. CASE CommitRetry(w)
  <2>1. CoroutineBehindIntent'
    BY <1>4 DEF CommitRetry
  <2>2. OneSender'
    BY <1>4 DEF CommitRetry
  <2>3. OneAttempt' /\ VenueBehindIntent' /\ AnswerIsPast' /\ RowBacked'
    BY <1>4 DEF CommitRetry
  <2> QED
    BY <2>1, <2>2, <2>3 DEF EntryInv
<1>5. CASE SubmitClaim(w)
  <2>1. OneAttempt'
    BY <1>5 DEF SubmitClaim
  <2>2. VenueBehindIntent'
    BY <1>5 DEF SubmitClaim
  <2>3. CoroutineBehindIntent'
    BY <1>5 DEF SubmitClaim
  <2>4. OneSender'
    BY <1>5 DEF SubmitClaim
  <2>5. AnswerIsPast'
    BY <1>5 DEF SubmitClaim
  <2>6. RowBacked'
    BY <1>5 DEF SubmitClaim
  <2> QED
    BY <2>1, <2>2, <2>3, <2>4, <2>5, <2>6 DEF EntryInv
<1>6. CASE EntryInFlight(w)
  <2>1. CoroutineBehindIntent'
    BY <1>6 DEF EntryInFlight
  <2>2. OneSender'
    BY <1>6 DEF EntryInFlight
  <2>3. OneAttempt' /\ VenueBehindIntent' /\ AnswerIsPast' /\ RowBacked'
    BY <1>6 DEF EntryInFlight
  <2> QED
    BY <2>1, <2>2, <2>3 DEF EntryInv
<1>7. CASE ResumeUnknown(w)
  <2>1. CoroutineBehindIntent'
    BY <1>7 DEF ResumeUnknown
  <2>2. OneSender'
    BY <1>7 DEF ResumeUnknown
  <2>3. OneAttempt' /\ VenueBehindIntent' /\ AnswerIsPast' /\ RowBacked'
    BY <1>7 DEF ResumeUnknown
  <2> QED
    BY <2>1, <2>2, <2>3 DEF EntryInv
<1>8. CASE RecoverFails(w)
  <2>1. OneAttempt'
    BY <1>8 DEF RecoverFails
  <2>2. VenueBehindIntent'
    BY <1>8 DEF RecoverFails
  <2>3. CoroutineBehindIntent'
    BY <1>8 DEF RecoverFails
  <2>4. OneSender'
    BY <1>8 DEF RecoverFails
  <2>5. AnswerIsPast'
    BY <1>8 DEF RecoverFails
  <2>6. RowBacked'
    BY <1>8 DEF RecoverFails
  <2> QED
    BY <2>1, <2>2, <2>3, <2>4, <2>5, <2>6 DEF EntryInv
<1>9. CASE RecoverAdopts(w)
  <2> DEFINE k == job[w]
             t == IntentStatusFor(order[k], filled[k])
  <2>0. /\ k \in Key /\ order[k] \in VenueStatus /\ filled[k] \in Nat
        /\ intent[k] \in PastSubmit
        /\ \/ UNCHANGED intent /\ pc' = [pc EXCEPT ![w] = "idle"] /\ job' = [job EXCEPT ![w] = NoKey]
              /\ seen' = [seen EXCEPT ![w] = "none"]
           \/ /\ intent' = [intent EXCEPT ![k] = t] /\ pc' = [pc EXCEPT ![w] = "waiting"]
              /\ intent[k] \in Terminal => intent[k] = t
              /\ UNCHANGED <<job, seen>>
        /\ UNCHANGED <<row, rowQty, incident, venue, pass, crashes>>
    BY <1>9, <1>t, TransitionsLeaveSubmit DEF RecoverAdopts, CoroutineBehindIntent, TypeOK
  <2>a. /\ t \in PastSubmit
        /\ t \in Terminal => order[k] \in VenueDone
        /\ t = Filled => order[k] = "filled"
        /\ t \in {Rejected, Canceled, Expired} => filled[k] = 0 \/ order[k] = "rejected"
    BY <2>0, AnswerRead
  <2> HIDE DEF t
  <2>1. OneAttempt'
    BY <2>0, <2>a, QtyAssumption
  <2>2. VenueBehindIntent'
    BY <2>0, <2>a, QtyAssumption
  <2>3. CoroutineBehindIntent'
    BY <2>0, <2>a, QtyAssumption
  <2>4. OneSender'
    BY <2>0, <2>a, QtyAssumption
  <2>5. AnswerIsPast'
    BY <2>0, <2>a, QtyAssumption
  <2>6. RowBacked'
    BY <2>0, <2>a, QtyAssumption
  <2> QED
    BY <2>1, <2>2, <2>3, <2>4, <2>5, <2>6 DEF EntryInv
<1>10. CASE SubmissionBlocked(w)
  <2>1. OneAttempt'
    BY <1>10 DEF SubmissionBlocked
  <2>2. VenueBehindIntent'
    BY <1>10 DEF SubmissionBlocked
  <2>3. CoroutineBehindIntent'
    BY <1>10 DEF SubmissionBlocked
  <2>4. OneSender'
    BY <1>10 DEF SubmissionBlocked
  <2>5. AnswerIsPast'
    BY <1>10 DEF SubmissionBlocked
  <2>6. RowBacked'
    BY <1>10 DEF SubmissionBlocked
  <2> QED
    BY <2>1, <2>2, <2>3, <2>4, <2>5, <2>6 DEF EntryInv
<1>11. CASE Transmit(w)
  <2>1. VenueBehindIntent'
    BY <1>11 DEF Transmit
  <2>2. CoroutineBehindIntent'
    BY <1>11 DEF Transmit
  <2>3. OneSender'
    BY <1>11 DEF Transmit
  <2>4. OneAttempt' /\ AnswerIsPast' /\ RowBacked'
    BY <1>11 DEF Transmit
  <2> QED
    BY <2>1, <2>2, <2>3, <2>4 DEF EntryInv
<1>12. CASE ReplyRecord(w)
  <2>1. OneAttempt'
    BY <1>12 DEF ReplyRecord
  <2>2. VenueBehindIntent'
    BY <1>12 DEF ReplyRecord
  <2>3. CoroutineBehindIntent'
    BY <1>12 DEF ReplyRecord
  <2>4. OneSender'
    BY <1>12 DEF ReplyRecord
  <2>5. AnswerIsPast'
    BY <1>12 DEF ReplyRecord
  <2>6. RowBacked'
    BY <1>12 DEF ReplyRecord
  <2> QED
    BY <2>1, <2>2, <2>3, <2>4, <2>5, <2>6 DEF EntryInv
<1>13. CASE ReplyRejection(w)
  <2>1. OneAttempt'
    BY <1>13 DEF ReplyRejection
  <2>2. VenueBehindIntent'
    BY <1>13 DEF ReplyRejection
  <2>3. CoroutineBehindIntent'
    BY <1>13 DEF ReplyRejection
  <2>4. OneSender'
    BY <1>13 DEF ReplyRejection
  <2>5. AnswerIsPast'
    BY <1>13 DEF ReplyRejection
  <2>6. RowBacked'
    BY <1>13 DEF ReplyRejection
  <2> QED
    BY <2>1, <2>2, <2>3, <2>4, <2>5, <2>6 DEF EntryInv
<1>14. CASE ReplyLost(w)
  <2>1. OneAttempt'
    BY <1>14 DEF ReplyLost
  <2>2. VenueBehindIntent'
    BY <1>14 DEF ReplyLost
  <2>3. CoroutineBehindIntent'
    BY <1>14 DEF ReplyLost
  <2>4. OneSender'
    BY <1>14 DEF ReplyLost
  <2>5. AnswerIsPast'
    BY <1>14 DEF ReplyLost
  <2>6. RowBacked'
    BY <1>14 DEF ReplyLost
  <2> QED
    BY <2>1, <2>2, <2>3, <2>4, <2>5, <2>6 DEF EntryInv
<1>15. CASE FillSeen(w)
  <2>1. CoroutineBehindIntent'
    BY <1>15, QtyAssumption DEF FillSeen
  <2>2. OneSender'
    BY <1>15, QtyAssumption DEF FillSeen
  <2>3. OneAttempt' /\ VenueBehindIntent' /\ AnswerIsPast' /\ RowBacked'
    BY <1>15, QtyAssumption DEF FillSeen
  <2> QED
    BY <2>1, <2>2, <2>3 DEF EntryInv
<1>16. CASE FillGivesUp(w)
  <2>1. OneAttempt'
    BY <1>16 DEF FillGivesUp
  <2>2. VenueBehindIntent'
    BY <1>16 DEF FillGivesUp
  <2>3. CoroutineBehindIntent'
    BY <1>16 DEF FillGivesUp
  <2>4. OneSender'
    BY <1>16 DEF FillGivesUp
  <2>5. AnswerIsPast'
    BY <1>16 DEF FillGivesUp
  <2>6. RowBacked'
    BY <1>16 DEF FillGivesUp
  <2> QED
    BY <2>1, <2>2, <2>3, <2>4, <2>5, <2>6 DEF EntryInv
<1>17. CASE CancelEntry(w)
  <2>1. VenueBehindIntent'
    BY <1>17 DEF CancelEntry
  <2>2. CoroutineBehindIntent'
    BY <1>17 DEF CancelEntry
  <2>3. OneSender'
    BY <1>17 DEF CancelEntry
  <2>4. AnswerIsPast'
    BY <1>17 DEF CancelEntry
  <2>5. OneAttempt' /\ RowBacked'
    BY <1>17 DEF CancelEntry
  <2> QED
    BY <2>1, <2>2, <2>3, <2>4, <2>5 DEF EntryInv
<1>18. CASE SettleUnknown(w)
  <2>1. OneAttempt'
    BY <1>18 DEF SettleUnknown
  <2>2. VenueBehindIntent'
    BY <1>18 DEF SettleUnknown
  <2>3. CoroutineBehindIntent'
    BY <1>18 DEF SettleUnknown
  <2>4. OneSender'
    BY <1>18 DEF SettleUnknown
  <2>5. AnswerIsPast'
    BY <1>18 DEF SettleUnknown
  <2>6. RowBacked'
    BY <1>18 DEF SettleUnknown
  <2> QED
    BY <2>1, <2>2, <2>3, <2>4, <2>5, <2>6 DEF EntryInv
<1>19. CASE SettleEmpty(w)
  <2>1. OneAttempt'
    BY <1>19 DEF SettleEmpty
  <2>2. VenueBehindIntent'
    BY <1>19 DEF SettleEmpty
  <2>3. CoroutineBehindIntent'
    BY <1>19 DEF SettleEmpty
  <2>4. OneSender'
    BY <1>19 DEF SettleEmpty
  <2>5. AnswerIsPast'
    BY <1>19 DEF SettleEmpty
  <2>6. RowBacked'
    BY <1>19 DEF SettleEmpty
  <2> QED
    BY <2>1, <2>2, <2>3, <2>4, <2>5, <2>6 DEF EntryInv
<1>20. CASE SettlePartial(w)
  <2>1. OneAttempt'
    BY <1>20 DEF SettlePartial
  <2>2. VenueBehindIntent'
    BY <1>20 DEF SettlePartial
  <2>3. CoroutineBehindIntent'
    BY <1>20 DEF SettlePartial
  <2>4. OneSender'
    BY <1>20 DEF SettlePartial
  <2>5. AnswerIsPast'
    BY <1>20 DEF SettlePartial
  <2>6. RowBacked'
    BY <1>20 DEF SettlePartial
  <2> QED
    BY <2>1, <2>2, <2>3, <2>4, <2>5, <2>6 DEF EntryInv
<1>21. CASE StopRests(w)
  <2>1. CoroutineBehindIntent'
    BY <1>21 DEF StopRests
  <2>2. OneSender'
    BY <1>21 DEF StopRests
  <2>3. OneAttempt' /\ VenueBehindIntent' /\ AnswerIsPast' /\ RowBacked'
    BY <1>21 DEF StopRests
  <2> QED
    BY <2>1, <2>2, <2>3 DEF EntryInv
<1>22. CASE StopSwitchedOff(w)
  <2>1. CoroutineBehindIntent'
    BY <1>22 DEF StopSwitchedOff
  <2>2. OneSender'
    BY <1>22 DEF StopSwitchedOff
  <2>3. OneAttempt' /\ VenueBehindIntent' /\ AnswerIsPast' /\ RowBacked'
    BY <1>22 DEF StopSwitchedOff
  <2> QED
    BY <2>1, <2>2, <2>3 DEF EntryInv
<1>23. CASE StopFails(w)
  <2>1. CoroutineBehindIntent'
    BY <1>23 DEF StopFails
  <2>2. OneSender'
    BY <1>23 DEF StopFails
  <2>3. OneAttempt' /\ VenueBehindIntent' /\ AnswerIsPast' /\ RowBacked'
    BY <1>23 DEF StopFails
  <2> QED
    BY <2>1, <2>2, <2>3 DEF EntryInv
<1>24. CASE FlattenConfirmed(w)
  <2>1. OneAttempt'
    BY <1>24 DEF FlattenConfirmed
  <2>2. VenueBehindIntent'
    BY <1>24 DEF FlattenConfirmed
  <2>3. CoroutineBehindIntent'
    BY <1>24 DEF FlattenConfirmed
  <2>4. OneSender'
    BY <1>24 DEF FlattenConfirmed
  <2>5. AnswerIsPast'
    <3>1. /\ order' = order /\ filled' = filled /\ snap' = snap
          /\ at' = at /\ found' = found /\ rpc' = rpc
      BY <1>24 DEF FlattenConfirmed
    <3>2. \A k \in Key : Sent(k) => Sent(k)'
      BY <1>24 DEF FlattenConfirmed
    <3>3. \A v \in Worker : Sending(v)' => Sending(v) /\ job'[v] = job[v]
      BY <1>24 DEF FlattenConfirmed
    <3>4. at # NoKey => at \in Key
      OBVIOUS
    <3> QED
      BY <3>1, <3>2, <3>3, <3>4
  <2>6. RowBacked'
    BY <1>24 DEF FlattenConfirmed
  <2> QED
    BY <2>1, <2>2, <2>3, <2>4, <2>5, <2>6 DEF EntryInv
<1>25. CASE FlattenUnconfirmed(w)
  <2>1. OneAttempt'
    BY <1>25 DEF FlattenUnconfirmed
  <2>2. VenueBehindIntent'
    BY <1>25 DEF FlattenUnconfirmed
  <2>3. CoroutineBehindIntent'
    BY <1>25 DEF FlattenUnconfirmed
  <2>4. OneSender'
    BY <1>25 DEF FlattenUnconfirmed
  <2>5. AnswerIsPast'
    <3>1. /\ order' = order /\ filled' = filled /\ snap' = snap
          /\ at' = at /\ found' = found /\ rpc' = rpc
      BY <1>25 DEF FlattenUnconfirmed
    <3>2. \A k \in Key : Sent(k) => Sent(k)'
      BY <1>25 DEF FlattenUnconfirmed
    <3>3. \A v \in Worker : Sending(v)' => Sending(v) /\ job'[v] = job[v]
      BY <1>25 DEF FlattenUnconfirmed
    <3>4. at # NoKey => at \in Key
      OBVIOUS
    <3> QED
      BY <3>1, <3>2, <3>3, <3>4
  <2>6. RowBacked'
    BY <1>25 DEF FlattenUnconfirmed
  <2> QED
    BY <2>1, <2>2, <2>3, <2>4, <2>5, <2>6 DEF EntryInv
<1>26. CASE BookPosition(w)
  <2>1. CoroutineBehindIntent'
    BY <1>26 DEF BookPosition, OpenRow
  <2>2. OneSender'
    BY <1>26 DEF BookPosition, OpenRow
  <2>3. RowBacked'
    BY <1>26 DEF BookPosition, OpenRow
  <2>4. OneAttempt' /\ VenueBehindIntent' /\ AnswerIsPast'
    BY <1>26 DEF BookPosition, OpenRow
  <2> QED
    BY <2>1, <2>2, <2>3, <2>4 DEF EntryInv
<1>27. CASE ResolveEntry(w)
  <2>1. OneAttempt'
    BY <1>27 DEF ResolveEntry
  <2>2. VenueBehindIntent'
    BY <1>27 DEF ResolveEntry
  <2>3. CoroutineBehindIntent'
    BY <1>27 DEF ResolveEntry
  <2>4. OneSender'
    BY <1>27 DEF ResolveEntry
  <2>5. AnswerIsPast'
    BY <1>27 DEF ResolveEntry
  <2>6. RowBacked'
    BY <1>27 DEF ResolveEntry
  <2> QED
    BY <2>1, <2>2, <2>3, <2>4, <2>5, <2>6 DEF EntryInv
<1>28. CASE FinishEntry(w)
  <2>1. CoroutineBehindIntent'
    BY <1>28 DEF FinishEntry
  <2>2. OneSender'
    BY <1>28 DEF FinishEntry
  <2>3. OneAttempt' /\ VenueBehindIntent' /\ AnswerIsPast' /\ RowBacked'
    BY <1>28 DEF FinishEntry
  <2> QED
    BY <2>1, <2>2, <2>3 DEF EntryInv
<1> HIDE DEF TypeOK, OneAttempt, VenueBehindIntent, CoroutineBehindIntent, OneSender, AnswerIsPast, RowBacked
<1> QED
  BY <1>0, <1>1, <1>2, <1>3, <1>4, <1>5, <1>6, <1>7, <1>8, <1>9, <1>10, <1>11, <1>12,
     <1>13, <1>14, <1>15, <1>16, <1>17, <1>18, <1>19, <1>20, <1>21, <1>22, <1>23, <1>24,
     <1>25, <1>26, <1>27, <1>28 DEF Decide

(* What the venue does.                                                      *)
LEMMA InvVenue ==
  ASSUME EntryInv, Venue
  PROVE  EntryInv'
<1>t. TypeOK /\ TypeOK'
  BY TypeVenue DEF EntryInv
<1>p. OneAttempt /\ VenueBehindIntent /\ CoroutineBehindIntent /\ OneSender /\ AnswerIsPast /\ RowBacked
  BY DEF EntryInv
<1> USE <1>t, <1>p, QtyAssumption, NoKeyAssumption, SentNames, VenueNames
    DEF PassGoto, desk, venue, task, pass, TypeOK, OneAttempt, VenueBehindIntent,
        CoroutineBehindIntent, OneSender, AnswerIsPast, RowBacked, HasIntent, Sent, Working,
        Sending, Settling, Owning
<1>1. ASSUME NEW k \in Key, Arrive(k) PROVE EntryInv'
  <2>1. VenueBehindIntent'
    BY <1>1 DEF Arrive
  <2>2. CoroutineBehindIntent'
    BY <1>1 DEF Arrive
  <2>3. AnswerIsPast'
    BY <1>1 DEF Arrive
  <2>4. RowBacked'
    BY <1>1 DEF Arrive
  <2>5. OneAttempt' /\ OneSender'
    BY <1>1 DEF Arrive
  <2> QED
    BY <2>1, <2>2, <2>3, <2>4, <2>5 DEF EntryInv
<1>2. ASSUME NEW k \in Key, Vanish(k) PROVE EntryInv'
  <2>1. VenueBehindIntent'
    BY <1>2 DEF Vanish
  <2>2. CoroutineBehindIntent'
    BY <1>2 DEF Vanish
  <2>3. AnswerIsPast'
    BY <1>2 DEF Vanish
  <2>4. RowBacked'
    BY <1>2 DEF Vanish
  <2>5. OneAttempt' /\ OneSender'
    BY <1>2 DEF Vanish
  <2> QED
    BY <2>1, <2>2, <2>3, <2>4, <2>5 DEF EntryInv
<1>3. ASSUME NEW k \in Key, Fill(k) PROVE EntryInv'
  <2>1. VenueBehindIntent'
    BY <1>3 DEF Fill
  <2>2. CoroutineBehindIntent'
    BY <1>3 DEF Fill
  <2>3. AnswerIsPast'
    BY <1>3 DEF Fill
  <2>4. RowBacked'
    BY <1>3 DEF Fill
  <2>5. OneAttempt' /\ OneSender'
    BY <1>3 DEF Fill
  <2> QED
    BY <2>1, <2>2, <2>3, <2>4, <2>5 DEF EntryInv
<1>4. ASSUME NEW k \in Key, VenueExpires(k) PROVE EntryInv'
  <2>1. VenueBehindIntent'
    BY <1>4 DEF VenueExpires
  <2>2. CoroutineBehindIntent'
    BY <1>4 DEF VenueExpires
  <2>3. AnswerIsPast'
    BY <1>4 DEF VenueExpires
  <2>4. RowBacked'
    BY <1>4 DEF VenueExpires
  <2>5. OneAttempt' /\ OneSender'
    BY <1>4 DEF VenueExpires
  <2> QED
    BY <2>1, <2>2, <2>3, <2>4, <2>5 DEF EntryInv
<1>5. CASE StopTriggers
  BY <1>5 DEF StopTriggers, EntryInv
<1> HIDE DEF TypeOK, OneAttempt, VenueBehindIntent, CoroutineBehindIntent, OneSender, AnswerIsPast, RowBacked
<1> QED
  BY <1>1, <1>2, <1>3, <1>4, <1>5 DEF Venue

(* What the reconciliation pass does.                                        *)
LEMMA InvReconcile ==
  ASSUME EntryInv, Reconcile
  PROVE  EntryInv'
<1>t. TypeOK /\ TypeOK'
  BY TypeReconcile DEF EntryInv
<1>p. OneAttempt /\ VenueBehindIntent /\ CoroutineBehindIntent /\ OneSender /\ AnswerIsPast /\ RowBacked
  BY DEF EntryInv
<1> USE <1>t, <1>p, QtyAssumption, NoKeyAssumption, SentNames, VenueNames
    DEF PassGoto, desk, venue, task, pass, TypeOK, OneAttempt, VenueBehindIntent,
        CoroutineBehindIntent, OneSender, AnswerIsPast, RowBacked, HasIntent, Sent, Working,
        Sending, Settling, Owning
<1>1. CASE StartPass
  <2>1. AnswerIsPast'
    BY <1>1 DEF StartPass, IsUnresolved
  <2>2. OneAttempt' /\ VenueBehindIntent' /\ CoroutineBehindIntent' /\ OneSender' /\ RowBacked'
    BY <1>1 DEF StartPass, IsUnresolved
  <2> QED
    BY <2>1, <2>2 DEF EntryInv
<1>2. ASSUME NEW k \in Key, SkipActive(k) PROVE EntryInv'
  <2>1. AnswerIsPast'
    BY <1>2 DEF SkipActive
  <2>2. OneAttempt' /\ VenueBehindIntent' /\ CoroutineBehindIntent' /\ OneSender' /\ RowBacked'
    BY <1>2 DEF SkipActive
  <2> QED
    BY <2>1, <2>2 DEF EntryInv
<1>3. ASSUME NEW k \in Key, RetireUnsent(k) PROVE EntryInv'
  <2>1. OneAttempt'
    BY <1>3 DEF RetireUnsent, TransitionFrom
  <2>2. VenueBehindIntent'
    BY <1>3 DEF RetireUnsent, TransitionFrom
  <2>3. CoroutineBehindIntent'
    BY <1>3 DEF RetireUnsent, TransitionFrom
  <2>4. AnswerIsPast'
    BY <1>3 DEF RetireUnsent, TransitionFrom
  <2>5. OneSender' /\ RowBacked'
    BY <1>3 DEF RetireUnsent, TransitionFrom
  <2> QED
    BY <2>1, <2>2, <2>3, <2>4, <2>5 DEF EntryInv
<1>4. ASSUME NEW k \in Key, LocateIntent(k) PROVE EntryInv'
  <2>1. AnswerIsPast'
    BY <1>4 DEF LocateIntent, LocateAnswer, NoOrder, Active
  <2>2. OneAttempt' /\ VenueBehindIntent' /\ CoroutineBehindIntent' /\ OneSender' /\ RowBacked'
    BY <1>4 DEF LocateIntent, LocateAnswer, NoOrder, Active
  <2> QED
    BY <2>1, <2>2 DEF EntryInv
<1>5. CASE SettleIntent
  <2> DEFINE k == at
             t == SettledStatus(intent[k])
             u == IntentStatusFor(found.st, found.qty)
  <2>0. /\ k \in Key /\ at # NoKey /\ rpc = "intents"
        /\ intent' = [intent EXCEPT ![k] = t]
        /\ snap' = [snap EXCEPT ![k] = "none"]
        /\ at' = NoKey /\ found' = NoOrder
        /\ UNCHANGED <<rpc, rpos, sweep, fresh, card, row, rowQty, incident, venue, task, crashes>>
    BY <1>5 DEF SettleIntent
  <2>1. /\ Sent(k)
        /\ \A w \in Worker : Sending(w) => job[w] # k
    BY <2>0
  <2>2. t = intent[k] \/ (t \in PastSubmit /\ intent[k] \notin Terminal)
    <3>1. CASE found.st = "none"
      BY <2>0, <2>1, <3>1 DEF SettledStatus, TransitionFrom
    <3>2. CASE found.st # "none"
      <4>1. u \in PastSubmit
        BY <3>2, AnswerRead
      <4> QED
        BY <2>0, <2>1, <3>2, <4>1 DEF SettledStatus
    <3> QED
      BY <3>1, <3>2
  <2>3. ASSUME t # intent[k], t \in Terminal
        PROVE  /\ order[k] \in VenueDone
               /\ t = Filled => order[k] = "filled"
               /\ t \in {Rejected, Canceled, Expired} => filled[k] = 0
    <3>1. found.st # "none" /\ t = u
      BY <2>3, <2>0, <2>1 DEF SettledStatus, TransitionFrom
    <3>2. found.st \in VenueStatus /\ found.qty \in Nat
      BY <3>1
    <3>3. /\ found.st \in VenueDone
          /\ t = Filled => found.st = "filled"
          /\ t \in {Rejected, Canceled, Expired} => found.qty = 0 \/ found.st = "rejected"
      BY <2>3, <3>1, <3>2, AnswerRead
    <3>4. order[k] = found.st /\ filled[k] = found.qty
      BY <2>0, <3>1, <3>3
    <3> QED
      BY <2>0, <3>3, <3>4
  <2> HIDE DEF t, u
  <2>4. OneAttempt'
    BY <2>0, <2>1, <2>2, <2>3 DEF NoOrder
  <2>5. VenueBehindIntent'
    BY <2>0, <2>1, <2>2, <2>3 DEF NoOrder
  <2>6. CoroutineBehindIntent'
    BY <2>0, <2>1, <2>2, <2>3 DEF NoOrder
  <2>7. OneSender'
    BY <2>0, <2>1, <2>2, <2>3 DEF NoOrder
  <2>8. AnswerIsPast'
    BY <2>0, <2>1, <2>2, <2>3 DEF NoOrder
  <2>9. RowBacked'
    BY <2>0, <2>1, <2>2, <2>3 DEF NoOrder
  <2> QED
    BY <2>4, <2>5, <2>6, <2>7, <2>8, <2>9 DEF EntryInv
<1>6. CASE IntentsDone
  <2>1. AnswerIsPast'
    BY <1>6 DEF IntentsDone
  <2>2. OneAttempt' /\ VenueBehindIntent' /\ CoroutineBehindIntent' /\ OneSender' /\ RowBacked'
    BY <1>6 DEF IntentsDone
  <2> QED
    BY <2>1, <2>2 DEF EntryInv
<1>7. CASE ReadPositions \/ PassFails
  <2>1. AnswerIsPast'
    BY <1>7 DEF ReadPositions, PassFails
  <2>2. OneAttempt' /\ VenueBehindIntent' /\ CoroutineBehindIntent' /\ OneSender' /\ RowBacked'
    BY <1>7 DEF ReadPositions, PassFails
  <2> QED
    BY <2>1, <2>2 DEF EntryInv
<1>8. CASE FindRecovery
  <2>1. AnswerIsPast'
    BY <1>8 DEF FindRecovery, Matches
  <2>2. OneAttempt' /\ VenueBehindIntent' /\ CoroutineBehindIntent' /\ OneSender' /\ RowBacked'
    BY <1>8 DEF FindRecovery, Matches
  <2> QED
    BY <2>1, <2>2 DEF EntryInv
<1>9. CASE RecoverPosition
  <2>0. at \in Key /\ at # NoKey /\ found.qty > 0 /\ found.qty <= filled[at]
    BY <1>9 DEF RecoverPosition, Key
  <2>1. AnswerIsPast'
    BY <1>9, <2>0 DEF RecoverPosition, NoOrder, OpenRow
  <2>2. RowBacked'
    BY <1>9, <2>0 DEF RecoverPosition, NoOrder, OpenRow
  <2>3. OneAttempt' /\ VenueBehindIntent' /\ CoroutineBehindIntent' /\ OneSender'
    BY <1>9, <2>0 DEF RecoverPosition, NoOrder, OpenRow
  <2> QED
    BY <2>1, <2>2, <2>3 DEF EntryInv
<1>10. CASE CheckPositions
  <2>1. AnswerIsPast'
    BY <1>10 DEF CheckPositions, OpenRow
  <2>2. RowBacked'
    BY <1>10 DEF CheckPositions, OpenRow
  <2>3. OneAttempt' /\ VenueBehindIntent' /\ CoroutineBehindIntent' /\ OneSender'
    BY <1>10 DEF CheckPositions, OpenRow
  <2> QED
    BY <2>1, <2>2, <2>3 DEF EntryInv
<1>11. CASE BlockOrphans
  <2>1. AnswerIsPast'
    BY <1>11 DEF BlockOrphans
  <2>2. OneAttempt' /\ VenueBehindIntent' /\ CoroutineBehindIntent' /\ OneSender' /\ RowBacked'
    BY <1>11 DEF BlockOrphans
  <2> QED
    BY <2>1, <2>2 DEF EntryInv
<1>12. CASE ProtectPosition
  <2>1. AnswerIsPast'
    BY <1>12 DEF ProtectPosition
  <2>2. RowBacked'
    BY <1>12 DEF ProtectPosition
  <2>3. OneAttempt' /\ VenueBehindIntent' /\ CoroutineBehindIntent' /\ OneSender'
    BY <1>12 DEF ProtectPosition
  <2> QED
    BY <2>1, <2>2, <2>3 DEF EntryInv
<1>13. CASE ReleaseStale \/ ListStrays
  <2>1. AnswerIsPast'
    BY <1>13 DEF ReleaseStale, ListStrays
  <2>2. OneAttempt' /\ VenueBehindIntent' /\ CoroutineBehindIntent' /\ OneSender' /\ RowBacked'
    BY <1>13 DEF ReleaseStale, ListStrays
  <2> QED
    BY <2>1, <2>2 DEF EntryInv
<1>14. CASE EndPass
  <2>1. VenueBehindIntent'
    BY <1>14 DEF EndPass
  <2>2. CoroutineBehindIntent'
    BY <1>14 DEF EndPass
  <2>3. AnswerIsPast'
    BY <1>14 DEF EndPass
  <2>4. OneAttempt' /\ OneSender' /\ RowBacked'
    BY <1>14 DEF EndPass
  <2> QED
    BY <2>1, <2>2, <2>3, <2>4 DEF EntryInv
<1> HIDE DEF TypeOK, OneAttempt, VenueBehindIntent, CoroutineBehindIntent, OneSender, AnswerIsPast, RowBacked
<1> QED
  BY <1>1, <1>2, <1>3, <1>4, <1>5, <1>6, <1>7, <1>8, <1>9, <1>10, <1>11, <1>12, <1>13, <1>14
  DEF Reconcile

(* The invariant holds of the empty desk.                                    *)
LEMMA InvInit == Init => EntryInv
<1> SUFFICES ASSUME Init PROVE EntryInv
  OBVIOUS
<1>1. TypeOK
  BY TypeInit
<1>2. OneAttempt /\ VenueBehindIntent /\ RowBacked
  BY QtyAssumption, SentNames, VenueNames
  DEF Init, OneAttempt, VenueBehindIntent, RowBacked, HasIntent, Sent, Working
<1>3. CoroutineBehindIntent /\ OneSender /\ AnswerIsPast
  BY DEF Init, CoroutineBehindIntent, OneSender, AnswerIsPast, Sending, Settling, Owning, NoOrder, Sent
<1> QED
  BY <1>1, <1>2, <1>3 DEF EntryInv

(* The invariant is inductive.                                               *)
LEMMA InvNext == EntryInv /\ [Next]_vars => EntryInv'
<1> SUFFICES ASSUME EntryInv, [Next]_vars PROVE EntryInv'
  OBVIOUS
<1>t. TypeOK'
  BY TypeNext DEF EntryInv
<1> USE DEF OneAttempt, VenueBehindIntent, CoroutineBehindIntent, OneSender, AnswerIsPast,
            RowBacked, HasIntent, Sent, Working, Sending, desk, venue, task, pass
<1>1. ASSUME NEW w \in Worker, Decide(w) PROVE EntryInv'
  BY <1>1, InvDecide
<1>2. ASSUME NEW c \in Card, Skip(c) \/ Lapse(c) PROVE EntryInv'
  BY <1>2, <1>t DEF Skip, Lapse, EntryInv
<1>3. CASE Venue
  BY <1>3, InvVenue
<1>4. CASE Reconcile
  BY <1>4, InvReconcile
<1>5. CASE Crash
  <2>1. OneAttempt' /\ VenueBehindIntent' /\ RowBacked'
    BY <1>5 DEF Crash, EntryInv
  <2>2. CoroutineBehindIntent' /\ OneSender' /\ AnswerIsPast'
    BY <1>5 DEF Crash, Settling, Owning, NoOrder
  <2> QED
    BY <1>t, <2>1, <2>2 DEF EntryInv
<1>6. CASE UNCHANGED vars
  BY <1>6, <1>t DEF vars, EntryInv
<1>7. CASE ListPositions
  BY <1>7, <1>t DEF ListPositions, EntryInv
<1> QED
  BY <1>1, <1>2, <1>3, <1>4, <1>5, <1>6, <1>7 DEF Next

(* EntryInv holds in every reachable state.                                  *)
THEOREM EntryInvariant == Spec => []EntryInv
<1>1. Init => EntryInv
  BY InvInit
<1>2. EntryInv /\ [Next]_vars => EntryInv'
  BY InvNext
<1> QED
  BY <1>1, <1>2, PTL DEF Spec

-----------------------------------------------------------------------------
(* What follows from it.                                                     *)

(* Between the claim and the venue's answer a coroutine is alone with its    *)
(* intent, for any number of coroutines.                                     *)
THEOREM TransmissionOwned == Spec => []TransmissionIsOwned
<1>1. EntryInv => TransmissionIsOwned
  BY DEF EntryInv, CoroutineBehindIntent, OneSender, TransmissionIsOwned
<1> QED
  BY <1>1, EntryInvariant, PTL

(* A settled intent has no live order behind it, and a dead one bought       *)
(* nothing.                                                                  *)
THEOREM SettledOver == Spec => []SettledIsOver
<1>1. EntryInv => SettledIsOver
  BY SentNames DEF EntryInv, TypeOK, VenueBehindIntent, SettledIsOver
<1> QED
  BY <1>1, EntryInvariant, PTL

(* The ledger never claims more than its entry order bought.                 *)
THEOREM RowsBacked == Spec => []RowBacked
<1>1. EntryInv => RowBacked
  BY DEF EntryInv
<1> QED
  BY <1>1, EntryInvariant, PTL
-----------------------------------------------------------------------------
(* A card that says EXECUTED has a position behind it.                       *)

(* Who is about to finish has booked.                                        *)
Bookers == \A w \in Worker : pc[w] \in {"booked", "resolved"} => row[job[w]] # "none"

(* No step erases a row, and only BookPosition takes a coroutine past it.    *)
LEMMA RowsStay ==
  ASSUME TypeOK, [Next]_vars, NEW k \in Key, row[k] # "none"
  PROVE  row'[k] # "none"
<1>t. row \in [Key -> RowStatus]
  BY DEF TypeOK
<1>1. ASSUME NEW w \in Worker, Decide(w), ~BookPosition(w) PROVE UNCHANGED row
  <2>1. CASE \/ \E j \in Key : Approve(w, j)
             \/ Refuse(w) \/ CheckSymbol(w) \/ CommitNew(w) \/ CommitRetry(w)
             \/ SubmitClaim(w) \/ EntryInFlight(w) \/ ResumeUnknown(w)
             \/ RecoverFails(w) \/ RecoverAdopts(w)
             \/ SubmissionBlocked(w) \/ Transmit(w) \/ ReplyRecord(w) \/ ReplyRejection(w) \/ ReplyLost(w)
    BY <2>1 DEF Approve, Refuse, CheckSymbol, CommitNew, CommitRetry, SubmitClaim, EntryInFlight, ResumeUnknown,
                RecoverFails, RecoverAdopts, SubmissionBlocked, Transmit, ReplyRecord, ReplyRejection, ReplyLost, desk
  <2>2. CASE \/ FillSeen(w) \/ FillGivesUp(w) \/ CancelEntry(w)
             \/ SettleUnknown(w) \/ SettleEmpty(w) \/ SettlePartial(w)
             \/ StopRests(w) \/ StopSwitchedOff(w) \/ StopFails(w) \/ FlattenConfirmed(w) \/ FlattenUnconfirmed(w)
             \/ ResolveEntry(w) \/ FinishEntry(w)
    BY <2>2 DEF FillSeen, FillGivesUp, CancelEntry, SettleUnknown, SettleEmpty, SettlePartial, StopRests,
                StopSwitchedOff, StopFails, FlattenConfirmed, FlattenUnconfirmed, ResolveEntry, FinishEntry, desk
  <2> QED BY <1>1, <2>1, <2>2 DEF Decide
<1>2. ASSUME NEW w \in Worker, BookPosition(w) PROVE row'[k] # "none"
  BY <1>t, <1>2 DEF BookPosition
<1>3. ASSUME (\E c \in Card : Skip(c) \/ Lapse(c)) \/ Venue \/ ListPositions \/ Crash \/ UNCHANGED vars
      PROVE  UNCHANGED row
  BY <1>3 DEF Skip, Lapse, Venue, Arrive, Vanish, Fill, VenueExpires, StopTriggers, ListPositions, Crash, vars, desk
<1>4. CASE RecoverPosition \/ CheckPositions \/ ProtectPosition
  BY <1>t, <1>4 DEF RecoverPosition, CheckPositions, ProtectPosition
<1>5. ASSUME \/ StartPass \/ \E j \in Key : SkipActive(j) \/ RetireUnsent(j) \/ LocateIntent(j)
             \/ SettleIntent \/ IntentsDone \/ ReadPositions \/ PassFails
             \/ FindRecovery \/ BlockOrphans \/ ReleaseStale \/ ListStrays \/ EndPass
      PROVE  UNCHANGED row
  BY <1>5 DEF StartPass, SkipActive, RetireUnsent, LocateIntent, SettleIntent, IntentsDone, ReadPositions, PassFails,
              FindRecovery, BlockOrphans, ReleaseStale, ListStrays, EndPass, desk
<1> QED BY <1>1, <1>2, <1>3, <1>4, <1>5 DEF Next, Reconcile

(* What a coroutine has booked it still has when it finishes.                *)
LEMMA BookersKeep ==
  ASSUME TypeOK, Bookers, [Next]_vars
  PROVE  Bookers'
<1> SUFFICES ASSUME NEW w \in Worker, pc'[w] \in {"booked", "resolved"} PROVE row'[job'[w]] # "none"
  BY DEF Bookers
<1>t. /\ pc \in [Worker -> TaskPc] /\ job \in [Worker -> Key \union {NoKey}] /\ row \in [Key -> RowStatus]
      /\ \A v \in Worker : pc[v] # "idle" => job[v] \in Key
  BY DEF TypeOK
<1>1. BookPosition(w) \/ (job'[w] = job[w] /\ pc[w] \in {"booked", "resolved"})
  <2>1. ASSUME NEW v \in Worker, Decide(v)
        PROVE  BookPosition(w) \/ (job'[w] = job[w] /\ pc[w] \in {"booked", "resolved"})
    <3>1. CASE \/ \E j \in Key : Approve(v, j)
               \/ Refuse(v) \/ CheckSymbol(v) \/ CommitNew(v) \/ CommitRetry(v)
               \/ SubmitClaim(v) \/ EntryInFlight(v) \/ ResumeUnknown(v)
      BY <1>t, <3>1 DEF Approve, Refuse, CheckSymbol, CommitNew, CommitRetry, SubmitClaim, EntryInFlight,
                        ResumeUnknown, Goto, Leave
    <3>2. CASE \/ RecoverFails(v) \/ RecoverAdopts(v)
               \/ SubmissionBlocked(v) \/ Transmit(v) \/ ReplyRecord(v) \/ ReplyRejection(v) \/ ReplyLost(v)
               \/ FillSeen(v) \/ FillGivesUp(v) \/ CancelEntry(v)
      BY <1>t, <3>2 DEF RecoverFails, RecoverAdopts, SubmissionBlocked, Transmit, ReplyRecord, ReplyRejection,
                        ReplyLost, FillSeen, FillGivesUp, CancelEntry, Goto, Leave
    <3>3. CASE \/ SettleUnknown(v) \/ SettleEmpty(v) \/ SettlePartial(v)
               \/ StopRests(v) \/ StopSwitchedOff(v) \/ StopFails(v) \/ FlattenConfirmed(v) \/ FlattenUnconfirmed(v)
      BY <1>t, <3>3 DEF SettleUnknown, SettleEmpty, SettlePartial, StopRests, StopSwitchedOff, StopFails,
                        FlattenConfirmed, FlattenUnconfirmed, Goto, Leave
    <3>4. CASE BookPosition(v) \/ ResolveEntry(v) \/ FinishEntry(v)
      BY <1>t, <3>4 DEF BookPosition, ResolveEntry, FinishEntry, Goto, Leave
    <3> QED BY <2>1, <3>1, <3>2, <3>3, <3>4 DEF Decide
  <2>2. CASE (\E c \in Card : Skip(c) \/ Lapse(c)) \/ Venue \/ ListPositions \/ UNCHANGED vars
    BY <2>2 DEF Skip, Lapse, Venue, Arrive, Vanish, Fill, VenueExpires, StopTriggers, ListPositions, vars, task
  <2>3. CASE Reconcile
    BY <2>3 DEF Reconcile, StartPass, SkipActive, RetireUnsent, LocateIntent, SettleIntent, IntentsDone, ReadPositions,
                PassFails, FindRecovery, RecoverPosition, CheckPositions, BlockOrphans, ProtectPosition, ReleaseStale,
                ListStrays, EndPass, task
  <2>4. ~Crash
    BY DEF Crash
  <2> QED BY <2>1, <2>2, <2>3, <2>4 DEF Next
<1>2. CASE BookPosition(w)
  <2>1. job'[w] = job[w] /\ job[w] \in Key /\ ~OpenRow
    BY <1>t, <1>2 DEF BookPosition, Leave
  <2> QED BY <1>t, <1>2, <2>1 DEF BookPosition
<1>3. CASE job'[w] = job[w] /\ pc[w] \in {"booked", "resolved"}
  BY <1>t, <1>3, RowsStay DEF Bookers
<1> QED BY <1>1, <1>2, <1>3

(* Only FinishEntry writes EXECUTED.                                         *)
LEMMA OnlyFinishExecutes ==
  ASSUME TypeOK, [Next]_vars, NEW c \in Card, card'[c] = "executed", card[c] # "executed"
  PROVE  \E w \in Worker : FinishEntry(w) /\ c = job[w][1]
<1>t. card \in [Card -> CardStatus]
  BY DEF TypeOK
<1>1. ASSUME NEW w \in Worker, Decide(w) PROVE FinishEntry(w) /\ c = job[w][1]
  <2>1. CASE FinishEntry(w)
    BY <1>t, <2>1 DEF FinishEntry
  <2>2. ASSUME \/ CommitNew(w) \/ CommitRetry(w) \/ RecoverAdopts(w) \/ ReplyRecord(w) \/ ReplyRejection(w)
               \/ SettleEmpty(w) \/ FlattenConfirmed(w) \/ FlattenUnconfirmed(w)
        PROVE  FALSE
    BY <1>t, <2>2 DEF CommitNew, CommitRetry, RecoverAdopts, ReplyRecord, ReplyRejection, SettleEmpty,
                      FlattenConfirmed, FlattenUnconfirmed
  <2>3. ASSUME \/ \E j \in Key : Approve(w, j)
               \/ Refuse(w) \/ CheckSymbol(w) \/ SubmitClaim(w) \/ EntryInFlight(w) \/ ResumeUnknown(w)
               \/ RecoverFails(w) \/ SubmissionBlocked(w) \/ Transmit(w) \/ ReplyLost(w)
        PROVE  FALSE
    BY <2>3 DEF Approve, Refuse, CheckSymbol, SubmitClaim, EntryInFlight, ResumeUnknown, RecoverFails,
                SubmissionBlocked, Transmit, ReplyLost, desk
  <2>4. ASSUME \/ FillSeen(w) \/ FillGivesUp(w) \/ CancelEntry(w) \/ SettleUnknown(w) \/ SettlePartial(w)
               \/ StopRests(w) \/ StopSwitchedOff(w) \/ StopFails(w) \/ BookPosition(w) \/ ResolveEntry(w)
        PROVE  FALSE
    BY <2>4 DEF FillSeen, FillGivesUp, CancelEntry, SettleUnknown, SettlePartial, StopRests, StopSwitchedOff,
                StopFails, BookPosition, ResolveEntry, desk
  <2> QED BY <1>1, <2>1, <2>2, <2>3, <2>4 DEF Decide
<1>2. ~(\E b \in Card : Skip(b) \/ Lapse(b)) /\ ~BlockOrphans /\ ~ReleaseStale
  BY <1>t DEF Skip, Lapse, BlockOrphans, ReleaseStale
<1>3. ~Venue /\ ~ListPositions /\ ~Crash /\ ~UNCHANGED vars
  BY DEF Venue, Arrive, Vanish, Fill, VenueExpires, StopTriggers, ListPositions, Crash, vars, desk
<1>4. ~Reconcile
  <2> SUFFICES ASSUME Reconcile PROVE FALSE
    OBVIOUS
  <2>1. UNCHANGED card
    BY <1>2 DEF Reconcile, StartPass, SkipActive, RetireUnsent, LocateIntent, SettleIntent, IntentsDone, ReadPositions,
                PassFails, FindRecovery, RecoverPosition, CheckPositions, ProtectPosition, ListStrays, EndPass, desk
  <2> QED BY <2>1
<1> QED BY <1>1, <1>2, <1>3, <1>4 DEF Next

(* A card says EXECUTED only after a position was booked for it, whatever    *)
(* the pass closed or restored since (LEDGER.open_from_opportunity before    *)
(* the last store.update).                                                   *)
THEOREM ExecutedBooked == Spec => []ExecutedIsBooked
<1>1. Init => Bookers /\ ExecutedIsBooked
  BY DEF Init, Bookers, ExecutedIsBooked
<1>2. TypeOK /\ Bookers /\ ExecutedIsBooked /\ [Next]_vars => Bookers' /\ ExecutedIsBooked'
  <2> SUFFICES ASSUME TypeOK, Bookers, ExecutedIsBooked, [Next]_vars PROVE ExecutedIsBooked'
    BY BookersKeep
  <2> SUFFICES ASSUME NEW c \in Card, card'[c] = "executed" PROVE \E r \in Request : row'[<<c, r>>] # "none"
    BY DEF ExecutedIsBooked
  <2>1. \E r \in Request : row[<<c, r>>] # "none"
    <3>1. CASE card[c] = "executed"
      BY <3>1 DEF ExecutedIsBooked
    <3>2. ASSUME NEW w \in Worker, FinishEntry(w), c = job[w][1] PROVE \E r \in Request : row[<<c, r>>] # "none"
      <4>1. job[w] \in Key /\ row[job[w]] # "none"
        BY <3>2 DEF FinishEntry, Bookers, TypeOK
      <4>2. job[w] = <<c, job[w][2]>> /\ job[w][2] \in Request
        BY <3>2, <4>1 DEF Key
      <4> QED BY <4>1, <4>2
    <3> QED BY <3>1, <3>2, OnlyFinishExecutes
  <2>2. \A r \in Request : <<c, r>> \in Key
    BY DEF Key
  <2> QED BY <2>1, <2>2, RowsStay
<1> QED BY <1>1, <1>2, TypeCorrect, PTL DEF Spec
=============================================================================
