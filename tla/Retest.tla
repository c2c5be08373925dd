------------------------------- MODULE Retest -------------------------------
(***************************************************************************)
(* The replay that decides whether completed five-minute bars hold a        *)
(* breakout, its retest and a distinct confirmation (retest.rebuild), for   *)
(* the plans whose target the previous day's high may cap (orb@2.2, 2.3).   *)
(*                                                                          *)
(* A step closes one window.  Every evaluation replays the bars from the    *)
(* open, so the state after n windows is what a call at that time computes: *)
(* each reachable state is one input of rebuild, and `st` its loop's        *)
(* variables after the last row.  Times are windows: window n ends at n.    *)
(* Prices are ticks, Cent of them to a cent, so that rounding can matter.   *)
(***************************************************************************)
EXTENDS Integers, Sequences

CONSTANTS Bar,        \* bars the market can print
          NoBar,      \* a window without one
          Level,      \* range_high
          Band,       \* how near to the level a return must come
          Buffer,     \* how far below the low the stop is put
          Cent,       \* ticks in a cent
          CostBps,    \* cost_allowance_bps
          Pdhs,       \* highs the previous day may have had
          Timeout,    \* setup_timeout_minutes, in windows
          Ttl,        \* signal_ttl_minutes, in windows
          Deadline,   \* entry_deadline, in windows
          Afters,     \* bound: the values of `after` considered
          Last        \* bound: windows of the session

Prices == [open : Nat, high : Nat, low : Nat \ {0}, close : Nat]

(* What _valid_bar lets through.                                            *)
ASSUME BarAssumption ==
  /\ Bar \in SUBSET {b \in Prices : /\ b.low <= b.open /\ b.low <= b.close
                                    /\ b.open <= b.high /\ b.close <= b.high}
  /\ NoBar \notin Bar
ASSUME PriceAssumption ==
  /\ Level \in Nat /\ Pdhs \in SUBSET Nat /\ CostBps \in Nat
  /\ Cent \in Nat \ {0} /\ Band \in Nat /\ Buffer \in Nat
ASSUME TimeAssumption ==
  Timeout \in Nat /\ Ttl \in Nat /\ Deadline \in Nat /\ Last \in Nat /\ Afters \in SUBSET Nat

VARIABLES
  after,  \* windows up to this one are refused (retest_after)
  pdh,    \* the previous day's high
  tape,   \* the windows closed so far, each with its bar or NoBar
  st      \* the loop's variables

vars == <<after, pdh, tape, st>>

Reason == {"wait_breakout", "wait_return", "wait_confirmation", "expired", "invalidated",
           "reward_insufficient"}

NoPlan == [at |-> 0, breakout |-> 0, retest |-> 0, stop |-> 0, floor |-> 0, ceiling |-> 0,
           target |-> 0, until |-> 0]

(* Seeking a breakout, because of `why`.                                    *)
Seeking(why) ==
  [breakout |-> 0, retest |-> 0, peak |-> 0, low |-> 0, plan |-> NoPlan, why |-> why]

Init ==
  /\ after \in Afters /\ pdh \in Pdhs
  /\ tape = <<>>
  /\ st = Seeking("wait_breakout")

-----------------------------------------------------------------------------
(* Conditions on a bar.                                                      *)

Smaller(x, y) == IF x <= y THEN x ELSE y
Larger(x, y)  == IF x <= y THEN y ELSE x

FloorCent(x) == (x \div Cent) * Cent
CeilCent(x)  == ((x + Cent - 1) \div Cent) * Cent

Bullish(b)  == b.close > Level + Cent /\ b.close > b.open
Fails(b)    == b.close < Level - Band
Touches(b)  == b.low <= Level + Band /\ b.high >= Level - Band

(* A distinct bar that closes above the return's own close.                 *)
Confirms(b, r) == Bullish(b) /\ b.close > r.close

-----------------------------------------------------------------------------
(* The geometry frozen at a confirmation.                                    *)

EntryFloor   == CeilCent(Level + Cent)
EntryCeiling(b) == FloorCent(Smaller(b.close, Level + Band))

Target(b, peak) ==
  IF EntryFloor < pdh /\ b.close <= pdh /\ pdh < FloorCent(peak)
    THEN FloorCent(pdh) ELSE FloorCent(peak)

(* Mutant of Until: the session's cutoff is forgotten.                      *)
UntilTtl(n) == n + Ttl

Until(n) == Smaller(Deadline, n + Ttl)

Geometry(b, n, s) ==
  [at |-> n, breakout |-> s.breakout, retest |-> s.retest,
   stop |-> FloorCent(Smaller(s.low, b.low) - Buffer), floor |-> EntryFloor,
   ceiling |-> EntryCeiling(b), target |-> Target(b, s.peak), until |-> Until(n)]

(* (reward - cost) >= 1.5 (risk + cost), with cost = ceiling * bps / 10000. *)
Worthwhile(p) ==
  20000 * (p.target - p.ceiling)
    >= 30000 * (p.ceiling - p.stop) + 5 * CostBps * p.ceiling

Actionable(b, p) ==
  /\ b.high < p.target
  /\ 0 < p.stop /\ p.stop < p.floor /\ p.floor <= p.ceiling /\ p.ceiling < p.target
  /\ Worthwhile(p)

-----------------------------------------------------------------------------
(* One window closes.  The conditions follow the loop from the top.          *)

Now == Len(tape)
Ready == st.plan # NoPlan

Closes(b) ==
  /\ Now < Last
  /\ tape' = Append(tape, b)
  /\ UNCHANGED <<after, pdh>>

(* No bar was printed.                                                      *)
Silent == Closes(NoBar) /\ UNCHANGED st

(* The bar began before `after`.                                            *)
Refused(b) == Closes(b) /\ Now < after /\ UNCHANGED st

Counts(b) == Closes(b) /\ Now >= after

Survives(b) ==
  Now + 1 <= st.plan.until /\ b.low > st.plan.stop /\ b.high < st.plan.target

Hold(b) == Counts(b) /\ Ready /\ Survives(b) /\ UNCHANGED st

(* The bar that ends a plan is used for nothing else.                       *)
Lapse(b) == Counts(b) /\ Ready /\ ~Survives(b) /\ st' = Seeking("expired")

(* A setup older than the timeout is dropped; the bar may begin another.    *)
Overdue == st.breakout # 0 /\ Now + 1 > st.breakout + Timeout
Current == IF Overdue THEN Seeking("expired") ELSE st

Seeks(b) == Counts(b) /\ ~Ready /\ Current.breakout = 0

Breakout(b) ==
  /\ Seeks(b) /\ Bullish(b)
  /\ st' = [Current EXCEPT !.breakout = Now + 1, !.peak = b.high, !.why = "wait_return"]

Pass(b) == Seeks(b) /\ ~Bullish(b) /\ st' = Current

Pursues(b) == Counts(b) /\ ~Ready /\ st.breakout # 0 /\ ~Overdue

(* Mutant of Fail: the reason of the phase that failed stays.               *)
FailKeepsPhase(b) ==
  Pursues(b) /\ Fails(b) /\ st' = [st EXCEPT !.breakout = 0, !.retest = 0]

Fail(b) == Pursues(b) /\ Fails(b) /\ st' = Seeking("invalidated")

(* Mutant of Return: the returning bar's own high counts as impulse.        *)
ReturnRaisesPeak(b) ==
  /\ Pursues(b) /\ ~Fails(b) /\ st.retest = 0 /\ Touches(b)
  /\ st' = [st EXCEPT !.retest = Now + 1, !.low = b.low, !.peak = Larger(@, b.high),
                      !.why = "wait_confirmation"]

Return(b) ==
  /\ Pursues(b) /\ ~Fails(b) /\ st.retest = 0 /\ Touches(b)
  /\ st' = [st EXCEPT !.retest = Now + 1, !.low = b.low, !.why = "wait_confirmation"]

Climb(b) ==
  /\ Pursues(b) /\ ~Fails(b) /\ st.retest = 0 /\ ~Touches(b)
  /\ st' = [st EXCEPT !.peak = Larger(@, b.high)]

Lingers(b) == Pursues(b) /\ ~Fails(b) /\ st.retest # 0

Linger(b) ==
  /\ Lingers(b) /\ ~Confirms(b, tape[st.retest])
  /\ st' = [st EXCEPT !.low = Smaller(@, b.low)]

Reject(b) ==
  /\ Lingers(b) /\ Confirms(b, tape[st.retest])
  /\ ~Actionable(b, Geometry(b, Now + 1, st))
  /\ st' = Seeking("reward_insufficient")

Confirm(b) ==
  /\ Lingers(b) /\ Confirms(b, tape[st.retest])
  /\ Actionable(b, Geometry(b, Now + 1, st))
  /\ st' = [st EXCEPT !.low = Smaller(@, b.low), !.plan = Geometry(b, Now + 1, st)]

Replay(b) ==
  \/ Refused(b) \/ Hold(b) \/ Lapse(b) \/ Breakout(b) \/ Pass(b) \/ Fail(b)
  \/ Return(b) \/ Climb(b) \/ Linger(b) \/ Reject(b) \/ Confirm(b)

Next == Silent \/ \E b \in Bar : Replay(b)

Spec == Init /\ [][Next]_vars

-----------------------------------------------------------------------------
(* What the call answers.                                                    *)

(* Without coverage that vouches for the silent windows, one of them blocks *)
(* the replay.                                                              *)
Blocked(covered) == ~covered /\ \E i \in 1..Now : tape[i] = NoBar

Confirmed(covered) == ~Blocked(covered) /\ Ready /\ Now < st.plan.until

Answer(covered) ==
  CASE Blocked(covered)   -> "blocked"
    [] Confirmed(covered) -> "confirmed"
    [] OTHER              -> IF Ready THEN "expired" ELSE st.why

-----------------------------------------------------------------------------
(* Properties.                                                               *)

Windows == 1..Now
Printed(i) == tape[i] # NoBar

Plan == [at : Nat, breakout : Nat, retest : Nat, stop : Int, floor : Nat, ceiling : Nat,
         target : Nat, until : Nat]
State == [breakout : Nat, retest : Nat, peak : Nat, low : Nat, plan : Plan, why : Reason]

TypeOK ==
  /\ after \in Afters /\ pdh \in Pdhs
  /\ tape \in Seq(Bar \union {NoBar}) /\ Now <= Last
  /\ st \in State

(* The pattern: breakout b, the first return r, and no confirmation of it   *)
(* nor a close below the band until window n.                               *)
Pattern(b, r, n) ==
  /\ after < b /\ b < r /\ r <= n
  /\ Printed(b) /\ Bullish(tape[b])
  /\ Printed(r) /\ Touches(tape[r])
  /\ \A i \in b + 1 .. n : Printed(i) => ~Fails(tape[i])
  /\ \A i \in b + 1 .. r - 1 : Printed(i) => ~Touches(tape[i])
  /\ \A i \in r + 1 .. n : Printed(i) => ~Confirms(tape[i], tape[r])

(* h is the highest, l the lowest price of the windows i..j.                *)
Highest(h, i, j) ==
  /\ \E k \in i..j : Printed(k) /\ tape[k].high = h
  /\ \A k \in i..j : Printed(k) => tape[k].high <= h
Lowest(l, i, j) ==
  /\ \E k \in i..j : Printed(k) /\ tape[k].low = l
  /\ \A k \in i..j : Printed(k) => l <= tape[k].low

(* The impulse was seen before the return, and a previous day's high that   *)
(* lies ahead of the entry and was not closed above is not hoped beyond.    *)
Reachable(p) ==
  \E k \in Windows : Printed(k) /\ LET h == tape[k].high IN
    /\ Highest(h, p.breakout, p.retest - 1)
    /\ p.target \in {FloorCent(h), FloorCent(pdh)} /\ p.target <= h
    /\ p.floor < pdh /\ tape[p.at].close <= pdh => p.target <= pdh

Protected(p) ==
  \E k \in Windows : Printed(k) /\ LET l == tape[k].low IN
    Lowest(l, p.retest, p.at) /\ p.stop = FloorCent(l - Buffer)

Untouched(p, i) ==
  i <= p.until /\ p.stop < tape[i].low /\ tape[i].high < p.target

(* A ready plan is the confirmation of a breakout's first return, in time,  *)
(* by a bar of its own; its stop is below everything since the return, its  *)
(* target was reached before it and not since, and no later bar has touched *)
(* either (the evidence orb-retest-v2.md asks for, kept by retest.rebuild). *)
SetupIsSound ==
  LET p == st.plan IN
  Ready =>
    /\ p.retest < p.at /\ p.at <= Now /\ p.at <= p.breakout + Timeout
    /\ Pattern(p.breakout, p.retest, p.at - 1)
    /\ Printed(p.at) /\ ~Fails(tape[p.at]) /\ Confirms(tape[p.at], tape[p.retest])
    /\ Reachable(p) /\ Protected(p) /\ Actionable(tape[p.at], p)
    /\ \A i \in p.at + 1 .. Now : Printed(i) => Untouched(p, i)

(* What rebuild confirms, OrbPlan's validator and check_entry accept: no    *)
(* confirmed plan is refused as ORB_RETEST_DATA_INVALID, whatever the day's *)
(* cutoff, the rounding and the previous day's high make of it.             *)
ConfirmedIsAccepted ==
  LET p == st.plan IN
  \A covered \in BOOLEAN : Confirmed(covered) =>
    /\ 0 < p.stop /\ p.stop < p.floor /\ p.floor <= p.ceiling /\ Level < p.floor
    /\ p.at <= Now /\ p.ceiling < p.target
    /\ p.at < p.until /\ p.until <= Deadline /\ p.until - p.at <= Ttl

(* The phase shown is the phase the bars are in: "waiting for a breakout"   *)
(* has seen none, "waiting for the return" has one nothing came back from,  *)
(* "waiting for the confirmation" has a return nothing confirmed.           *)
PhaseIsTrue ==
  /\ st.why = "wait_breakout" =>
       \A i \in after + 1 .. Now : Printed(i) => ~Bullish(tape[i])
  /\ st.why = "wait_return" =>
       /\ st.breakout \in after + 1 .. Now
       /\ Printed(st.breakout) /\ Bullish(tape[st.breakout])
       /\ \A i \in st.breakout + 1 .. Now : Printed(i) => ~Fails(tape[i]) /\ ~Touches(tape[i])
  /\ st.why = "wait_confirmation" /\ ~Ready => Pattern(st.breakout, st.retest, Now)

=============================================================================
