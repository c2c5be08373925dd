---------------------------- MODULE RetestProofs ----------------------------
(***************************************************************************)
(* What a confirmed setup rests on, for any bars, any level, band, buffer   *)
(* and rounding, and sessions of any length.                                *)
(***************************************************************************)
EXTENDS Retest, TLAPS

(* The phases of a pattern in the making.                                   *)
Impulse ==
  /\ after < st.breakout /\ st.breakout <= Now
  /\ Printed(st.breakout) /\ Bullish(tape[st.breakout])
  /\ \A i \in st.breakout + 1 .. Now : Printed(i) => ~Fails(tape[i]) /\ ~Touches(tape[i])
  /\ Highest(st.peak, st.breakout, Now)

Waiting ==
  /\ Pattern(st.breakout, st.retest, Now)
  /\ Highest(st.peak, st.breakout, st.retest - 1)
  /\ Lowest(st.low, st.retest, Now)

Phase ==
  /\ st.breakout = 0 => st.retest = 0 /\ ~Ready
  /\ st.breakout # 0 /\ st.retest = 0 => ~Ready /\ Impulse
  /\ st.retest # 0 /\ ~Ready => Waiting
  /\ st.why = "wait_breakout" => st.breakout = 0
  /\ st.why = "wait_return" => st.breakout # 0 /\ st.retest = 0
  /\ st.why = "wait_confirmation" => st.retest # 0
  /\ st.why = "wait_breakout" => \A i \in after + 1 .. Now : Printed(i) => ~Bullish(tape[i])

(* The floor and the expiry stay what they were at the confirmation.        *)
Frozen == Ready => st.plan.floor = EntryFloor /\ st.plan.until = Until(st.plan.at)

Inv == TypeOK /\ Phase /\ Frozen /\ SetupIsSound

-----------------------------------------------------------------------------
(* Rounding to the cent.                                                     *)

(* Division by a positive number rounds down, by less than one.             *)
LEMMA Division ==
  ASSUME NEW x \in Int, NEW c \in Nat \ {0}
  PROVE  /\ (x \div c) * c \in Int
         /\ (x \div c) * c <= x
         /\ x < (x \div c) * c + c
         /\ x >= 0 => (x \div c) * c >= 0
  BY SMT

(* Prices are rounded to cents, down and up.                                *)
LEMMA Rounding ==
  ASSUME NEW x \in Int
  PROVE  /\ FloorCent(x) \in Int /\ CeilCent(x) \in Int
         /\ FloorCent(x) <= x /\ x <= CeilCent(x)
         /\ x \in Nat => FloorCent(x) \in Nat /\ CeilCent(x) \in Nat
  <1>1. x + Cent - 1 \in Int /\ Cent \in Nat \ {0}
    BY PriceAssumption
  <1> QED BY <1>1, Division, PriceAssumption DEF FloorCent, CeilCent

(* The prices of a bar are numbers.                                         *)
LEMMA BarPrices ==
  \A b \in Bar : /\ b.open \in Nat /\ b.high \in Nat /\ b.low \in Nat /\ b.close \in Nat
                 /\ b # NoBar
  BY BarAssumption DEF Prices

-----------------------------------------------------------------------------
(* A window closes: what was said of the earlier ones still holds.           *)

(* The tape grows by the bar that closed.                                   *)
LEMMA Longer ==
  ASSUME TypeOK, NEW b \in Bar \union {NoBar}, Closes(b)
  PROVE  /\ Now \in Nat /\ Now' = Now + 1 /\ Now' <= Last
         /\ tape'[Now + 1] = b /\ \A i \in 1..Now : tape'[i] = tape[i]
         /\ tape' \in Seq(Bar \union {NoBar}) /\ after' = after /\ pdh' = pdh
         /\ after \in Nat /\ pdh \in Nat
  BY TimeAssumption, PriceAssumption DEF TypeOK, Closes, Now

(* What was on the tape stays the pattern it was.                           *)
LEMMA PatternKept ==
  ASSUME TypeOK, NEW b \in Bar \union {NoBar}, Closes(b),
         NEW k \in Nat, NEW r \in Nat, NEW n \in Nat, n <= Now, Pattern(k, r, n)
  PROVE  Pattern(k, r, n)'
  <1>1. \A i \in k..n : i \in 1..Now
    BY Longer DEF Pattern
  <1>2. \A i \in k..n : tape'[i] = tape[i]
    BY <1>1, Longer
  <1>3. after' = after /\ pdh' = pdh
    BY Longer
  <1> QED BY <1>1, <1>2, <1>3 DEF Pattern, Printed

(* The highest price of a stretch of the tape stays it.                     *)
LEMMA HighestKept ==
  ASSUME TypeOK, NEW b \in Bar \union {NoBar}, Closes(b),
         NEW h, NEW i \in Nat \ {0}, NEW j \in Int, j <= Now, Highest(h, i, j)
  PROVE  Highest(h, i, j)'
  <1>1. \A k \in i..j : k \in 1..Now
    BY Longer
  <1> QED BY <1>1, Longer DEF Highest, Printed

(* So does the lowest.                                                      *)
LEMMA LowestKept ==
  ASSUME TypeOK, NEW b \in Bar \union {NoBar}, Closes(b),
         NEW l, NEW i \in Nat \ {0}, NEW j \in Int, j <= Now, Lowest(l, i, j)
  PROVE  Lowest(l, i, j)'
  <1>1. \A k \in i..j : k \in 1..Now
    BY Longer
  <1> QED BY <1>1, Longer DEF Lowest, Printed

(* Seeking a breakout carries no plan.                                      *)
LEMMA SeekingType == \A why \in Reason : Seeking(why) \in State /\ Seeking(why).plan = NoPlan
  BY DEF Seeking, State, Plan, NoPlan

(* A step that leaves the setup alone keeps what is known of it, if its bar *)
(* is none of the setup's business.                                         *)
LEMMA SetupKept ==
  ASSUME Inv, NEW b \in Bar \union {NoBar}, Closes(b), Ready, st' = st,
         b = NoBar \/ Untouched(st.plan, Now)'
  PROVE  SetupIsSound'
  <1>0. /\ Now \in Nat /\ Now' = Now + 1 /\ tape'[Now + 1] = b /\ TypeOK
        /\ \A i \in 1..Now : tape'[i] = tape[i]
        /\ after' = after /\ pdh' = pdh /\ after \in Nat /\ pdh \in Nat
    BY Longer DEF Inv
  <1>p. PICK p \in Plan : p = st.plan /\ p = st'.plan
    BY <1>0 DEF TypeOK, State
  <1>1. /\ p.at \in Nat /\ p.breakout \in Nat /\ p.retest \in Nat
        /\ after < p.breakout /\ p.breakout < p.retest /\ p.retest < p.at /\ p.at <= Now
        /\ Pattern(p.breakout, p.retest, p.at - 1)
    BY <1>p DEF Inv, Plan, SetupIsSound, Pattern
  <1>2. Pattern(p.breakout, p.retest, p.at - 1)'
    BY <1>0, <1>1, PatternKept
  <1>3. \A i \in p.at + 1 .. Now' : Printed(i)' => Untouched(p, i)'
    <2> SUFFICES ASSUME NEW i \in p.at + 1 .. Now', Printed(i)' PROVE Untouched(p, i)'
      OBVIOUS
    <2>1. CASE i = Now + 1
      BY <2>1, <1>0, <1>p DEF Printed, Untouched
    <2>2. CASE i # Now + 1
      <3>1. i \in p.at + 1 .. Now /\ i \in 1..Now
        BY <2>2, <1>1, <1>0
      <3> QED BY <3>1, <1>0, <1>p DEF Inv, SetupIsSound, Printed, Untouched
    <2> QED BY <2>1, <2>2
  <1>4. Reachable(p)'
    <2>0. PICK k \in Windows : Printed(k) /\ LET h == tape[k].high IN
            /\ Highest(h, p.breakout, p.retest - 1)
            /\ p.target \in {FloorCent(h), FloorCent(pdh)} /\ p.target <= h
            /\ p.floor < pdh /\ tape[p.at].close <= pdh => p.target <= pdh
      BY <1>p DEF Inv, SetupIsSound, Reachable
    <2>1. PICK h : /\ h = tape[k].high /\ Highest(h, p.breakout, p.retest - 1)
                   /\ p.target \in {FloorCent(h), FloorCent(pdh)} /\ p.target <= h
                   /\ p.floor < pdh /\ tape[p.at].close <= pdh => p.target <= pdh
      BY <2>0
    <2>2. Highest(h, p.breakout, p.retest - 1)'
      BY <2>1, <1>1, <1>0, HighestKept
    <2>3. k \in Windows' /\ tape'[k] = tape[k] /\ tape'[p.at] = tape[p.at] /\ Printed(k)'
      BY <2>0, <1>0, <1>1 DEF Windows, Printed
    <2> QED BY <2>1, <2>2, <2>3, <1>0 DEF Reachable, FloorCent
  <1>5. Protected(p)'
    <2>0. PICK k \in Windows : Printed(k) /\ LET l == tape[k].low IN
            Lowest(l, p.retest, p.at) /\ p.stop = FloorCent(l - Buffer)
      BY <1>p DEF Inv, SetupIsSound, Protected
    <2>1. PICK l :
            l = tape[k].low /\ Lowest(l, p.retest, p.at) /\ p.stop = FloorCent(l - Buffer)
      BY <2>0
    <2>2. Lowest(l, p.retest, p.at)'
      BY <2>1, <1>1, <1>0, LowestKept
    <2>3. k \in Windows' /\ tape'[k] = tape[k] /\ Printed(k)'
      BY <2>0, <1>0 DEF Windows, Printed
    <2> QED BY <2>1, <2>2, <2>3 DEF Protected
  <1>6. tape'[p.at] = tape[p.at] /\ tape'[p.retest] = tape[p.retest]
    BY <1>1, <1>0
  <1> QED BY <1>p, <1>0, <1>1, <1>2, <1>3, <1>4, <1>5, <1>6 DEF Inv, SetupIsSound, Printed

-----------------------------------------------------------------------------
(* The steps.                                                                *)

(* A bar that closes keeps the types.                                       *)
LEMMA Grows ==
  ASSUME Inv, NEW b \in Bar \union {NoBar}, Closes(b), st' \in State
  PROVE  /\ TypeOK'
         /\ Now \in Nat /\ Now' = Now + 1 /\ tape'[Now + 1] = b
         /\ \A i \in 1..Now : tape'[i] = tape[i]
         /\ after' = after /\ pdh' = pdh /\ after \in Nat /\ pdh \in Nat
         /\ st.breakout \in Nat /\ st.retest \in Nat /\ st.peak \in Nat /\ st.low \in Nat
         /\ st \in State
  BY Longer DEF Inv, TypeOK, State

(* A bar that says nothing about the setup.                                 *)
LEMMA Unmoved ==
  ASSUME Inv, NEW b \in Bar \union {NoBar}, Closes(b), st' = st,
         Ready \/ b = NoBar \/ Now < after
  PROVE  Phase'
  <1>1. st' \in State
    BY DEF Inv, TypeOK
  <1>2. CASE Ready
    BY <1>1, <1>2, Grows DEF Inv, Phase, Ready
  <1>3. CASE Now < after /\ ~Ready
    <2>1. st.breakout = 0
      BY <1>1, <1>3, Grows DEF Inv, Phase, Impulse, Waiting, Pattern
    <2> QED BY <1>1, <1>3, <2>1, Grows DEF Inv, Phase, Ready
  <1>4. CASE b = NoBar /\ ~Ready
    <2>0. /\ Now \in Nat /\ Now' = Now + 1 /\ tape'[Now + 1] = NoBar /\ TypeOK
          /\ \A i \in 1..Now : tape'[i] = tape[i]
          /\ after' = after /\ after \in Nat
      BY <1>1, <1>4, Grows DEF Inv
    <2>p. PICK s \in State : s = st /\ s = st'
      BY DEF Inv, TypeOK
    <2>1. s.breakout \in Nat /\ s.retest \in Nat
      BY DEF State
    <2>2. ASSUME st.breakout # 0, st.retest = 0 PROVE Impulse'
      <3>1. Impulse
        BY <2>2 DEF Inv, Phase
      <3>2. Highest(s.peak, s.breakout, Now)'
        <4>1. /\ s.breakout \in 1..Now
              /\ \E k \in s.breakout..Now : Printed(k) /\ tape[k].high = s.peak
              /\ \A k \in s.breakout..Now : Printed(k) => tape[k].high <= s.peak
          BY <3>1, <2>p, <2>0, <2>1, <2>2 DEF Impulse, Highest
        <4> QED BY <4>1, <2>0 DEF Highest, Printed
      <3> QED BY <3>1, <3>2, <2>p, <2>0, <2>1, <2>2 DEF Impulse, Printed
    <2>3. ASSUME st.retest # 0 PROVE Waiting'
      <3>1. Waiting
        BY <2>3, <1>4 DEF Inv, Phase
      <3>2. /\ after < s.breakout /\ s.breakout < s.retest /\ s.retest <= Now
            /\ Pattern(s.breakout, s.retest, Now)
        BY <3>1, <2>p DEF Waiting, Pattern
      <3>3. Pattern(s.breakout, s.retest, Now)'
        BY <3>2, <2>0, <2>1 DEF Pattern, Printed
      <3>4. Highest(s.peak, s.breakout, s.retest - 1)'
        BY <3>1, <3>2, <2>p, <2>0, <2>1, HighestKept DEF Waiting
      <3>5. Lowest(s.low, s.retest, Now)'
        <4>1. /\ \E k \in s.retest..Now : Printed(k) /\ tape[k].low = s.low
              /\ \A k \in s.retest..Now : Printed(k) => s.low <= tape[k].low
          BY <3>1, <2>p DEF Waiting, Lowest
        <4> QED BY <4>1, <3>2, <2>0, <2>1 DEF Lowest, Printed
      <3> QED BY <3>3, <3>4, <3>5, <2>p DEF Waiting
    <2>4. st.why = "wait_breakout" =>
            \A i \in after + 1 .. Now' : Printed(i)' => ~Bullish(tape'[i])
      BY <2>0 DEF Inv, Phase, Printed
    <2> QED BY <2>2, <2>3, <2>4, <2>0, <1>4 DEF Inv, Phase, Ready
  <1> QED BY <1>2, <1>3, <1>4

(* Nothing is left of a setup.                                              *)
LEMMA StartsOver ==
  ASSUME Inv, NEW b \in Bar \union {NoBar}, Closes(b),
         NEW why \in {"expired", "invalidated", "reward_insufficient"}, st' = Seeking(why)
  PROVE  Inv'
  <1>1. st' \in State
    BY SeekingType DEF Reason
  <1> QED BY <1>1, Grows DEF Inv, Phase, Frozen, SetupIsSound, Ready, Seeking

(* A window without a bar keeps the invariant.                              *)
LEMMA SilentStep == Inv /\ Silent => Inv'
  <1> SUFFICES ASSUME Inv, Closes(NoBar), st' = st PROVE Inv'
    BY DEF Silent
  <1>1. st' \in State
    BY DEF Inv, TypeOK
  <1>2. TypeOK' /\ Phase'
    BY <1>1, Grows, Unmoved
  <1>3. SetupIsSound'
    BY SetupKept DEF SetupIsSound, Ready
  <1>4. Frozen'
    BY <1>1 DEF Inv, Frozen, Ready
  <1> QED BY <1>2, <1>3, <1>4 DEF Inv

(* So does a bar that began before the replay counts any,                   *)
LEMMA RefusedStep ==
  ASSUME Inv, NEW b \in Bar, Refused(b)
  PROVE  Inv'
  <1>1. Closes(b) /\ st' = st /\ st' \in State /\ Now < after
    BY DEF Inv, TypeOK, Refused
  <1>2. TypeOK' /\ Phase'
    BY <1>1, Grows, Unmoved
  <1>3. ~Ready
    BY <1>1, Grows DEF Inv, SetupIsSound, Pattern, State, Plan
  <1> QED BY <1>1, <1>2, <1>3 DEF Inv, Frozen, SetupIsSound, Ready

(* and one that a ready plan survives.                                      *)
LEMMA HoldStep ==
  ASSUME Inv, NEW b \in Bar, Hold(b)
  PROVE  Inv'
  <1>1. Closes(b) /\ st' = st /\ st' \in State /\ Ready /\ Survives(b)
    BY DEF Inv, TypeOK, Hold, Counts
  <1>2. TypeOK' /\ Phase'
    BY <1>1, Grows, Unmoved
  <1>3. Untouched(st.plan, Now)'
    BY <1>1, Grows DEF Survives, Untouched
  <1>4. SetupIsSound'
    BY <1>1, <1>3, SetupKept
  <1>5. Frozen'
    BY <1>1 DEF Inv, Frozen, Ready
  <1> QED BY <1>2, <1>4, <1>5 DEF Inv

(* A breakout begins an impulse.                                            *)
LEMMA BreakoutStep ==
  ASSUME Inv, NEW b \in Bar, Breakout(b)
  PROVE  Inv'
  <1> DEFINE n == Now + 1
  <1>1. /\ Closes(b) /\ Now >= after /\ Bullish(b) /\ ~Ready
        /\ st' = [Current EXCEPT !.breakout = n, !.peak = b.high, !.why = "wait_return"]
        /\ Current \in State /\ Current.retest = 0 /\ Current.plan = NoPlan
    BY SeekingType DEF Breakout, Seeks, Counts, Current, Seeking, Inv, TypeOK, Phase, Ready, Reason
  <1>2. b \in Bar \union {NoBar} /\ b # NoBar /\ b.high \in Nat
    BY BarPrices
  <1>3. st' \in State /\ n \in Nat /\ n # 0
    <2>1. Now \in Nat
      BY Longer, <1>1 DEF Inv
    <2>2. PICK c \in State : c = Current
      BY <1>1
    <2>3. [c EXCEPT !.breakout = n, !.peak = b.high, !.why = "wait_return"] \in State
      <3>1. /\ n \in Nat /\ "wait_return" \in Reason /\ c.plan \in Plan /\ c.retest \in Nat
            /\ c.low \in Nat
        BY <2>1 DEF State, Reason
      <3> HIDE DEF n
      <3> QED BY <3>1, <1>2 DEF State
    <2> QED BY <2>1, <2>2, <2>3, <1>1
  <1>4. /\ st'.breakout = n /\ st'.retest = 0 /\ st'.peak = b.high /\ st'.plan = NoPlan
        /\ st'.why = "wait_return"
    BY <1>1, <1>3 DEF State
  <1>5. Impulse'
    BY <1>1, <1>2, <1>3, <1>4, Grows DEF Impulse, Highest, Printed
  <1> QED BY <1>1, <1>3, <1>4, <1>5, Grows DEF Inv, Phase, Frozen, SetupIsSound, Ready

(* A bar that is no breakout drops a setup too old.                         *)
LEMMA PassStep ==
  ASSUME Inv, NEW b \in Bar, Pass(b)
  PROVE  Inv'
  <1>1. CASE Overdue
    BY <1>1, StartsOver DEF Pass, Seeks, Counts, Current
  <1>2. CASE ~Overdue
    <2>1. /\ Closes(b) /\ st' = st /\ st' \in State /\ ~Ready /\ ~Bullish(b)
          /\ st.breakout = 0 /\ st.retest = 0
      BY <1>2 DEF Inv, TypeOK, Phase, Pass, Seeks, Counts, Current
    <2> QED BY <2>1, Grows DEF Inv, Phase, Frozen, SetupIsSound, Ready, Printed
  <1> QED BY <1>1, <1>2

(* What is known of a setup before a bar that pursues it.                   *)
LEMMA Pursued ==
  ASSUME Inv, NEW b \in Bar, Pursues(b)
  PROVE  /\ Closes(b) /\ b \in Bar \union {NoBar} /\ b # NoBar /\ ~Ready
         /\ b.high \in Nat /\ b.low \in Nat /\ b.close \in Nat
         /\ Now \in Nat /\ st \in State
         /\ st.breakout \in Nat \ {0} /\ Now + 1 <= st.breakout + Timeout
         /\ st.retest = 0 => Impulse
         /\ st.retest # 0 => Waiting
  <1>1. Closes(b) /\ ~Ready /\ st.breakout # 0 /\ ~Overdue
    BY DEF Pursues, Counts
  <1>2. Now \in Nat /\ st \in State /\ st.breakout \in Nat
    BY <1>1, Longer DEF Inv, TypeOK, State
  <1> QED BY <1>1, <1>2, BarPrices, TimeAssumption DEF Overdue, Inv, Phase

(* The lowest price with one more window.                                   *)
LEMMA LowerWith ==
  ASSUME TypeOK, NEW b \in Bar, Closes(b), NEW l \in Nat, NEW r \in Nat \ {0},
         NEW n \in Nat, n = Now + 1, r <= Now, Lowest(l, r, Now)
  PROVE  Lowest(Smaller(l, b.low), r, n)'
  <1>1. /\ Now \in Nat /\ tape'[n] = b /\ b # NoBar /\ b.low \in Nat
        /\ \A i \in 1..Now : tape'[i] = tape[i]
    BY Longer, BarPrices
  <1>2. PICK k \in r..Now : Printed(k) /\ tape[k].low = l
    BY DEF Lowest
  <1>3. /\ k \in r..n /\ n \in r..n
        /\ Printed(k)' /\ tape'[k].low = l /\ Printed(n)' /\ tape'[n].low = b.low
    BY <1>1, <1>2 DEF Printed
  <1>4. \A i \in r..n : Printed(i)' => Smaller(l, b.low) <= tape'[i].low
    <2> SUFFICES ASSUME NEW i \in r..n, Printed(i)'
                 PROVE  Smaller(l, b.low) <= tape'[i].low
      OBVIOUS
    <2>1. CASE i = n
      BY <2>1, <1>1 DEF Smaller
    <2>2. CASE i # n
      <3>1. i \in r..Now /\ i \in 1..Now
        BY <2>2, <1>1
      <3>2. tape[i] \in Bar /\ tape'[i] = tape[i]
        BY <3>1, <1>1 DEF TypeOK, Printed, Now
      <3> QED BY <3>1, <3>2, <1>1, BarPrices DEF Lowest, Printed, Smaller
    <2> QED BY <2>1, <2>2
  <1>5. \E i \in r..n : Printed(i)' /\ tape'[i].low = Smaller(l, b.low)
    BY <1>3 DEF Smaller
  <1> QED BY <1>4, <1>5 DEF Lowest, Printed

(* The first return to the level begins the wait for the confirmation.      *)
LEMMA ReturnStep ==
  ASSUME Inv, NEW b \in Bar, Return(b)
  PROVE  Inv'
  <1>0. PICK n \in Nat \ {0} : n = Now + 1
    BY Pursued DEF Return
  <1>1. /\ Pursues(b) /\ ~Fails(b) /\ st.retest = 0 /\ Touches(b)
        /\ st' = [st EXCEPT !.retest = n, !.low = b.low, !.why = "wait_confirmation"]
    BY <1>0 DEF Return
  <1>2. /\ Closes(b) /\ b \in Bar \union {NoBar} /\ b # NoBar /\ b.low \in Nat
        /\ n = Now + 1 /\ Now \in Nat /\ Impulse /\ ~Ready
    BY <1>0, <1>1, Pursued
  <1>3. PICK s \in State : s = st
    BY DEF Inv, TypeOK
  <1>4. /\ st'.breakout = s.breakout /\ st'.retest = n /\ st'.peak = s.peak
        /\ st'.low = b.low /\ st'.plan = NoPlan /\ st'.why = "wait_confirmation"
        /\ st' \in State
    <2>1. s.plan = NoPlan /\ "wait_confirmation" \in Reason
      BY <1>2, <1>3 DEF Ready, Reason
    <2> QED BY <2>1, <1>1, <1>2, <1>3 DEF State
  <1>5. /\ Now' = n /\ tape'[n] = b /\ \A i \in 1..Now : tape'[i] = tape[i]
        /\ after' = after /\ after \in Nat /\ TypeOK' /\ TypeOK /\ s.breakout \in Nat
    BY <1>0, <1>2, <1>3, <1>4, Grows DEF Inv
  <1>6. Pattern(s.breakout, n, n)'
    BY <1>1, <1>2, <1>3, <1>5 DEF Impulse, Pattern, Printed
  <1>7. Highest(s.peak, s.breakout, Now)
    BY <1>2, <1>3 DEF Impulse
  <1>8. Waiting'
    <2>1. /\ \E k \in s.breakout..Now : Printed(k)' /\ tape'[k].high = s.peak
          /\ \A k \in s.breakout..Now : Printed(k)' => tape'[k].high <= s.peak
      BY <1>7, <1>2, <1>3, <1>5 DEF Impulse, Highest, Printed
    <2>2. Highest(st.peak, st.breakout, st.retest - 1)'
      BY <2>1, <1>2, <1>4, <1>5 DEF Highest, Printed
    <2>3. Lowest(st.low, st.retest, Now)'
      BY <1>2, <1>4, <1>5 DEF Lowest, Printed
    <2> QED BY <2>2, <2>3, <1>4, <1>5, <1>6 DEF Waiting
  <1>9. s.breakout # 0 /\ n # 0
    BY <1>2, <1>3, <1>5 DEF Impulse
  <1> QED BY <1>4, <1>5, <1>8, <1>9 DEF Inv, Phase, Frozen, SetupIsSound, Ready

(* A bar of the impulse raises its peak.                                    *)
LEMMA ClimbStep ==
  ASSUME Inv, NEW b \in Bar, Climb(b)
  PROVE  Inv'
  <1>0. PICK n \in Nat \ {0} : n = Now + 1
    BY Pursued DEF Climb
  <1>1. /\ Pursues(b) /\ ~Fails(b) /\ st.retest = 0 /\ ~Touches(b)
        /\ st' = [st EXCEPT !.peak = Larger(@, b.high)]
    BY <1>0 DEF Climb
  <1>2. /\ Closes(b) /\ b \in Bar \union {NoBar} /\ b # NoBar /\ b.high \in Nat
        /\ n = Now + 1 /\ Now \in Nat /\ Impulse /\ ~Ready /\ st.breakout # 0
    BY <1>0, <1>1, Pursued
  <1>3. PICK s \in State : s = st
    BY DEF Inv, TypeOK
  <1>4. /\ st'.breakout = s.breakout /\ st'.retest = 0 /\ st'.peak = Larger(s.peak, b.high)
        /\ st'.plan = NoPlan /\ st'.why = s.why /\ st' \in State
        /\ s.peak \in Nat /\ s.breakout \in Nat
    BY <1>1, <1>2, <1>3 DEF State, Ready, Larger
  <1>5. /\ Now' = n /\ tape'[n] = b /\ \A i \in 1..Now : tape'[i] = tape[i]
        /\ after' = after /\ after \in Nat /\ TypeOK' /\ TypeOK
    BY <1>0, <1>2, <1>4, Grows DEF Inv
  <1>6. Highest(Larger(s.peak, b.high), s.breakout, n)'
    <2>1. PICK k \in s.breakout..Now : Printed(k) /\ tape[k].high = s.peak
      BY <1>2, <1>3 DEF Impulse, Highest
    <2>2. \A i \in s.breakout..Now : Printed(i) => tape[i].high <= s.peak
      BY <1>2, <1>3 DEF Impulse, Highest
    <2>3. /\ k \in s.breakout..n /\ n \in s.breakout..n
          /\ Printed(k)' /\ tape'[k].high = s.peak /\ Printed(n)' /\ tape'[n].high = b.high
      BY <2>1, <1>2, <1>3, <1>4, <1>5 DEF Impulse, Printed
    <2>4. \A i \in s.breakout..n : Printed(i)' => tape'[i].high <= Larger(s.peak, b.high)
      <3> SUFFICES ASSUME NEW i \in s.breakout..n, Printed(i)'
                   PROVE  tape'[i].high <= Larger(s.peak, b.high)
        OBVIOUS
      <3>1. CASE i = n
        BY <3>1, <1>2, <1>4, <1>5 DEF Larger
      <3>2. CASE i # n
        <4>1. i \in s.breakout..Now /\ i \in 1..Now
          BY <3>2, <1>2, <1>3, <1>4, <1>5 DEF Impulse
        <4>2. tape[i] \in Bar /\ tape'[i] = tape[i]
          BY <4>1, <1>5 DEF TypeOK, Printed, Now
        <4> QED BY <4>1, <4>2, <2>2, <1>2, <1>4, <1>5, BarPrices DEF Printed, Larger
      <3> QED BY <3>1, <3>2
    <2>5. \E i \in s.breakout..n : Printed(i)' /\ tape'[i].high = Larger(s.peak, b.high)
      BY <2>3 DEF Larger
    <2> QED BY <2>4, <2>5 DEF Highest, Printed
  <1>7. Impulse'
    BY <1>1, <1>2, <1>3, <1>4, <1>5, <1>6 DEF Impulse, Printed
  <1>8. s.why # "wait_breakout" /\ s.why # "wait_confirmation" /\ s.breakout # 0
    BY <1>1, <1>2, <1>3 DEF Inv, Phase
  <1> QED BY <1>4, <1>5, <1>7, <1>8 DEF Inv, Phase, Frozen, SetupIsSound, Ready

(* A bar after the return that does not confirm lowers its low.             *)
LEMMA LingerStep ==
  ASSUME Inv, NEW b \in Bar, Linger(b)
  PROVE  Inv'
  <1>0. PICK n \in Nat \ {0} : n = Now + 1
    BY Pursued DEF Linger, Lingers
  <1>1. /\ Pursues(b) /\ ~Fails(b) /\ st.retest # 0 /\ ~Confirms(b, tape[st.retest])
        /\ st' = [st EXCEPT !.low = Smaller(@, b.low)]
    BY DEF Linger, Lingers
  <1>2. /\ Closes(b) /\ b \in Bar \union {NoBar} /\ b # NoBar /\ b.low \in Nat
        /\ n = Now + 1 /\ Now \in Nat /\ Waiting /\ ~Ready
    BY <1>0, <1>1, Pursued
  <1>3. PICK s \in State : s = st
    BY DEF Inv, TypeOK
  <1>4. /\ st'.breakout = s.breakout /\ st'.retest = s.retest /\ st'.peak = s.peak
        /\ st'.low = Smaller(s.low, b.low) /\ st'.plan = NoPlan /\ st'.why = s.why
        /\ st' \in State
        /\ s.low \in Nat /\ s.breakout \in Nat /\ s.retest \in Nat
    BY <1>1, <1>2, <1>3 DEF State, Ready, Smaller
  <1>5. /\ Now' = n /\ tape'[n] = b /\ \A i \in 1..Now : tape'[i] = tape[i]
        /\ after' = after /\ after \in Nat /\ TypeOK' /\ TypeOK
    BY <1>2, <1>4, Grows DEF Inv
  <1>6. /\ after < s.breakout /\ s.breakout < s.retest /\ s.retest <= Now
        /\ Pattern(s.breakout, s.retest, Now)
        /\ Highest(s.peak, s.breakout, s.retest - 1) /\ Lowest(s.low, s.retest, Now)
    BY <1>2, <1>3 DEF Waiting, Pattern
  <1>7. Pattern(s.breakout, s.retest, n)'
    BY <1>1, <1>2, <1>3, <1>4, <1>5, <1>6 DEF Pattern, Printed
  <1>8. Highest(s.peak, s.breakout, s.retest - 1)'
    BY <1>2, <1>4, <1>5, <1>6, HighestKept
  <1>9. Lowest(Smaller(s.low, b.low), s.retest, n)'
    BY <1>0, <1>2, <1>4, <1>5, <1>6, LowerWith
  <1>10. Waiting'
    BY <1>4, <1>5, <1>7, <1>8, <1>9 DEF Waiting
  <1>11. s.why # "wait_breakout" /\ s.why # "wait_return"
    BY <1>1, <1>3 DEF Inv, Phase
  <1> QED BY <1>4, <1>5, <1>6, <1>10, <1>11 DEF Inv, Phase, Frozen, SetupIsSound, Ready

(* A confirmation not worth its risk starts over.                           *)
LEMMA RejectStep ==
  ASSUME Inv, NEW b \in Bar, Reject(b)
  PROVE  Inv'
  BY StartsOver, Pursued DEF Reject, Lingers

(* A plan that is touched or too old starts over.                           *)
LEMMA LapseStep ==
  ASSUME Inv, NEW b \in Bar, Lapse(b)
  PROVE  Inv'
  BY StartsOver DEF Lapse, Counts

(* A bar that closes through the level gives the breakout up.               *)
LEMMA FailStep ==
  ASSUME Inv, NEW b \in Bar, Fail(b)
  PROVE  Inv'
  BY StartsOver, Pursued DEF Fail

(* What the frozen geometry is made of.                                     *)
LEMMA GeometryOf ==
  ASSUME NEW b \in Bar, NEW n \in Nat, NEW s \in State, pdh \in Nat
  PROVE  /\ Geometry(b, n, s) \in Plan
         /\ Geometry(b, n, s).at = n /\ Geometry(b, n, s).breakout = s.breakout
         /\ Geometry(b, n, s).retest = s.retest /\ Geometry(b, n, s).floor = EntryFloor
         /\ Geometry(b, n, s).stop = FloorCent(Smaller(s.low, b.low) - Buffer)
         /\ Geometry(b, n, s).target = Target(b, s.peak)
         /\ Geometry(b, n, s).ceiling = EntryCeiling(b)
         /\ Geometry(b, n, s).until = Until(n)
         /\ Target(b, s.peak) \in {FloorCent(s.peak), FloorCent(pdh)}
         /\ Target(b, s.peak) <= s.peak
         /\ EntryFloor < pdh /\ b.close <= pdh => Target(b, s.peak) <= pdh
  <1>1. /\ s.peak \in Nat /\ s.low \in Nat /\ s.breakout \in Nat /\ s.retest \in Nat
        /\ b.close \in Nat /\ b.low \in Nat
    BY BarPrices DEF State
  <1>2. /\ FloorCent(s.peak) \in Nat /\ FloorCent(s.peak) <= s.peak
        /\ FloorCent(pdh) \in Nat /\ FloorCent(pdh) <= pdh
    BY <1>1, Rounding
  <1>3. /\ Target(b, s.peak) \in {FloorCent(s.peak), FloorCent(pdh)}
        /\ Target(b, s.peak) \in Nat /\ Target(b, s.peak) <= s.peak
    BY <1>1, <1>2 DEF Target
  <1>4. EntryFloor \in Nat
    BY Rounding, PriceAssumption DEF EntryFloor
  <1>5. EntryFloor < pdh /\ b.close <= pdh => Target(b, s.peak) <= pdh
    BY <1>1, <1>2, <1>4 DEF Target
  <1>6. EntryCeiling(b) \in Nat
    <2>1. Smaller(b.close, Level + Band) \in Nat
      BY <1>1, PriceAssumption DEF Smaller
    <2> QED BY <2>1, Rounding DEF EntryCeiling
  <1>7. FloorCent(Smaller(s.low, b.low) - Buffer) \in Int
    <2>1. Smaller(s.low, b.low) - Buffer \in Int
      BY <1>1, PriceAssumption DEF Smaller
    <2> QED BY <2>1, Rounding
  <1>8. Until(n) \in Nat
    BY TimeAssumption DEF Until, Smaller
  <1> QED BY <1>1, <1>3, <1>4, <1>5, <1>6, <1>7, <1>8 DEF Geometry, Plan

(* A confirmation makes a plan of the return.                               *)
LEMMA ConfirmStep ==
  ASSUME Inv, NEW b \in Bar, Confirm(b)
  PROVE  Inv'
  <1>0. PICK n \in Nat \ {0} : n = Now + 1
    BY Pursued DEF Confirm, Lingers
  <1>1. /\ Pursues(b) /\ ~Fails(b) /\ st.retest # 0 /\ Confirms(b, tape[st.retest])
        /\ Actionable(b, Geometry(b, n, st))
        /\ st' = [st EXCEPT !.low = Smaller(@, b.low), !.plan = Geometry(b, n, st)]
    BY <1>0 DEF Confirm, Lingers
  <1>2. /\ Closes(b) /\ b \in Bar \union {NoBar} /\ b # NoBar /\ b.low \in Nat
        /\ n = Now + 1 /\ Now \in Nat /\ Waiting /\ ~Ready /\ n <= st.breakout + Timeout
    BY <1>0, <1>1, Pursued
  <1>3. PICK s \in State : s = st
    BY DEF Inv, TypeOK
  <1>4. PICK p \in Plan : p = Geometry(b, n, s)
    BY <1>2, <1>3, GeometryOf, Longer DEF Inv
  <1>5. /\ st'.breakout = s.breakout /\ st'.retest = s.retest /\ st'.peak = s.peak
        /\ st'.plan = p /\ st'.why = s.why /\ st' \in State
        /\ s.low \in Nat /\ s.breakout \in Nat /\ s.retest \in Nat /\ s.peak \in Nat
    BY <1>1, <1>2, <1>3, <1>4 DEF State, Smaller
  <1>6. /\ Now' = n /\ tape'[n] = b /\ \A i \in 1..Now : tape'[i] = tape[i]
        /\ after' = after /\ after \in Nat /\ TypeOK' /\ TypeOK
        /\ pdh' = pdh /\ pdh \in Nat
    BY <1>2, <1>5, Grows DEF Inv
  <1>7. /\ after < s.breakout /\ s.breakout < s.retest /\ s.retest <= Now
        /\ Pattern(s.breakout, s.retest, Now)
        /\ Highest(s.peak, s.breakout, s.retest - 1) /\ Lowest(s.low, s.retest, Now)
    BY <1>2, <1>3 DEF Waiting, Pattern
  <1>8. /\ p.at = n /\ p.breakout = s.breakout /\ p.retest = s.retest /\ p.floor = EntryFloor
        /\ p.stop = FloorCent(Smaller(s.low, b.low) - Buffer)
        /\ p.target \in {FloorCent(s.peak), FloorCent(pdh)} /\ p.target <= s.peak
        /\ p.floor < pdh /\ b.close <= pdh => p.target <= pdh
        /\ p.until = Until(n)
    BY <1>4, <1>6, GeometryOf
  <1>9. Pattern(s.breakout, s.retest, n - 1)'
    <2>1. PICK m \in Nat : m = Now /\ m = n - 1
      BY <1>2
    <2>2. Pattern(s.breakout, s.retest, m)'
      BY <2>1, <1>2, <1>5, <1>6, <1>7, PatternKept
    <2> QED BY <2>1, <2>2
  <1>10. Highest(s.peak, s.breakout, s.retest - 1)'
    BY <1>2, <1>5, <1>6, <1>7, HighestKept
  <1>11. Lowest(Smaller(s.low, b.low), s.retest, n)'
    BY <1>0, <1>2, <1>5, <1>6, <1>7, LowerWith
  <1>12. Reachable(p)'
    <2>1. PICK k \in s.breakout .. s.retest - 1 : Printed(k)' /\ tape'[k].high = s.peak
      BY <1>10 DEF Highest
    <2>2. k \in Windows'
      BY <2>1, <1>2, <1>5, <1>6, <1>7 DEF Windows
    <2> QED BY <2>1, <2>2, <1>6, <1>8, <1>10 DEF Reachable, FloorCent
  <1>13. Protected(p)'
    <2>1. PICK k \in s.retest .. n : Printed(k)' /\ tape'[k].low = Smaller(s.low, b.low)
      BY <1>11 DEF Lowest
    <2>2. k \in Windows'
      BY <2>1, <1>2, <1>5, <1>6, <1>7 DEF Windows
    <2> QED BY <2>1, <2>2, <1>6, <1>8, <1>11 DEF Protected
  <1>14. SetupIsSound'
    <2>1. /\ p.retest < p.at /\ p.at <= Now' /\ p.at <= p.breakout + Timeout
          /\ Pattern(p.breakout, p.retest, p.at - 1)'
          /\ Printed(p.at)' /\ tape'[p.at] = b /\ tape'[p.retest] = tape[st.retest]
      BY <1>2, <1>3, <1>5, <1>6, <1>7, <1>8, <1>9 DEF Printed
    <2>2. \A i \in p.at + 1 .. Now' : FALSE
      BY <1>2, <1>6, <1>8
    <2> QED BY <2>1, <2>2, <1>1, <1>3, <1>4, <1>5, <1>12, <1>13 DEF SetupIsSound
  <1>15. p # NoPlan
    BY <1>8 DEF NoPlan
  <1>16. s.why # "wait_breakout" /\ s.why # "wait_return" /\ s.breakout # 0 /\ s.retest # 0
    BY <1>1, <1>3, <1>6, <1>7 DEF Inv, Phase
  <1>17. Frozen'
    BY <1>5, <1>8 DEF Frozen
  <1> QED BY <1>5, <1>6, <1>14, <1>15, <1>16, <1>17 DEF Inv, Phase, Ready

-----------------------------------------------------------------------------
(* The theorems.                                                             *)

(* Nothing is sought before the first bar.                                  *)
LEMMA InitInv == Init => Inv
  <1> SUFFICES ASSUME Init PROVE Inv
    OBVIOUS
  <1>1. Now = 0 /\ st = Seeking("wait_breakout") /\ st.plan = NoPlan /\ st \in State
    BY SeekingType DEF Init, Now, Reason
  <1>2. TypeOK
    BY <1>1, TimeAssumption DEF Init, TypeOK, Now
  <1>3. after \in Nat
    BY TimeAssumption DEF Init
  <1> QED BY <1>1, <1>2, <1>3 DEF Inv, Phase, Frozen, SetupIsSound, Ready, Seeking

(* Every step of the replay keeps the invariant.                            *)
LEMMA NextInv == Inv /\ [Next]_vars => Inv'
  <1> SUFFICES ASSUME Inv, [Next]_vars PROVE Inv'
    OBVIOUS
  <1>1. CASE Silent
    BY <1>1, SilentStep
  <1>2. ASSUME NEW b \in Bar, Replay(b) PROVE Inv'
    BY <1>2, RefusedStep, HoldStep, LapseStep, BreakoutStep, PassStep, FailStep, ReturnStep,
       ClimbStep, LingerStep, RejectStep, ConfirmStep DEF Replay
  <1>3. CASE UNCHANGED vars
    BY <1>3 DEF vars, Inv, TypeOK, Phase, Frozen, SetupIsSound, Ready, Impulse, Waiting, Pattern,
                Highest, Lowest, Reachable, Protected, Printed, Now, Windows, Untouched,
                FloorCent, Target
  <1> QED BY <1>1, <1>2, <1>3 DEF Next

(* The inductive invariant of the replay (retest.rebuild): what the setup   *)
(* says of the tape it has seen.                                            *)
THEOREM Invariance == Spec => []Inv
  BY InitInv, NextInv, PTL DEF Spec

(* Whatever the market prints, in sessions of any length: a ready plan is   *)
(* the first confirmation, in time, of a breakout's first return, with its  *)
(* stop below all prices since and its target seen before and not since     *)
(* (retest.rebuild).                                                        *)
THEOREM SetupSound == Spec => []SetupIsSound
  <1>1. Inv => SetupIsSound
    BY DEF Inv
  <1> QED BY <1>1, Invariance, PTL

(* The phase that is shown is the one the bars are in.                      *)
THEOREM PhaseTrue == Spec => []PhaseIsTrue
  <1>1. Inv => PhaseIsTrue
    <2> SUFFICES ASSUME Inv PROVE PhaseIsTrue
      OBVIOUS
    <2>1. /\ after \in Nat /\ Now \in Nat /\ st.breakout \in Nat
      BY TimeAssumption DEF Inv, TypeOK, State, Now
    <2> QED BY <2>1 DEF Inv, Phase, PhaseIsTrue, Impulse, Waiting
  <1> QED BY <1>1, Invariance, PTL

(* No confirmed plan is one that OrbPlan's validator or check_entry would   *)
(* refuse as invalid, for any cutoff and any rounding.                      *)
THEOREM Accepted == Spec => []ConfirmedIsAccepted
  <1>1. Inv => ConfirmedIsAccepted
    <2> SUFFICES ASSUME Inv, NEW covered \in BOOLEAN, Confirmed(covered)
                 PROVE  LET p == st.plan IN
                        /\ 0 < p.stop /\ p.stop < p.floor /\ p.floor <= p.ceiling
                        /\ Level < p.floor /\ p.at <= Now /\ p.ceiling < p.target
                        /\ p.at < p.until /\ p.until <= Deadline /\ p.until - p.at <= Ttl
      BY DEF ConfirmedIsAccepted
    <2>1. PICK p \in Plan : p = st.plan
      BY DEF Inv, TypeOK, State
    <2>2. /\ Ready /\ Now < p.until /\ Now \in Nat
      BY <2>1 DEF Confirmed, Inv, TypeOK, Now
    <2>3. /\ p.at <= Now /\ Actionable(tape[p.at], p) /\ p.floor = EntryFloor
          /\ p.until = Until(p.at)
      BY <2>1, <2>2 DEF Inv, SetupIsSound, Frozen
    <2>4. Level < EntryFloor
      BY Rounding, PriceAssumption DEF EntryFloor
    <2>5. p.until <= Deadline /\ p.until - p.at <= Ttl
      BY <2>3, TimeAssumption DEF Until, Smaller, Plan
    <2> QED BY <2>1, <2>2, <2>3, <2>4, <2>5 DEF Actionable, Plan
  <1> QED BY <1>1, Invariance, PTL

=============================================================================
