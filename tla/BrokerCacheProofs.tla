------------------------- MODULE BrokerCacheProofs -------------------------
(***************************************************************************)
(* How old a listing of the adapter can be, for every lifetime, any number  *)
(* of readers and any placements beside them.                               *)
(***************************************************************************)
EXTENDS BrokerCache, TLAPS

USE TtlAssumption DEF Entry, Op, Never, Mark, Listing, Absent, Fresh

(* The worse of two marks is one of them.                                   *)
LEMMA WorseIsMark == \A x, y \in Mark : Worse(x, y) \in Mark
  BY DEF Worse

(* A call has a fresh entry and one to fall back on.                        *)
LEMMA EntryOfOp ==
  \A o \in Op : /\ Main(o) \in Entry /\ Stale(o) \in Entry
                /\ Entries(o) = {Main(o), Stale(o)}
                /\ (o = "positions") = (Main(o) \in Entries("positions"))
                /\ (o = "positions") = (Stale(o) \in Entries("positions"))
                /\ Main(o) # "raw" /\ Stale(o) # "raw"
  BY DEF Main, Stale, Entries

(* No listing is a listing.                                                 *)
LEMMA AbsentListed == Absent \in Listing
  OBVIOUS

(* What a store under the names of one call leaves in the cache. *)
LEMMA PutType ==
  ASSUME NEW es, NEW l \in Listing, NEW d \in [Entry -> Listing]
  PROVE  /\ Put(es, l, d) \in [Entry -> Listing]
         /\ \A e \in Entry : e \notin es => Put(es, l, d)[e] = d[e]
         /\ \A e \in Entry : e \in es =>
              /\ Put(es, l, d)[e].age = 0
              /\ Put(es, l, d)[e].lag = l.lag
  BY DEF Put

(* An empty cache is sound.                                                 *)
LEMMA CacheInit == Init => CacheInv
<1> SUFFICES ASSUME Init PROVE CacheInv
  OBVIOUS
<1>1. TypeOK
  BY AbsentListed DEF Init, TypeOK
<1>2. \A e \in Entry : cache[e] = Absent
  BY DEF Init
<1>3. LagIsBounded
  BY <1>2 DEF LagIsBounded
<1>4. FallbackDiesToo
  BY <1>2, EntryOfOp DEF FallbackDiesToo
<1> QED BY <1>1, <1>3, <1>4 DEF CacheInv, ServedIsRecent, Init

(* A fresh entry lags behind the venue by its bound at most.                *)
LEMMA FreshLag ==
  ASSUME CacheInv, NEW e \in Entry, Fresh(e)
  PROVE  /\ cache[e] \in Listing
         /\ cache[e].lag <= 2 * Ttl
         /\ e \notin Entries("positions") => cache[e].lag <= Ttl
<1>1. cache[e] \in Listing /\ cache[e].age \in Nat /\ cache[e].lag \in Nat
  BY DEF CacheInv, TypeOK
<1>2. cache[e].lag <= cache[e].age + (IF e \in Entries("positions") THEN Ttl ELSE 0)
  BY DEF CacheInv, LagIsBounded
<1> QED BY <1>1, <1>2

(* A call answered from the cache: the entry itself or the raw rows.         *)
LEMMA ServeKeeps ==
  ASSUME CacheInv, NEW c \in Client,
         NEW o \in Op, Hit(c, o) \/ Derive(c) \/ FallBack(c)
  PROVE  CacheInv'
<1>1. TypeOK /\ LagIsBounded /\ FallbackDiesToo /\ ServedIsRecent
  BY DEF CacheInv
<1>2. CASE Hit(c, o)
  <2>1. Main(o) \in Entry /\ Fresh(Main(o))
    BY <1>2, EntryOfOp DEF Hit
  <2>2. cache[Main(o)] \in Listing /\ cache[Main(o)].lag <= 2 * Ttl
    BY <2>1, FreshLag
  <2>3. TypeOK'
    BY <1>1, <1>2, <2>2 DEF Hit, Returned, TypeOK
  <2>4. LagIsBounded' /\ FallbackDiesToo'
    BY <1>1, <1>2 DEF Hit, LagIsBounded, FallbackDiesToo
  <2>5. ServedIsRecent'
    BY <1>1, <1>2, <2>2 DEF Hit, Returned, ServedIsRecent, TypeOK
  <2> QED BY <2>3, <2>4, <2>5 DEF CacheInv
<1>3. CASE FallBack(c)
  <2>1. op[c] \in Op /\ Stale(op[c]) \in Entry /\ Fresh(Stale(op[c]))
    BY <1>1, <1>3, EntryOfOp DEF FallBack, TypeOK
  <2>2. cache[Stale(op[c])] \in Listing /\ cache[Stale(op[c])].lag <= 2 * Ttl
    BY <2>1, FreshLag
  <2>3. TypeOK'
    BY <1>1, <1>3, <2>2 DEF FallBack, Returned, TypeOK
  <2>4. LagIsBounded' /\ FallbackDiesToo'
    BY <1>1, <1>3 DEF FallBack, LagIsBounded, FallbackDiesToo
  <2>5. ServedIsRecent'
    BY <1>1, <1>3, <2>2 DEF FallBack, Returned, ServedIsRecent, TypeOK
  <2> QED BY <2>3, <2>4, <2>5 DEF CacheInv
<1>4. CASE Derive(c)
  <2>1. "raw" \in Entry /\ Fresh("raw") /\ "raw" \notin Entries("positions")
    BY <1>4 DEF Derive, Entries
  <2>2. cache["raw"] \in Listing /\ cache["raw"].lag <= Ttl
    BY <2>1, FreshLag
  <2>3. /\ cache' \in [Entry -> Listing]
        /\ \A e \in Entry : e \notin Entries("positions") => cache'[e] = cache[e]
        /\ \A e \in Entry : e \in Entries("positions") =>
             cache'[e].age = 0 /\ cache'[e].lag = cache["raw"].lag
    <3> HIDE DEF Listing, Entry
    <3>1. cache' = Put(Entries("positions"), cache["raw"], cache)
      BY <1>4 DEF Derive
    <3>2. cache \in [Entry -> Listing]
      BY <1>1 DEF TypeOK
    <3>3. /\ Put(Entries("positions"), cache["raw"], cache) \in [Entry -> Listing]
          /\ \A e \in Entry : e \notin Entries("positions") =>
               Put(Entries("positions"), cache["raw"], cache)[e] = cache[e]
          /\ \A e \in Entry : e \in Entries("positions") =>
               /\ Put(Entries("positions"), cache["raw"], cache)[e].age = 0
               /\ Put(Entries("positions"), cache["raw"], cache)[e].lag = cache["raw"].lag
      <4>1. ASSUME NEW l \in Listing
            PROVE  /\ Put(Entries("positions"), l, cache) \in [Entry -> Listing]
                   /\ \A e \in Entry : e \notin Entries("positions") =>
                        Put(Entries("positions"), l, cache)[e] = cache[e]
                   /\ \A e \in Entry : e \in Entries("positions") =>
                        /\ Put(Entries("positions"), l, cache)[e].age = 0
                        /\ Put(Entries("positions"), l, cache)[e].lag = l.lag
        BY <3>2, PutType
      <4> QED BY <2>2, <4>1
    <3> QED BY <3>1, <3>3
  <2>4. TypeOK'
    BY <1>1, <1>4, <2>2, <2>3 DEF Derive, Returned, TypeOK
  <2>5. LagIsBounded'
    <3> SUFFICES ASSUME NEW e \in Entry, Fresh(e)'
                 PROVE  cache'[e].lag <= cache'[e].age
                          + (IF e \in Entries("positions") THEN Ttl ELSE 0)
      BY DEF LagIsBounded, Entries
    <3>1. CASE e \in Entries("positions")
      BY <2>2, <2>3, <3>1
    <3>2. CASE e \notin Entries("positions")
      BY <1>1, <2>3, <3>2 DEF LagIsBounded
    <3> QED BY <3>1, <3>2
  <2>6. FallbackDiesToo'
    BY <1>1, <2>3, EntryOfOp DEF FallbackDiesToo, Main, Stale, Entries
  <2>7. ServedIsRecent'
    BY <1>1, <1>4, <2>2 DEF Derive, Returned, ServedIsRecent, TypeOK
  <2> QED BY <2>4, <2>5, <2>6, <2>7 DEF CacheInv
<1> QED BY <1>2, <1>3, <1>4

(* A call answered by the venue: its entries, and the raw rows, are as new   *)
(* as the answer.                                                            *)
LEMMA StoreKeeps ==
  ASSUME CacheInv, NEW c \in Client, Store(c)
  PROVE  CacheInv'
<1>1. TypeOK /\ LagIsBounded /\ FallbackDiesToo /\ ServedIsRecent
  BY DEF CacheInv
<1>2. op[c] \in Op /\ got[c] \in Mark /\ acct[c] \in Mark
  BY <1>1 DEF TypeOK
<1>3. Listed(c) \in Listing /\ Listed(c).lag = 0
  BY <1>2 DEF Listed
<1>4. Whole(c) \in Listing /\ Whole(c).lag = 0
  BY <1>2, <1>3, WorseIsMark DEF Whole, Listed
<1> DEFINE rows == IF op[c] = "orders" THEN {} ELSE {"raw"}
           mid  == Put(rows, Listed(c), cache)
<1>5. /\ mid \in [Entry -> Listing]
      /\ \A e \in Entry : e \notin rows => mid[e] = cache[e]
      /\ \A e \in Entry : e \in rows => mid[e].age = 0 /\ mid[e].lag = 0
  <2> HIDE DEF Listing, Entry
  <2>1. cache \in [Entry -> Listing]
    BY <1>1 DEF TypeOK
  <2> QED BY <2>1, <1>3, PutType
<1>6. cache' = Put(Entries(op[c]), Whole(c), mid)
  BY DEF Store
<1> HIDE DEF mid
<1>7. /\ cache' \in [Entry -> Listing]
      /\ \A e \in Entry : e \notin Entries(op[c]) => cache'[e] = mid[e]
      /\ \A e \in Entry : e \in Entries(op[c]) => cache'[e].age = 0 /\ cache'[e].lag = 0
  <2> HIDE DEF Listing, Entry
  <2> QED BY <1>4, <1>5, <1>6, PutType
<1>8. \A e \in Entry : \/ cache'[e] = cache[e]
                       \/ cache'[e].age = 0 /\ cache'[e].lag = 0
  BY <1>5, <1>7
<1>9. TypeOK'
  BY <1>1, <1>4, <1>7 DEF Store, Returned, TypeOK
<1>10. LagIsBounded'
  <2> SUFFICES ASSUME NEW e \in Entry, Fresh(e)'
               PROVE  cache'[e].lag <= cache'[e].age
                        + (IF e \in Entries("positions") THEN Ttl ELSE 0)
    BY DEF LagIsBounded, Entries
  <2> QED BY <1>1, <1>8 DEF LagIsBounded
<1>11. FallbackDiesToo'
  <2> SUFFICES ASSUME NEW o \in Op PROVE cache'[Main(o)].age = cache'[Stale(o)].age
    BY DEF FallbackDiesToo, Main, Stale
  <2>1. Main(o) \in Entries(op[c]) <=> Stale(o) \in Entries(op[c])
    BY <1>2 DEF Main, Stale, Entries
  <2>2. Main(o) \in Entry \ {"raw"} /\ Stale(o) \in Entry \ {"raw"}
    BY EntryOfOp
  <2>3. mid[Main(o)] = cache[Main(o)] /\ mid[Stale(o)] = cache[Stale(o)]
    BY <1>5, <2>2
  <2> QED BY <1>1, <1>7, <2>1, <2>2, <2>3 DEF FallbackDiesToo
<1>12. ServedIsRecent'
  BY <1>1, <1>4 DEF Store, Returned, ServedIsRecent, TypeOK
<1> QED BY <1>9, <1>10, <1>11, <1>12 DEF CacheInv

(* Steps of a call that leave the cache as it is.                            *)
LEMMA CallKeeps ==
  ASSUME CacheInv, NEW c \in Client, NEW o \in Op,
         Ask(c, o) \/ Account(c) \/ Answer(c) \/ Raise(c) \/ Leave(c)
  PROVE  CacheInv'
<1>1. TypeOK /\ LagIsBounded /\ FallbackDiesToo /\ ServedIsRecent
  BY DEF CacheInv
<1>2. UNCHANGED cache
  BY DEF Ask, Account, Answer, Raise, Leave
<1>3. TypeOK'
  <2> USE <1>1 DEF TypeOK
  <2>1. CASE Ask(c, o)
    BY <2>1 DEF Ask
  <2>2. CASE Account(c)
    BY <2>2 DEF Account
  <2>3. CASE Answer(c)
    BY <2>3 DEF Answer
  <2>4. CASE Raise(c)
    BY <2>4 DEF Raise
  <2>5. CASE Leave(c)
    <3> HIDE DEF Listing, Absent
    <3> QED BY <2>5, AbsentListed DEF Leave
  <2> QED BY <2>1, <2>2, <2>3, <2>4, <2>5
<1>4. LagIsBounded' /\ FallbackDiesToo'
  BY <1>1, <1>2 DEF LagIsBounded, FallbackDiesToo
<1>5. ServedIsRecent'
  BY <1>1, SMTT(30) DEF TypeOK, ServedIsRecent, Ask, Account, Answer, Raise, Leave
<1> QED BY <1>3, <1>4, <1>5 DEF CacheInv

(* Marks change, ages do not. *)
LEMMA OvertakenType ==
  ASSUME CacheInv, NEW from, NEW to \in Mark, NEW d \in [Entry -> Listing],
         Overtaken(from, to, d)
  PROVE  /\ cache' \in [Entry -> Listing]
         /\ acct' \in [Client -> Mark] /\ got' \in [Client -> Mark]
         /\ \A e \in Entry : cache'[e].age = d[e].age /\ cache'[e].lag = d[e].lag
<1>1. acct \in [Client -> Mark] /\ got \in [Client -> Mark]
  BY DEF CacheInv, TypeOK
<1>2. acct' \in [Client -> Mark] /\ got' \in [Client -> Mark]
  BY <1>1 DEF Overtaken, Later
<1>3. \A x \in Mark : Later(from, to, x) \in Mark
  BY DEF Later
<1>4. \A e \in Entry : /\ cache'[e] \in Listing
                       /\ cache'[e].age = d[e].age /\ cache'[e].lag = d[e].lag
  BY <1>3 DEF Overtaken
<1>5. cache' \in [Entry -> Listing]
  BY <1>4 DEF Overtaken
<1> QED BY <1>2, <1>4, <1>5

(* A mutation of an order keeps the bounds.                                 *)
LEMMA MutationKeeps ==
  ASSUME CacheInv, NEW m \in Mutator, Post(m) \/ Effect(m) \/ Confirm(m) \/ Unreachable(m)
  PROVE  CacheInv'
<1>1. TypeOK /\ LagIsBounded /\ FallbackDiesToo /\ ServedIsRecent
  BY DEF CacheInv
<1>2. CASE Post(m) \/ Unreachable(m)
  BY <1>1, <1>2 DEF CacheInv, TypeOK, LagIsBounded, FallbackDiesToo, ServedIsRecent,
                    Post, Unreachable
<1>3. CASE Effect(m)
  <2>1. /\ cache' \in [Entry -> Listing]
        /\ acct' \in [Client -> Mark] /\ got' \in [Client -> Mark]
        /\ \A e \in Entry : cache'[e].age = cache[e].age /\ cache'[e].lag = cache[e].lag
    <3> HIDE DEF Listing, Entry
    <3>1. cache \in [Entry -> Listing] /\ "unsure" \in Mark
      BY <1>1 DEF TypeOK
    <3>2. Overtaken("new", "unsure", cache)
      BY <1>3 DEF Effect
    <3> QED BY <3>1, <3>2, OvertakenType
  <2>2. TypeOK'
    BY <1>1, <1>3, <2>1 DEF TypeOK, Effect
  <2>3. LagIsBounded'
    BY <1>1, <2>1 DEF LagIsBounded, Entries
  <2>4. FallbackDiesToo'
    BY <1>1, <2>1, EntryOfOp DEF FallbackDiesToo, Main, Stale
  <2>5. ServedIsRecent'
    BY <1>1, <1>3 DEF ServedIsRecent, Effect
  <2> QED BY <2>2, <2>3, <2>4, <2>5 DEF CacheInv
<1>4. CASE Confirm(m)
  <2>1. Cleared \in [Entry -> Listing] /\ \A e \in Entry : Cleared[e] = Absent
    BY AbsentListed DEF Cleared
  <2>2. /\ cache' \in [Entry -> Listing]
        /\ acct' \in [Client -> Mark] /\ got' \in [Client -> Mark]
        /\ \A e \in Entry : cache'[e].age = Never
    <3> HIDE DEF Listing, Entry
    <3>1. Overtaken("unsure", "missed", Cleared) /\ "missed" \in Mark
      BY <1>4 DEF Confirm
    <3>2. /\ cache' \in [Entry -> Listing]
          /\ acct' \in [Client -> Mark] /\ got' \in [Client -> Mark]
          /\ \A e \in Entry : cache'[e].age = Cleared[e].age
      BY <2>1, <3>1, OvertakenType
    <3> QED BY <2>1, <3>2
  <2>3. TypeOK'
    BY <1>1, <1>4, <2>2 DEF TypeOK, Confirm
  <2>4. LagIsBounded'
    BY <2>2 DEF LagIsBounded
  <2>5. FallbackDiesToo'
    BY <2>2, EntryOfOp DEF FallbackDiesToo, Main, Stale
  <2>6. ServedIsRecent'
    BY <1>1, <1>4 DEF ServedIsRecent, Confirm
  <2> QED BY <2>3, <2>4, <2>5, <2>6 DEF CacheInv
<1> QED BY <1>2, <1>3, <1>4

(* Time ages entries and the lag of what they hold alike.                   *)
LEMMA TickKeeps == ASSUME CacheInv, Tick PROVE CacheInv'
<1>1. TypeOK /\ LagIsBounded /\ FallbackDiesToo /\ ServedIsRecent
  BY DEF CacheInv
<1>2. ASSUME NEW e \in Entry
      PROVE  /\ cache'[e] \in Listing
             /\ cache[e].age < Ttl =>
                  /\ cache'[e].age = cache[e].age + 1
                  /\ cache'[e].lag <= cache[e].lag + 1
             /\ cache[e].age = Ttl => cache'[e].age = Ttl + 1
             /\ cache[e].age > Ttl => cache'[e] = cache[e]
  <2>1. cache[e] \in Listing /\ cache[e].age \in 0 .. Never /\ cache[e].lag \in 0 .. 2 * Ttl + 1
    BY <1>1 DEF TypeOK
  <2>2. CASE cache[e].age < Ttl
    <3>1. cache'[e] = [cache[e] EXCEPT !.age = @ + 1,
                                       !.lag = IF @ <= 2 * Ttl THEN @ + 1 ELSE @]
      BY <2>1, <2>2 DEF Tick
    <3>2. /\ cache'[e].age = cache[e].age + 1
          /\ cache'[e].lag = IF cache[e].lag <= 2 * Ttl THEN cache[e].lag + 1 ELSE cache[e].lag
      BY <2>1, <3>1
    <3>3. cache'[e] \in Listing
      <4>1. cache'[e].age \in 0 .. Never /\ cache'[e].lag \in 0 .. 2 * Ttl + 1
        BY <2>1, <2>2, <3>2
      <4>2. cache'[e] = [age |-> cache'[e].age, lag |-> cache'[e].lag, mut |-> cache[e].mut]
        BY <2>1, <3>1
      <4> QED BY <2>1, <4>1, <4>2
    <3> QED BY <2>1, <2>2, <3>2, <3>3
  <2>3. CASE cache[e].age = Ttl
    <3>1. cache'[e] = [Absent EXCEPT !.age = Ttl + 1]
      BY <2>1, <2>3 DEF Tick
    <3> QED BY <2>1, <2>3, <3>1
  <2>4. CASE cache[e].age > Ttl
    <3>1. cache'[e] = cache[e]
      BY <2>1, <2>4 DEF Tick
    <3> QED BY <2>1, <2>4, <3>1
  <2> QED BY <2>1, <2>2, <2>3, <2>4
<1>3. \A e \in Entry : cache[e] \in Listing
  BY <1>1 DEF TypeOK
<1>4. TypeOK'
  <2>1. cache' \in [Entry -> Listing]
    BY <1>2 DEF Tick
  <2> QED BY <1>1, <2>1 DEF TypeOK, Tick
<1>5. LagIsBounded'
  <2> SUFFICES ASSUME NEW e \in Entry, Fresh(e)'
               PROVE  cache'[e].lag <= cache'[e].age
                        + (IF e \in Entries("positions") THEN Ttl ELSE 0)
    BY DEF LagIsBounded, Entries
  <2>1. cache[e] \in Listing /\ cache'[e] \in Listing
    BY <1>2, <1>3
  <2>2. cache[e].age < Ttl
    BY <1>2, <2>1
  <2>3. cache[e].lag <= cache[e].age + (IF e \in Entries("positions") THEN Ttl ELSE 0)
    BY <1>1, <2>1, <2>2 DEF LagIsBounded
  <2> QED BY <1>2, <2>1, <2>2, <2>3
<1>6. FallbackDiesToo'
  <2> SUFFICES ASSUME NEW o \in Op PROVE cache'[Main(o)].age = cache'[Stale(o)].age
    BY DEF FallbackDiesToo, Main, Stale
  <2>1. Main(o) \in Entry /\ Stale(o) \in Entry
    BY EntryOfOp
  <2>2. cache[Main(o)].age = cache[Stale(o)].age
    BY <1>1 DEF FallbackDiesToo
  <2>3. cache[Main(o)] \in Listing /\ cache[Stale(o)] \in Listing
    BY <1>3, <2>1
  <2> QED BY <1>2, <2>1, <2>2, <2>3, SMTT(30)
<1>7. ServedIsRecent'
  BY <1>1 DEF ServedIsRecent, Tick
<1> QED BY <1>4, <1>5, <1>6, <1>7 DEF CacheInv

(* Every step keeps the bounds.                                             *)
LEMMA CacheStep == CacheInv /\ [Next]_vars => CacheInv'
<1> SUFFICES ASSUME CacheInv, [Next]_vars PROVE CacheInv'
  OBVIOUS
<1>1. CASE UNCHANGED vars
  BY <1>1 DEF vars, CacheInv, TypeOK, LagIsBounded, FallbackDiesToo, ServedIsRecent
<1>2. "positions" \in Op
  OBVIOUS
<1>3. CASE Next
  BY <1>2, <1>3, ServeKeeps, StoreKeeps, CallKeeps, MutationKeeps, TickKeeps DEF Next
<1> QED BY <1>1, <1>3

(* The cache's inductive invariant, for every lifetime and every interleaving *)
(* of readers and mutations.                                                 *)
THEOREM CacheInvariant == Spec => []CacheInv
  BY CacheInit, CacheStep, PTL DEF Spec

(* Nothing the adapter serves is older than two lifetimes of the cache.      *)
THEOREM NothingOlderThanTwoLifetimes == Spec => []ServedIsRecent
<1>1. CacheInv => ServedIsRecent
  BY DEF CacheInv
<1> QED BY <1>1, CacheInvariant, PTL

-----------------------------------------------------------------------------
(* Nothing the adapter holds, in the cache or on its way to a caller, is     *)
(* from before a mutation its caller knows of, as long as no fetch was under *)
(* way when a mutation returned: the rest of what it held was cleared then.  *)
SeenInv ==
  /\ \A e \in Entry : cache[e].mut = "missed" => overlap
  /\ \A c \in Client : "missed" \in {acct[c], got[c], view[c].mut} => overlap

(* No mutation is hidden at first.                                          *)
LEMMA SeenInit == Init => SeenInv
  BY DEF Init, SeenInv

(* What is stored under the names of a call keeps its mark. *)
LEMMA PutMarks ==
  ASSUME NEW es, NEW l \in Listing, NEW d \in [Entry -> Listing],
         l.mut = "missed" => overlap,
         \A e \in Entry : d[e].mut = "missed" => overlap
  PROVE  \A e \in Entry : Put(es, l, d)[e].mut = "missed" => overlap
  BY DEF Put

(* What reads the cache, or asks the venue, hides no mutation.              *)
LEMMA ReadersKeepSeen ==
  ASSUME CacheInv, SeenInv, NEW c \in Client, NEW o \in Op,
         \/ Hit(c, o) \/ Ask(c, o) \/ FallBack(c)
         \/ Account(c) \/ Answer(c) \/ Raise(c) \/ Leave(c)
  PROVE  SeenInv'
<1> USE DEF SeenInv
<1>1. TypeOK
  BY DEF CacheInv
<1>2. Main(o) \in Entry /\ Stale(op[c]) \in Entry
  BY <1>1, EntryOfOp DEF TypeOK
<1>3. CASE Hit(c, o)
  BY <1>1, <1>2, <1>3 DEF Hit, Returned, TypeOK
<1>4. CASE FallBack(c)
  BY <1>1, <1>2, <1>4 DEF FallBack, Returned, TypeOK
<1>5. CASE Ask(c, o)
  BY <1>5 DEF Ask
<1>6. CASE Account(c)
  BY <1>1, <1>6 DEF Account, TypeOK
<1>7. CASE Answer(c)
  BY <1>1, <1>7 DEF Answer, TypeOK
<1>8. CASE Raise(c)
  BY <1>1, <1>8 DEF Raise, TypeOK
<1>9. CASE Leave(c)
  <2>1. \A d \in Client : view'[d] \in {view[d], Absent}
    BY <1>1, <1>9 DEF Leave, TypeOK
  <2> QED BY <1>9, <2>1 DEF Leave
<1> QED BY <1>3, <1>4, <1>5, <1>6, <1>7, <1>8, <1>9

(* list_positions from the raw rows.                                         *)
LEMMA DeriveKeepsSeen ==
  ASSUME CacheInv, SeenInv, NEW c \in Client, Derive(c)
  PROVE  SeenInv'
<1>1. cache \in [Entry -> Listing] /\ cache["raw"] \in Listing /\ view \in [Client -> Listing]
  BY DEF CacheInv, TypeOK
<1>2. cache["raw"].mut = "missed" => overlap
  BY DEF SeenInv
<1>3. \A e \in Entry : cache'[e].mut = "missed" => overlap
  <2>1. cache' = Put(Entries("positions"), cache["raw"], cache)
    BY DEF Derive
  <2>2. \A e \in Entry : cache[e].mut = "missed" => overlap
    BY DEF SeenInv
  <2> HIDE DEF Listing, Entry
  <2>3. ASSUME NEW l \in Listing, l.mut = "missed" => overlap
        PROVE  \A e \in Entry : Put(Entries("positions"), l, cache)[e].mut = "missed" => overlap
    BY <1>1, <2>2, <2>3, PutMarks
  <2> QED BY <1>1, <1>2, <2>1, <2>3
<1> QED BY <1>1, <1>2, <1>3 DEF Derive, Returned, SeenInv

(* A store hides a mutation only where its read overlapped it.              *)
LEMMA StoreKeepsSeen ==
  ASSUME CacheInv, SeenInv, NEW c \in Client, Store(c)
  PROVE  SeenInv'
<1>1. /\ cache \in [Entry -> Listing] /\ view \in [Client -> Listing]
      /\ acct \in [Client -> Mark] /\ got \in [Client -> Mark]
  BY DEF CacheInv, TypeOK
<1>2. Listed(c) \in Listing /\ (Listed(c).mut = "missed" => overlap)
  BY <1>1 DEF Listed, SeenInv
<1>3. Whole(c) \in Listing /\ (Whole(c).mut = "missed" => overlap)
  BY <1>1, <1>2, WorseIsMark DEF Whole, Listed, Worse, SeenInv
<1> DEFINE rows == IF op[c] = "orders" THEN {} ELSE {"raw"}
           mid  == Put(rows, Listed(c), cache)
<1>4. cache' = Put(Entries(op[c]), Whole(c), mid)
  BY DEF Store
<1>5. \A e \in Entry : cache'[e].mut = "missed" => overlap
  <2>1. \A e \in Entry : cache[e].mut = "missed" => overlap
    BY DEF SeenInv
  <2> HIDE DEF Listing, Entry
  <2>2. mid \in [Entry -> Listing] /\ \A e \in Entry : mid[e].mut = "missed" => overlap
    BY <1>1, <1>2, <2>1, PutType, PutMarks
  <2> HIDE DEF mid
  <2> QED BY <1>3, <1>4, <2>2, PutMarks
<1> QED BY <1>1, <1>3, <1>5 DEF Store, Returned, SeenInv

(* A mutation that returns clears what the cache held, and what a call still *)
(* holds makes an overlap of it.                                             *)
LEMMA MutatorsKeepSeen ==
  ASSUME CacheInv, SeenInv, NEW m \in Mutator,
         Post(m) \/ Effect(m) \/ Confirm(m) \/ Unreachable(m)
  PROVE  SeenInv'
<1>1. TypeOK
  BY DEF CacheInv
<1>2. CASE Post(m) \/ Unreachable(m)
  BY <1>2 DEF SeenInv, Post, Unreachable
<1>3. CASE Effect(m)
  <2>1. \A x \in Mark : Later("new", "unsure", x) = "missed" => x = "missed"
    BY DEF Later
  <2>2. \A e \in Entry : cache'[e].mut = "missed" => cache[e].mut = "missed"
    BY <1>1, <1>3, <2>1 DEF Effect, Overtaken, TypeOK
  <2>3. \A c \in Client : /\ acct'[c] = "missed" => acct[c] = "missed"
                          /\ got'[c] = "missed" => got[c] = "missed"
    BY <1>1, <1>3, <2>1 DEF Effect, Overtaken, TypeOK
  <2> QED BY <1>3, <2>2, <2>3 DEF Effect, SeenInv
<1>4. CASE Confirm(m)
  <2>1. overlap => overlap'
    BY <1>4 DEF Confirm
  <2>2. \A e \in Entry : cache'[e].mut # "missed"
    BY <1>4 DEF Confirm, Overtaken, Cleared
  <2>3. \A c \in Client : /\ acct'[c] = "missed" => overlap'
                          /\ got'[c] = "missed" => overlap'
    BY <1>1, <1>4, <2>1 DEF Confirm, Overtaken, SeenInv, TypeOK
  <2> QED BY <1>4, <2>1, <2>2, <2>3 DEF Confirm, SeenInv
<1> QED BY <1>2, <1>3, <1>4

(* Time only takes marks away.                                              *)
LEMMA TickKeepsSeen == ASSUME CacheInv, SeenInv, Tick PROVE SeenInv'
<1>1. ASSUME NEW e \in Entry PROVE cache'[e].mut \in {"new", cache[e].mut}
  <2>1. cache[e] \in Listing
    BY DEF CacheInv, TypeOK
  <2> QED BY <2>1 DEF Tick
<1> QED BY <1>1 DEF Tick, SeenInv

(* Every step keeps what may hide a mutation known.                         *)
LEMMA SeenStep == CacheInv /\ SeenInv /\ [Next]_vars => SeenInv'
<1> SUFFICES ASSUME CacheInv, SeenInv, [Next]_vars PROVE SeenInv'
  OBVIOUS
<1>1. CASE UNCHANGED vars
  BY <1>1 DEF vars, SeenInv
<1>2. "positions" \in Op
  OBVIOUS
<1>3. CASE Next
  BY <1>2, <1>3, ReadersKeepSeen, DeriveKeepsSeen, StoreKeepsSeen, MutatorsKeepSeen,
     TickKeepsSeen DEF Next
<1> QED BY <1>1, <1>3

(* A caller is shown a listing from before its own placement or cancel only  *)
(* when some fetch straddled a mutation: the order of the adapter's clear    *)
(* and of the stores of other calls can do no other harm.                    *)
THEOREM OnlyAnOverlapHidesAMutation == Spec => []MutationIsSeen
<1>1. SeenInv => MutationIsSeen
  BY DEF SeenInv, MutationIsSeen
<1> QED BY <1>1, SeenInit, SeenStep, CacheInvariant, PTL DEF Spec
=============================================================================
