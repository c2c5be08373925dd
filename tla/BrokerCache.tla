---------------------------- MODULE BrokerCache ----------------------------
(***************************************************************************)
(* The process-wide cache of the Alpaca adapter: what a caller of           *)
(* list_positions, get_portfolio or list_open_orders is given, while orders *)
(* are placed and canceled beside it.                                       *)
(*                                                                          *)
(* A request is sent, the venue answers it from its state, and the caller   *)
(* resumes with the answer later; everything between two awaits is one      *)
(* step.  A listing is known by its age in the cache, by the time since its *)
(* answer arrived, and by whether a mutation has overtaken it.              *)
(***************************************************************************)
EXTENDS Naturals

CONSTANTS Client,     \* coroutines that read
          Mutator,    \* coroutines that place or cancel
          Ttl         \* ticks an entry lives: _CACHE_TTL_SEC

ASSUME TtlAssumption == Ttl \in Nat \ {0}

Entry == {"raw", "positions", "positions_stale", "portfolio", "portfolio_stale",
          "orders", "orders_stale"}
Op    == {"positions", "portfolio", "fresh", "orders"}

VARIABLES
  cache,    \* [Entry -> [age, lag, mut]], age Never when absent
  pc, op,   \* [Client -> where its call stands, and which call it is]
  acct,     \* [Client -> mark of the account answer it holds]
  got,      \* [Client -> mark of the listing answer it holds]
  view,     \* [Client -> the listing its call returned]
  mpc,      \* [Mutator -> where its call stands]
  overlap   \* history: a fetch was under way when a mutation returned

vars == <<cache, pc, op, acct, got, view, mpc, overlap>>

Never == Ttl + 2
Mark  == {"new",      \* no mutation since the venue answered
          "unsure",   \* a mutation reached the venue; its caller does not know yet
          "missed"}   \* its caller knows, and this listing is from before it
Listing == [age : 0 .. Never, lag : 0 .. 2 * Ttl + 1, mut : Mark]
Absent  == [age |-> Never, lag |-> 0, mut |-> "new"]

TypeOK ==
  /\ cache \in [Entry -> Listing]
  /\ pc \in [Client -> {"idle", "account", "asked", "answered", "returned"}]
  /\ op \in [Client -> Op]
  /\ acct \in [Client -> Mark] /\ got \in [Client -> Mark]
  /\ view \in [Client -> Listing]
  /\ mpc \in [Mutator -> {"idle", "posted", "effected"}]
  /\ overlap \in BOOLEAN

Init ==
  /\ cache = [e \in Entry |-> Absent]
  /\ pc = [c \in Client |-> "idle"]
  /\ op = [c \in Client |-> "positions"]
  /\ acct = [c \in Client |-> "new"] /\ got = [c \in Client |-> "new"]
  /\ view = [c \in Client |-> Absent]
  /\ mpc = [m \in Mutator |-> "idle"]
  /\ overlap = FALSE

-----------------------------------------------------------------------------
Fresh(e) == cache[e].age <= Ttl                       \* _cache_get finds it

Entries(o) == CASE o = "positions" -> {"positions", "positions_stale"}
                [] o = "orders"    -> {"orders", "orders_stale"}
                [] OTHER           -> {"portfolio", "portfolio_stale"}
Main(o)  == CASE o = "fresh" -> "portfolio" [] OTHER -> o
Stale(o) == CASE o = "positions" -> "positions_stale"
              [] o = "orders"    -> "orders_stale"
              [] OTHER           -> "portfolio_stale"

(* _cache_set under several names: a new stamp on the same data. *)
Put(es, l, d) == [e \in Entry |-> IF e \in es THEN [l EXCEPT !.age = 0] ELSE d[e]]

Returned(c, l) ==
  /\ pc' = [pc EXCEPT ![c] = "returned"]
  /\ view' = [view EXCEPT ![c] = l]

(* A bug: a hit renews the entry. *)
HitRenews(c, o) ==
  /\ pc[c] = "idle" /\ o # "fresh" /\ Fresh(Main(o))
  /\ Returned(c, cache[Main(o)])
  /\ op' = [op EXCEPT ![c] = o]
  /\ cache' = [cache EXCEPT ![Main(o)].age = 0]
  /\ UNCHANGED <<acct, got, mpc, overlap>>

Hit(c, o) ==
  /\ pc[c] = "idle" /\ o # "fresh" /\ Fresh(Main(o))
  /\ Returned(c, cache[Main(o)])
  /\ op' = [op EXCEPT ![c] = o]
  /\ UNCHANGED <<cache, acct, got, mpc, overlap>>

(* list_positions rebuilds its own entry from the raw rows of either call.   *)
Derive(c) ==
  /\ pc[c] = "idle" /\ ~Fresh("positions") /\ Fresh("raw")
  /\ Returned(c, cache["raw"])
  /\ op' = [op EXCEPT ![c] = "positions"]
  /\ cache' = Put(Entries("positions"), cache["raw"], cache)
  /\ UNCHANGED <<acct, got, mpc, overlap>>

Ask(c, o) ==
  /\ pc[c] = "idle"
  /\ o # "fresh" => ~Fresh(Main(o))
  /\ o = "positions" => ~Fresh("raw")
  /\ op' = [op EXCEPT ![c] = o]
  /\ pc' = [pc EXCEPT ![c] = IF Main(o) = "portfolio" THEN "account" ELSE "asked"]
  /\ UNCHANGED <<cache, acct, got, view, mpc, overlap>>

(* The account answers first; the positions of get_portfolio are asked next. *)
Account(c) ==
  /\ pc[c] = "account"
  /\ acct' = [acct EXCEPT ![c] = "new"]
  /\ pc' = [pc EXCEPT ![c] = "asked"]
  /\ UNCHANGED <<cache, op, got, view, mpc, overlap>>

Answer(c) ==
  /\ pc[c] = "asked"
  /\ got' = [got EXCEPT ![c] = "new"]
  /\ pc' = [pc EXCEPT ![c] = "answered"]
  /\ UNCHANGED <<cache, op, acct, view, mpc, overlap>>

(* A snapshot is as old as the older of its two answers. *)
Worse(a, b) == IF "missed" \in {a, b} THEN "missed"
               ELSE IF "unsure" \in {a, b} THEN "unsure" ELSE "new"

Listed(c) == [age |-> 0, lag |-> 0, mut |-> got[c]]
Whole(c)  == IF Main(op[c]) = "portfolio"
             THEN [Listed(c) EXCEPT !.mut = Worse(acct[c], got[c])] ELSE Listed(c)

(* The caller resumes: every entry its call feeds is stored at once.         *)
Store(c) ==
  /\ pc[c] = "answered"
  /\ LET rows == IF op[c] = "orders" THEN {} ELSE {"raw"}
     IN  cache' = Put(Entries(op[c]), Whole(c), Put(rows, Listed(c), cache))
  /\ Returned(c, Whole(c))
  /\ acct' = [acct EXCEPT ![c] = "new"] /\ got' = [got EXCEPT ![c] = "new"]
  /\ UNCHANGED <<op, mpc, overlap>>

(* Still 429 after the retries: the fallback entry, or ALPACA_RATE_LIMIT.    *)
FallBack(c) ==
  /\ pc[c] \in {"account", "asked"} /\ op[c] # "fresh" /\ Fresh(Stale(op[c]))
  /\ Returned(c, cache[Stale(op[c])])
  /\ acct' = [acct EXCEPT ![c] = "new"]
  /\ UNCHANGED <<cache, op, got, mpc, overlap>>

Raise(c) ==
  /\ pc[c] \in {"account", "asked"} /\ (op[c] = "fresh" \/ ~Fresh(Stale(op[c])))
  /\ pc' = [pc EXCEPT ![c] = "idle"]
  /\ acct' = [acct EXCEPT ![c] = "new"]
  /\ UNCHANGED <<cache, op, got, view, mpc, overlap>>

Leave(c) ==
  /\ pc[c] = "returned"
  /\ pc' = [pc EXCEPT ![c] = "idle"]
  /\ view' = [view EXCEPT ![c] = Absent]
  /\ UNCHANGED <<cache, op, acct, got, mpc, overlap>>

-----------------------------------------------------------------------------
(* place_order and cancel_order.                                             *)

Post(m) ==
  /\ mpc[m] = "idle"
  /\ mpc' = [mpc EXCEPT ![m] = "posted"]
  /\ UNCHANGED <<cache, pc, op, acct, got, view, overlap>>

(* What was read before: a, when the mark was "new" or "unsure". *)
Later(from, to, mark) == IF mark = from THEN to ELSE mark
Overtaken(from, to, d) ==
  /\ cache' = [e \in Entry |-> IF d[e].age = Never THEN d[e]
                               ELSE [d[e] EXCEPT !.mut = Later(from, to, @)]]
  /\ acct' = [c \in Client |-> IF pc[c] \in {"asked", "answered"}
                               THEN Later(from, to, acct[c]) ELSE acct[c]]
  /\ got' = [c \in Client |-> IF pc[c] = "answered"
                              THEN Later(from, to, got[c]) ELSE got[c]]

Effect(m) ==
  /\ mpc[m] = "posted"
  /\ mpc' = [mpc EXCEPT ![m] = "effected"]
  /\ Overtaken("new", "unsure", cache)
  /\ UNCHANGED <<pc, op, view, overlap>>

(* A bug: the raw rows survive. *)
ClearedButRaw == [e \in Entry |-> IF e = "raw" THEN cache[e] ELSE Absent]

Cleared == [e \in Entry |-> Absent]

(* Any HTTP answer clears the cache before its status is looked at.          *)
Confirm(m) ==
  /\ mpc[m] \in {"posted", "effected"}
  /\ mpc' = [mpc EXCEPT ![m] = "idle"]
  /\ Overtaken("unsure", "missed", Cleared)
  /\ overlap' = (overlap \/ \E c \in Client : pc[c] \in {"account", "asked", "answered"})
  /\ UNCHANGED <<pc, op, view>>

(* A transport failure raises before the cache is cleared.                   *)
Unreachable(m) ==
  /\ mpc[m] \in {"posted", "effected"}
  /\ mpc' = [mpc EXCEPT ![m] = "idle"]
  /\ UNCHANGED <<cache, pc, op, acct, got, view, overlap>>

Tick ==
  /\ cache' = [e \in Entry |->
       LET l == cache[e] IN
       CASE l.age < Ttl  -> [l EXCEPT !.age = @ + 1, !.lag = IF @ <= 2 * Ttl THEN @ + 1 ELSE @]
         [] l.age = Ttl  -> [Absent EXCEPT !.age = Ttl + 1]
         [] OTHER        -> l]
  /\ UNCHANGED <<pc, op, acct, got, view, mpc, overlap>>

Next ==
  \/ \E c \in Client :
       \/ Derive(c) \/ Account(c) \/ Answer(c) \/ Store(c) \/ FallBack(c) \/ Raise(c)
       \/ Leave(c) \/ \E o \in Op : Hit(c, o) \/ Ask(c, o)
  \/ \E m \in Mutator : Post(m) \/ Effect(m) \/ Confirm(m) \/ Unreachable(m)
  \/ Tick

Spec == Init /\ [][Next]_vars

-----------------------------------------------------------------------------
(* No call returns a listing whose answer is more than two lifetimes old:    *)
(* rows cached by one call may be cached again by list_positions, once.      *)
ServedIsRecent == \A c \in Client : pc[c] = "returned" => view[c].lag <= 2 * Ttl

(* An entry filled from the raw rows may lag a lifetime behind its own age.  *)
LagIsBounded ==
  \A e \in Entry : Fresh(e) =>
    cache[e].lag <= cache[e].age + (IF e \in Entries("positions") THEN Ttl ELSE 0)

(* Both entries of a call carry one stamp: the fallback dies with the entry. *)
FallbackDiesToo == \A o \in Op : cache[Main(o)].age = cache[Stale(o)].age

(* What the two together maintain; the fallback can only help a caller whose *)
(* entry another call has stored meanwhile.                                  *)
CacheInv == TypeOK /\ LagIsBounded /\ FallbackDiesToo /\ ServedIsRecent

(* A listing from before a mutation its caller knows of is served only when  *)
(* some fetch was under way when that mutation returned.                     *)
MutationIsSeen ==
  \A c \in Client : pc[c] = "returned" /\ view[c].mut = "missed" => overlap

(* A rate-limited poll raises only when nothing was ever stored to fall back *)
(* on since the last mutation.                                               *)
FallbackServes ==
  [][\A c \in Client :
      pc[c] \in {"account", "asked"} /\ pc'[c] = "idle" =>
        op[c] = "fresh" \/ cache[Stale(op[c])].age = Never]_vars
=============================================================================
