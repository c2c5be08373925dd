# Traido: a TLA+ model of the trading core

Traido is a Python desk that draws trade ideas, lets an operator (or an automatic
trigger) approve them, sends orders to the Alpaca paper venue and keeps a ledger of what
it holds. Money is at risk where several coroutines, the venue and a restart of the
process meet on one symbol; this project models that part, checks it with TLC and proves
its central invariants with TLAPS. `PROJECT.json` holds the machine-readable side: runs,
mutants, the map from definitions to source lines, findings, hazards and theorems.

## Inventory

Paths are under `src/backend/`.

| Component | State it keeps | Operations | What makes it correct |
| --- | --- | --- | --- |
| Order intents (`trading/order_intent.py`, `intents.py`) | one row per purpose and idempotency key, with a status | create, compare-and-swap to SUBMITTED, tolerant moves, unresolved and blocking queries | one transmission per intent; terminal statuses are never left; UNKNOWN is never read as "nothing happened" |
| Approval commit (`trading/approval_commit.py`, `approval_evidence.py`) | none of its own; one transaction over card, intent, decision | claim the card and write the intent, or return the bundle of a retried request | a card is attempted once; a retry finds the first attempt |
| Entry execution (`trading/execution.py` `decide`, `fills.py`, `entry_activity.py`) | coroutine locals; the set of active entries | gates, blockers, commit, claim, transmit, wait for the fill, settle, protect, flatten, book | every share bought is owned by a row, an incident or a live coroutine |
| Opportunities (`trading/opportunities.py`) | card status | claim, update, release stale claims, expire | no claim outlives its owner |
| Position ledger (`trading/ledger.py`) | open and closed rows | open, recover, set quantity, close, partial exits | never claims more than was bought; closes only what is flat |
| Reconciliation (`trading/reconcile.py`, `entry_recovery.py`) | a pass's locals | settle intents, close flat rows, recover entries, block orphans, restore protection, release claims, cancel stray orders | applies no answer that a later event has overtaken |
| Reconciliation supervisor (`trading/reconcile_supervisor.py`) | the in-flight event, the status, the loop task | run, run_if_stale, start, stop | single flight; joiners return; failures are recorded |
| Broker adapter (`broker/alpaca.py`) | a 4-second cache, process-wide | list positions and orders, portfolio, place, cancel, look up | bounded staleness; a placement empties the cache |
| External positions (`trading/external_positions.py`) | incidents per symbol | raise, adopt, lift | an unexplained holding blocks its symbol |
| Protection and emergency close (`trading/execution.py`) | protective and emergency intents | place, resize, cancel, recover a stop; flatten | a position is covered or being closed |
| Exits (`trading/exits.py`, `execution.py` `decide_exit`) | exit cards, exit intents, claimed quantity | propose, approve, settle, absorb a fill once | never sells more than is held; a fill is absorbed once |
| ORB strategy (`strategy/orb/`) | one session row: per symbol a plan, its state and the card linked to it | select, evaluate, mark, replace, publish, re-enter, roll out, repair | a live card belongs to the plan the slot has; a spent setup is not published again; a claim is kept while its trade lives |
| Auto trigger (`trading/auto_trigger_policy.py`) | switch, queue, two key sets, retry times | enqueue, dispatch, decide, discard, back off | a card is in the queue once; an awaiting card is tried |
| Retest replay (`strategy/orb/retest.py`) | none: every evaluation replays the bars from the open | breakout, return, confirmation, freeze of the geometry, expiry | a ready plan is a breakout's first return, confirmed in time, untouched since |
| Bar stream and store (`market_data/alpaca_stream.py`, `bar_store.py`, `strategy/orb/retest_data.py`) | 1Min and 5Min rows; queue, freshness, coverage, failures, replay cache | subscribe, ingest, drain, recover over REST, probe | fresh means heard; a gap blocks; a correction is not undone |
| Observation (`strategy/orb/runtime.py`) | the reason in the symbol's row; completed bars and entries pending; the symbols under evaluation | full pass, fast pass, entry worker | a stored breakout does not stay unseen |
| Position loop (`agents/position/loop.py`) | sell cards | propose, withdraw an exit | one standing proposal per position |
| Risk and kill switch (`risk/`) | switch, limits, paper period | check, halt, clear | a halt stops entries and never exits |
| Scanner, agents, quant, universe, notifications, API, frontend | caches and views | fetch, score, render | not on the order path |

How they meet. `decide`, `decide_exit` and the pass share the database (cards, intents,
ledger, incidents) and the venue; every await of one lets the others run. The pass is run
by the supervisor, called from the dashboard route, the auto-stop route and a 30-second
loop. All read positions through the adapter's cache. The ORB loop evaluates each symbol of
the session every minute, publishes a card when a retest setup is admitted, and hands it to
the auto trigger, whose single worker calls `decide`; the scan route and the pipeline
evaluate too, so evaluations of one symbol may overlap. A restart keeps the database and
the venue and loses every coroutine, the set of active entries, the queue and the freshness
of the last pass.

Hard behaviour: check-then-act across an await (blockers, flat sweep), orders whose
submission timed out, fills and expirations while a cancellation is on its way, retries of
one request, restarts between any two writes, cached listings, waits for another caller's
pass. Each is listed at its line under `hazards`.

## Plan

In order of importance; 1 to 9 are built.

1. `OrderIntent` – the lifecycle tables shared by everything that follows.
2. `EntryExecution` with `EntryAttempt` (abstract), `EntryInvariants`, `EntryRace`,
   `EntryExecutionProofs`, `EntryRefinement` – one symbol from the click to the open
   position, with the pass and the venue.
3. `ReconcileSupervisor` and its proofs.
4. `BrokerCache` and its proofs.
5. `ExitExecution` – sell cards, `decide_exit`, the stop, the emergency close, the pass.
6. `OpportunityCards`, `OrbSession`, `AutoTrigger`, `OrbDesk` – the strategy's slot, its
   evaluators, the cards, the auto trigger and their composition.
7. `Retest` and its proofs – what a confirmed setup is.
8. `BarStream` and `BarObservation` – from the vendor's minute to the row that shows it.
9. `ExitExecutionProofs`, `OrbDeskProofs`, `BarObservationProofs`: the safety properties of
   5, 6 and 8 by the method of `EntryExecutionProofs`.
10. `Quota`: rate limiter and concurrency budgets.

## Modules

- **`OrderIntent`** – `IntentStatus`, `AllowedTransitions`, the reading of a venue status
  (`IntentStatusFor`), `SafeTransition` (a move that is dropped when illegal),
  `MarkUnknown`, `TransitionFrom` (the compare-and-swap).
- **`EntryExecution`** – state in four groups. `desk`: `card`, `intent`, `row`, `rowQty`,
  `incident` (the database). `venue`: `order`, `filled`, `wire`, `held`, `stop`. `task`:
  `pc`, `job`, `seen` per coroutine of `decide`. `pass`: `rpc`, `snap`, `at`, `found`,
  `rpos`, `sweep`, `fresh`. An intent is identified by its idempotency key, a pair of card
  and request. Actions follow the code from await to await: `Approve`, `Refuse`,
  `CheckSymbol`, `CommitCreates`/`CommitReuses` (one transaction), `SubmitClaim`,
  `Transmit`, `ReplyRecord`/`ReplyRejection`/`ReplyLost`, `FillSeen`/`FillGivesUp`,
  `CancelEntry`, the `Settle*` outcomes, the stop and flatten outcomes, `BookPosition`,
  `ResolveEntry`, `FinishEntry`; the pass's `StartPass` … `EndPass`; the venue's `Arrive`,
  `Vanish`, `Fill`, `VenueExpires`, `StopTriggers`; and `Crash`.
- **`EntryAttempt`** – what an entry promises: a card is attempted once, an attempt is
  transmitted once, and it is declared dead only when it bought nothing.
  `EntryInvariants` maps the detailed state to it (`ImplementsAttempt`) and gathers the
  inductive invariant `EntryInv`.
- **`EntryRace`** – `EntryExecution` with a history variable, `late`: the coroutines that had
  another card committed between their check of the symbol and their transmission. It
  watches and restricts nothing; it lets `OnlyARaceSendsASecond` say what the one check of the
  blockers is good for when coroutines overlap freely.
- **`ReconcileSupervisor`** – one process counter per caller of `run`. Gate sections are
  atomic and all else interleaves, because the guard is a threading primitive. `inflight`
  is `_inflight` by its owner, `waits` says whose event a joiner holds, `verdict` and
  `under` are what the auto-stop route learns of its own pass and the selection that pass
  acted on, `news` and `actual` are history.
- **`BrokerCache`** – the seven entries of the adapter with their age, the time since
  their answer arrived (`lag`) and whether a mutation overtook them (`mut`).
- **`ExitExecution`** – `desk`: `card` (sell cards), `row`, `rowQty`, `rowStop`, `incident`;
  `intents`: status, requested, noted and absorbed quantity per slot, a slot being a
  generation of an exit, a stop or an emergency close that is taken again once it is over;
  `venue`: `ord`, `sold`, `wire`, `held`, with the rule that a SELL is refused for shares
  another order holds. `pc` and `job` are the coroutines of `decide_exit` and the pass, which
  share the routines that sell shares (`ClaimSale` … `FillGivesUp`), place a stop
  (`VerifyStop` … `StopNotFound`) and flatten (`ResumeFlat`, `CreateFlat`, `FlatFilled`), as
  they do in the code; `then` is on whose behalf one runs. Then come the steps of
  `reconcile_positions` from `StartPass` to `EndPass`.
- **`OpportunityCards`** – the cards of a symbol as the strategy sees them: `decide` by what
  it does to the row (status, `submitted_at`) and by the class of its outcome. After an attempt
  the auto trigger goes on to its books: `copy` is the row `_set_retry` or `_clear_retry` has
  read, `WriteBack` and `WrittenBack` put the whole of it back over what was done since, or
  fail and leave it. `InHand` is the stretch in which the event loop is inside that call: only
  store operations in worker threads (evaluators, rollout, session writers) come between.
- **`OrbSession`** – the slot of one symbol: plan, linked card, the setups it refuses
  (`retest_after`), its bounds (`budget`), the dead card it was marked for (`retest_reset_id`), its re-arms; the
  writers of the session; `evaluate_symbol` from await to await (`Begin`, `RearmRead`,
  `RearmCommit`, `ReadLinked`, `MarkReset`, `Rebuild`, `Replace`, `Invalidate`, `Admit`,
  `Publish`). Bars are a count of confirmed setups, which is also the clock.
- **`Retest`** – `rebuild`'s loop, one window a step: `after`, `pdh` and `tape` are its
  input, `st` its local variables (`breakout`, `retest`, `peak`, `low`, the frozen `plan`,
  the reason `why`). `Breakout`, `Return`, `Climb`, `Linger`, `Fail`, `Reject`, `Confirm`,
  `Hold`, `Lapse` are the branches of the loop; `Answer` is what the call returns with or
  without coverage for the silent windows.
- **`BarStream`** – vendor, socket reader, queue, writer and the two transactions of a
  batch (`StoreMinutes`, `StoreBars`), then freshness and notification (`Notify`); closing,
  draining, giving up and joining a connection.
- **`BarObservation`** – `prime_bars` for each pass (`PlanRecovery` … `StoreProbe`), the
  full pass (`StartFull`, `LoadFull`, `JudgeFull`, `Defer`, `HistoryFails`), the fast pass
  (`Capture`, `ReadSession`, `CheckHistory`), the entry worker (`StartEntry`), the evaluation
  that fast pass and worker share (`Enter`, which passes over a symbol being evaluated, `Load`,
  `Judge`, which reads the clock again after the bars, `EvaluationFails`), `update_states`
  (`Write`), timeouts and exceptions (`PassFails`), restarts. `older` orders the moments the
  passes looked at the clock, which is what `update_states` compares.
- **`AutoTrigger`** – switch, queue, key sets, worker, dispatcher.
- **`OrbDesk`** – their composition with the operator, the pass, the market and restarts.
- **`MC…`** – the constants of the TLC instances. Definitions named for a bug and placed
  before the definition they replace (`SubmitClaimUnguarded`, `ClearedButRaw` …) are the
  mutants; no specification uses them.

## Abstractions

One process (the deployment is single-worker), one symbol (symbols meet only in portfolio
limits, which appear as refusals that may always happen). Prices, scoring, notifications
and journal text are left out. `CommitRetry` chooses freely between a matching and a
conflicting evidence fingerprint. In `EntryExecution` the protective stop and the emergency
close appear by the outcomes `decide` sees; `stop = 0` stands for "no unresolved protective
intent"; `ExitExecution` has them in full and starts from an open position.
The 18-second wait for a fill and the 90-second age of a stale claim are choices that may
fall at any moment. In `EntryExecution` and `ExitExecution` the cache of the adapter is
folded into the holding last listed (`rpos`, `listed`): a read answers with the venue's
holding or with it, with no bound on its age, which allows more than the 4 seconds do;
`BrokerCache` bounds it. In `BrokerCache` a lifetime is `Ttl` ticks. The supervisor's
`reset()`, called by tests only, and the arithmetic of `run_if_stale` (a caller served from
the last success makes no call) are left out.

In `ExitExecution` cancelling is not an action of its own: the venue may end a working order
at any moment, and a caller waiting for a cancellation sees the order gone or gives up.

`Retest` is the replay itself: since every evaluation starts from the open, each reachable
state is one input of `rebuild`, and a late bar is the behaviour in which it was there. A
timeout is noticed on a printed bar only, as in the code. The calibrated versions 2.4 and 2.5
and the refusal by `form_plan` before the loop are left out; in `Touches` the test of the
high is redundant after `~Fails`, as it is in the code.

A bar is the version of each of its minutes, so a window's bar says which minutes it was
made of, and "breaks out" is a property of its last one. The symbol's row is its reason:
waiting for a breakout, seen (a replay looked at a bar that breaks out; what follows is
`Retest`'s), or blocked, as it is for a symbol no plan has been drawn for. The rows
`prime_bars` loads and the plan it makes of them are one step. The session's other
symbols, and with them the sizes of a batch, are left out: where the code marks a whole
batch as consumed, the symbol's part of it is meant. The branch of `_observe_once` without an
entry worker is not taken, since the loop starts the worker before it observes. Ages are
nondeterministic: the half minute of a failure and the five seconds of a partial replay end
when time passes. The `Overlap` of a recovery is two windows in the code.

In the desk modules skipped, discarded and expired cards are all "dead", an entry intent is
"open" (live or UNKNOWN) or "settled", and the retry time is whether it lies ahead. What the
auto trigger does about an outcome, up to the row it reads, belongs to the step of `decide`
that raised it, since no await lies between. A claim is released by age whether its attempt is
over or not; a release that meets a running attempt, and a write-back that changes the status,
count as mishaps of the budget. Three things are narrower than the code: `rearm_closed_trade`
reads the claim it was called for; a dead card that had been submitted, and so is not
replaced, is outside what `DeadCardIsReplaced` demands; and a setup that `form_plan` refuses at
`Rebuild` (`strategy/orb/runtime.py:570`) is not made.

Some properties hold under a condition that is part of their formula or of their scenes, and
say nothing beyond it:

- `VerifiedSelection`: one operator. A selection saved while the route's own pass is running
  is not caught.
- `OrderIsTracked` and `StopIsSingle`: `OneStopper`. `decide_exit` against the pass, and an
  order that arrives after its intent was retired, are not caught.
- `DecidedOnce`: `OwnRelease`. A release by the pass under the manual policy is not caught.
- `MarkedSetupIsSpent`: evaluations that do not overlap.
- `LiveCardStaysCurrent`: it follows a card from its publication to its end. A card written
  back from the dead (`RetiredStaysRetired`, below) is outside it.
- `OnlyARaceSendsASecond`: it does not constrain an entry sent in the race
  (`OneEntryAtTheVenue`, below).
- `FreshIsHeard`: what was in a transaction that failed is exempt until the reader notices
  (`CurrentIsComplete`, below), and so is the bar of the window it touched.
- `MinutesNeverRegress`: minute rows only. REST over a five-minute bar is a divergence below.
- `BreakoutIsSeen`: one moment in which the row says something else is enough. A write that
  overrules a later one only for a while is not caught.

## Runs

Entry constants: cards, requests, coroutines, `Qty` shares per order, `MaxCrash` restarts.

| Run | Instance | Checks |
| --- | --- | --- |
| `entry_requests` | 1 card, 2 requests, 2 coroutines, 1 share, 1 restart | `TransmissionIsOwned`, `ImplementsAttempt` |
| `entry_race` | 2 cards, 2 coroutines, 1 share, until every attempt is sent | `OnlyARaceSendsASecond` |
| `entry_progress` | 1 card, 1 request, 1 coroutine, 2 shares, 1 restart, fair | `TypeOK`, `SettledIsOver`, `RowBacked`, `ExecutedIsBooked`, `HoldingIsNoticed`, `UnsentIsRetired` |
| `supervisor` | 1 request, 1 operator, 2 loop tasks, fair | `SingleFlight`, `NoLostWakeup`, `LoopIsOne`, `JoinedIsAnswered`, `VerifiedSelection`, `JoinersReturn`, `LoopKeepsTrying` |
| `broker_cache` | 2 readers, 1 mutator, `Ttl` = 1 | `ServedIsRecent`, `MutationIsSeen` |
| `exits` | `Meeting`: 2 cards, 2 coroutines and the pass, 2 shares, 1 exit, 2 stop and 1 flat slot | `TypeOK`, `AbsorbedOnce`, `SoldIsClosed`, `OrderIsTracked`, `DecidedOnce`, `StopIsSingle`, `SentOnce` |
| `exit_progress` | `Covering`: 1 card, 1 coroutine, 3 stop slots, fair | `BookCatchesUp`, `NakedIsNoticed` |
| `orb_desk` | `Varied`: 2 cards, 1 evaluator, 2 setups | `KeysMatchQueue`, `LiveCardStaysCurrent`, `MarkedSetupIsSpent`, `ExecutedClaimIsKept` |
| `orb_progress` | 2 cards, operator and auto trigger, 1 evaluator, 1 setup, 1 cut, fair | `TriedWhenDue`, `DeadCardIsReplaced` |
| `retest` | 7 windows, 6 bars and a silence | `SetupIsSound`, `ConfirmedIsAccepted`, `PhaseIsTrue` |
| `bars` | `Days`: 2 windows of 2 minutes, 2 versions, fair | `FreshIsHeard`, `MinutesNeverRegress`, `BreakoutIsSeen` |

The inductive invariants are proved (below); the runs keep the properties that follow from
them. TLC finds each strengthening that a proof rests on true of the instances of its run.

Exit constants: `Qty` bounds the position; a `Scene` (those of the runs are in
`MCExitExecution`) says the exit policy, whether a stop rests at first, how many shares were
bought, how many sell cards may be raised, whether passes run (never, once, always), how
many coroutines are in `decide_exit` at a time (`crew`), the restarts, and the faults:
"cached" (a listing may be the last one) and "late" (an order may arrive after its caller
gave it up). Scenes keep apart what multiplies the states without meeting. `Apart` has a sale under the
manual policy beside the pass, a sale with a stop and no pass, and the pass alone with and
without a stop, the first three with cached listings and a restart; `Together` has one
coroutine beside a pass, and two coroutines. `OneStopper` names the scenes in which the pass
and `decide_exit` do not both place stops and no order arrives late, `OwnRelease` those in
which nothing but `decide_exit` releases a claimed card (see the divergences for both).
Desk constants: `Caller` says who may be inside `decide`, `Evaluator` the evaluators; a
budget bounds the evaluations that overlap, the setups the market makes, the evaluations cut
off and restarts, and the rollouts and repairs; `QueueSize` the queue. `Varied` is two setups
with one mishap (a cut, a restart, a release during an attempt, a write-back over another
write), and one setup with a revision. `orb_progress` has one cut or restart, and leaves out
the releases during an attempt and the write-backs over another write, for time. Evaluations
that overlap multiply the states beyond what a run can hold beside these: they are left to
the theorems, which prove the four properties of `orb_desk` for every budget.
Retest constants: two ticks a cent, level 20, band 5, buffer 2, 300 basis points, a previous
high ahead of (24) or beyond (41) the first target, timeout 4, signal lifetime 2, deadline 6,
`after` 0 or 1, and six bars: a breakout, a higher one away from the level, a return after a
new high, a deeper one, a confirmation, a close below the band. Seven windows hold a setup
that fails or lapses and another that confirms.
Bars constants: a scene bounds the minutes of the session, the silent ones, the corrections
and late prints, the connections lost, the faults, the restarts and the setups handed to the
entry worker, and says whether REST answers and full passes run. `Streamed` has the stream and
the fast pass alone, `Recovered` adds REST and full passes, `Deferred` the entry worker.

Why the bounds are enough: two requests and two coroutines are the least that race for one
intent, and a third meets the same compare-and-swap. Two shares are the least that can
fill in parts, be protected in parts or be sold in parts. One restart reaches every pair
of writes; what a second adds is a pass that is cut short twice, and a pass starts from
the database alone. Two loop tasks are a stop followed by a start. Two readers and one
mutator are the least in which one reader's fetch spans another's hit and a placement. A
lifetime of one tick has a fresh, a last and an expired age. Two stop slots are a stop and
its replacement; a third lets a pass fail twice before it succeeds. Two cards and two
setups are a card and its successor, which is what a slot relates. A queue of one place is
full with one card; `orb_progress` has two, because under weak fairness alone the other card
could keep the only place for ever. A window of two minutes is complete, partial or silent;
two windows are a gap and what comes after it, and an overlap shorter than the session; a
scene has two to four minutes of them and one or two faults that can meet. Symmetry is used
in safety runs only. Two cards with two coroutines make the race; `entry_race` follows them
without a restart and until every attempt has been sent (`SomeUnsent`), since none is sent twice
and nothing is transmitted afterwards; `SecondEntryNeedsARace` says the same of every instance.
The type invariants of `OrbDesk` and `BarObservation` are proved and left out of the runs for time.

Finding: the run that must end in a violation.

| Run | What it shows |
| --- | --- |
| `claim_dropped` | a card whose entry is UNKNOWN returns to awaiting after 90 seconds, and the evaluator retires it and gives its slot to the next setup: the guards of `strategy/orb/store.py:409`, `:608` and `runtime.py:528` ask for a stored outcome "UNKNOWN" that nothing stores |

## Known divergences

Met while modelling; TLC refutes the property named, where one is named, and no run is
kept for it. The failure matrix is `docs/architecture/execution-failure-matrix.md`.

Entries:

- `OneEntryAtTheVenue` (2 cards, 2 coroutines): blockers are read (`trading/execution.py:652`),
  quotes are awaited, then the bundle is committed, and two cards of one symbol approved
  concurrently both reach the venue. `ARCHITECTURE.md:109`: "A second entry is refused before
  transmission, and the ledger refuses to record one regardless of how it is reached." What
  the check does refuse is `OnlyARaceSendsASecond`.
- `UnknownKeepsClaim` (1 card, 1 coroutine, no restart): the card of an UNKNOWN entry returns
  to awaiting after 90 seconds (`trading/reconcile.py:265`), so that the desk offers it again
  before the venue has said what became of the order. The matrix, line 38: "No retry. Card
  stays claimed."; `ARCHITECTURE.md:97`: UNKNOWN "is never quietly downgraded", and 372: "the
  opportunity stays claimed". `claim_dropped` and `UnknownIsNotRetried` are what follows of it.
- `ClosedOnlyWhenFlat`: the flat sweep (`trading/reconcile.py:182`) closes a row booked while
  `list_positions` was awaited.
- `ReleasedCardActionable`: a card released after a rejection can never be approved again
  (`trading/approval_commit.py:300`); the matrix, line 39: "A later approval opens a new
  intent".
- `EntryOnlyWhenFlat` (2 cards, 1 coroutine): the pass settles a lost entry as FILLED
  (`trading/reconcile.py:400`) before recovery or the orphan sweep owns its shares; in that
  window another card of the symbol is sent while the shares are held.
- `PartialUnblocks` (1 card, 2 shares, fair): an expired or canceled order with a fill reads
  PARTIALLY_FILLED on every pass (`trading/order_intent.py:170`), so an entry recovered by
  the pass blocks its symbol for ever; the matrix, line 41, says until protection is
  installed.

Supervisor and adapter:

- `UnresolvedIsSurfaced`: passes return a dict, `getattr` sees nothing
  (`trading/reconcile_supervisor.py:207`): what is unresolved never reaches the status or the
  alert.
- `VerifiedSelection` with two operators: the auto-stop route pairs the selection of the
  moment it answers with the verdict of a pass under an earlier one
  (`api/routes/trading.py:375`). With one operator it holds: `supervisor` checks it and `SelectionIsVerified` proves it.
- `FallbackServes` (1 reader): the "longer-lived fallback" of `broker/alpaca.py:189` carries
  the stamp of the entry it backs and expires with it, so a rate-limited poll raises;
  `FallbackDiesToo` is the invariant behind it.

Exits and protection:

- `ExitClaimIsReleased`: a listing that raises after the sell card was claimed
  (`trading/execution.py:2970`) leaves it approving; the comment at 3107-3109 says that
  "terminal broker outcomes release it in reconciliation".
- `BookCoversVenue`: a restart between the status of a sale and its absorption; the quantity
  repair explains the difference by the noted fill, the next pass absorbs it again, and a
  closed row stands for a share that is held. The next pass raises an incident.
- `TerminalLeavesNoLiveOrder`: `_settle_exit` marks CANCELED on a re-read order that still
  works; `order_intent.py` says a terminal state left no live order behind.
- `OrderIsTracked` with "late" arrivals: the ambiguous branch of `_place_protective_stop`
  returns None, the caller flattens, and the stop arrives afterwards. The same happens in the
  pass alone, where `OneStopper` once allowed it and the proof did not go through: a stop that
  is looked for and not found has its intent retired, and its order may still arrive.
- `OrderIsTracked` and `StopIsSingle` without `OneStopper`: a pass that meets a stop which
  `decide_exit` is submitting finds no trace of it, retires its intent and places another.
- `DecidedOnce` without `OwnRelease` (manual policy, passes, two coroutines):
  `_finish_pending_exit_card` releases every claimed sell card of the position, also one whose
  owner still waits for its fill, and a second coroutine claims it.

Desk:

- `MarkedSetupIsSpent` with overlapping evaluations: the plan is compared by value, so one
  that began before a replacement and its reversal finds the plan it expects and publishes a
  spent setup. Where they do not overlap (`overlap` = 1), it is checked and holds. A card skipped between
  `ReadLinked` and `Replace` is let go of without the mark, and its setup is published again.
- A blocked submission raises ORB_SUBMISSION_BLOCKED, is wrapped as ENTRY_STATE_UNKNOWN and
  leaves the card approving although nothing was sent.
- After ENTRY_FILL_FAILED the card is awaiting with `submitted_at` set: the evaluator ends at
  it for ever, and a second approval finds its settled intent.
- `RetiredStaysRetired` (auto trigger, 1 evaluator, 1 revision, 1 mishap): `_set_retry` and
  `_clear_retry` write the whole row back (`trading/auto_trigger_policy.py:299`, `:326`), so a
  card that a rollout or a replacement retired in its thread meanwhile is awaiting again;
  `strategy/orb/store.py:367`: "Unclaimed proposals are retired atomically and must be admitted
  again under a new ID."
- `UnknownIsNotRetried` (auto trigger, 1 card): an UNKNOWN card released by age is listed as open
  (`trading/auto_trigger_policy.py:578`), has no retry time, and is attempted again. The matrix,
  line 67: "No second `decide()`. Reconciliation only"; line 749: "UNKNOWN/APPROVING are never
  re-approved."
- `decide` writes its own copy of the card too (`trading/execution.py:1186`): a release, a skip
  or a retirement of a card whose attempt takes longer than 90 seconds is overwritten.

Bars:

- `CurrentIsComplete` (the scenes of `bars`): after a failed transaction the stream passes for
  current until its reader wakes up to the writer's end (`market_data/alpaca_stream.py:215`),
  later still while it reads the membership (346); until then `prime_bars` and `read_bars` ask
  REST for nothing, although a correction is lost. The matrix, line 854: "No
  freshness/notification advances; interrupt the socket reader and recover through durable
  data/REST".
- The fast pass may write a fresh WAIT_BREAKOUT although a durable bar that breaks out, saved
  by REST and never notified, was not looked at (`strategy/orb/runtime.py:1053`); a later
  full pass repairs it.
- A response read before a correction and saved after it overwrites the corrected window
  (`strategy/orb/retest_data.py:181`); `docs/architecture/execution-failure-matrix.md:845`:
  "Later corrections win in arrival order".
- A correction sent while disconnected and older than the ten minutes of overlap is never
  asked for again.
- A silent window inside a REST answer is proof of no trade (`_coverage`);
  `docs/architecture/orb-retest-v2.md:26`: "Missing completed bars fail closed (even if the
  vendor is simply late)". And `read_cached_bars` reads the coverage after the rows
  (`strategy/orb/retest_data.py:329`): old rows under new coverage replay as silence.
- A pass cut off between its `_remember` and its answer leaves a complete replay in the cache
  beside an old failure: nothing is asked again until the next boundary, and the symbol is
  blocked.

## Fairness

`entry_progress` assumes that venue calls answer or time out, that the supervisor starts a
pass again and again (every 30 seconds), that the pass takes its steps, that listing the
positions neither fails for ever nor is answered from the cache for ever (the lifetime is
4 seconds). It assumes nothing of the age of claims, of operators and of fills. `supervisor` assumes that threads are scheduled and that the loop's
timer fires; nothing makes a pass end, since it may hang on a socket, and the 30-second
join timeout is what `JoinersReturn` rests on. `exit_progress` assumes of the pass what
`entry_progress` does, that coroutines run to their next await, that a submission is decided,
and (strongly) that a venue asked again and again answers some of the time and lets some
stop arrive. `orb_progress` assumes that the loop evaluates every minute, that
the dispatcher looks at every open card every second, that the worker takes what is queued,
that `decide` is bounded by its timeouts and that retry times come; it assumes no setup, no
button, no sale, no revision. `bars` assumes that the two passes and the entry worker run to their next await and
start again and that time passes; nothing of the vendor, the connection or the writer.

## Proofs

Assumptions are those on the constants: `Qty` is a positive number, `NoKey` is no key,
`MaxCrash` is a number; the callers of the supervisor are disjoint sets; `Ttl` is positive;
bars are what `_valid_bar` lets through, prices and times are numbers, a cent has ticks;
there is a stop slot, the kinds of slots are disjoint and scenes are typed; evaluators are
finitely many (they are coroutines), the queue has room for one card; a session has windows
of at least one minute. One theorem states a hypothesis of its own, as what it says is false
without it: `OneOperator`, for `SelectionIsVerified`.

- `EntryExecutionProofs`: `TypeCorrect`, `EntryInvariant`, `TransmissionOwned`,
  `SettledOver`, `RowsBacked`, `ExecutedBooked`. The inductive invariant `EntryInv` adds to the types:
  `OneAttempt` (at most one intent of a card is beyond creation), `VenueBehindIntent` (an
  order or a submission has an intent that was sent), `CoroutineBehindIntent` (what each
  coroutine may assume of its intent at each await), `OneSender` (only one coroutine is
  between the claim and the answer), `AnswerIsPast` (the answers a pass holds are
  something the venue was once in, so applying them late loses nothing), `RowBacked`.
  `SettledIsOver` is not inductive without the last four: a stale answer could settle a
  live order. `ExecutedBooked` adds `Bookers`: between booking and the card's last write
  the row is there, since nothing erases a row.
- `EntryRefinement`: `DeskImplementsAttempt`. Every step is a stutter of `EntryAttempt`, a
  creation, a move of one intent, or a fill. From it, `SecondEntryNeedsARace`: an entry goes
  out beside an order of another card only if that card was committed between this one's check
  and its transmission, for coroutines that overlap in any way. The invariant `Cleared` says
  that from the check of the symbol to the transmission no intent of another card is
  unresolved, or the coroutine is `late`; the refinement says that what is over stays over, so
  that only a commit could open one (`OnlyACommitOpens`), and a commit makes the coroutine
  late. What is at the venue is unresolved by `EntryInv` (`AtTheVenue`), so that neither a lost
  answer, a late arrival nor a retry lets a second entry pass the check.
- `ReconcileSupervisorProofs`: `SupervisorInvariant`, `OnePassAtATime`,
  `WokenAreAnswered`, `NoWakeupIsLost`, `OneLoop`, `SelectionIsVerified`. `GateIsHeld` carries
  the single flight; `NoLostWakeup` follows the owner from the gate to the event;
  `EndIsRecorded` and `WokenHaveNews` say what a woken joiner can rely on. `OneLoop` rests on
  `LoopInv`: a task that lives and was not asked to stop is the one in `_loop_task`.
  `SelectionIsVerified` rests on `SelectionInv`: from the sweep until the route has answered,
  the selection swept under is the one on disk, as the one operator is busy with that route.
- `BrokerCacheProofs`: `CacheInvariant`, `NothingOlderThanTwoLifetimes`,
  `OnlyAnOverlapHidesAMutation`. An entry rebuilt from the raw rows lags at most one lifetime
  behind its own age (`LagIsBounded`), and the raw rows are never renewed from the cache. As
  long as no fetch was under way when a mutation returned, nothing in the cache and nothing
  a later reader holds is from before it.
- `ExitExecutionProofs`: `ExitTyped`, `TypeCorrect`, `BookAbsorbsOnce`, `SoldCardsAreClosed`,
  `NoIntentIsSentTwice`, `CardsAreDecidedOnce`, `OrdersAreTracked`, `StopsAreSingle`, for any
  shares, slots, coroutines and scenes. `ExitInv` is the types (`Seats`, `Lots`, `Shop`,
  `PassTyped`) with what they cannot be inductive without: `Sound`, what a coroutine may
  assume at each await of the sale, stop and close it holds; `Kept`, absorbed is at most sold
  and sold at most asked, a resting order has shares to sell, a submission on its way has
  sold nothing; `RecordTrue`, the record of an order the pass acts on is still true of it
  (its quantity is a lower bound and a terminal status is final); `Closing`, behind a sold
  card is a closed row. `AbsorbedOnce` is one conjunct of `Kept` and needs `RecordTrue`: the
  pass absorbs up to a quantity it read awaits ago.
  `CardsAreDecidedOnce` adds `Claims` (who decides a card decides one that reads approving)
  and `Asleep` (where no passes run, the pass's process stays idle).
  `OrdersAreTracked` and `StopsAreSingle` rest on `ExitTrack`: `Stops`, only one stop intent
  is unresolved; `AllGood`, a submission on its way has an intent in SUBMITTING, or in
  UNKNOWN for a close, and a resting order has an unresolved one; `ClosesOwn`, the close
  about to be sent is created and its sender's alone; `Awaited`, where only the pass sells,
  what is on its way is what the pass waits for. `OrderIsTracked` alone is not inductive: an
  order on its way arrives whatever its intent says by then.
  `TypeCorrect` adds `Backed`: the shares the working orders have yet to sell are at most the
  shares held (counted as a set of pairs of an order and a share, `Pledged`), which the venue
  guards on arrival and which every sale lowers on both sides; without it the holding could
  fall below zero.
- `OrbDeskProofs`: `DeskTyped`, `KeysAgree`, `LiveCardsStayCurrent`, `ExecutedClaimsAreKept`,
  `MarkedSetupsAreSpent`, for any cards, callers, evaluators, queue and budgets. `TypeInv` adds
  `Owned` (whoever is inside `decide` is there for a card). `KeysInv`: the worker has the card of
  its attempt and no card waits while it has it. `LiveCardsStayCurrent` needs `HeldInv` (whoever
  is inside `decide` or its books is there for a published card, and the row in hand is one of
  a published card, so that nothing but a publication makes a card) and `PlanInv` (a slot
  without a plan is linked to nothing and nobody evaluates it). `SpentInv` says of a marked slot that the
  setup of the dead card lies before `retest_after` (`MarkHolds`), and of the one evaluator
  that what it read of the marks is still so (`Knows`); with two evaluators `Knows` is false.
- `BarObservationProofs`: `StreamTyped`, `CorrectionsStay`, `CurrentStreamIsHeard`, for any
  windows, lengths, versions and scenes. `StreamInv` is `OneWriter` (a connection stores nothing
  before the last transaction of the one before is over), `InOrder` (table, transaction and queue
  hold versions in the order the vendor said them), `Heeded` (a live connection has lost nothing
  said since it was confirmed but what its failed transaction held), `OnlyDeadLose` (only a dead
  writer has lost anything), `CompletedSince`, `BarsFollow` and `OnlyRestAnswers`
  (a whole window that began after the connection, and that the failed transaction did not
  touch, is stored as its minutes are).
  `FreshIsHeard` alone is not inductive: freshness follows the notification, not the rows.
- `RetestProofs`: `Invariance`, `SetupSound`, `PhaseTrue`, `Accepted`, for any bars, level,
  band, buffer, rounding and any length of the session. The invariant `Inv` adds to the types
  and `SetupIsSound` what the loop's variables mean in each phase (`Phase`: the peak is the
  highest since the breakout, the low the lowest since the return, nothing in between failed
  or confirmed) and that floor and expiry are frozen (`Frozen`). `SetupIsSound` alone is not
  inductive: a confirmation takes its stop and target from `peak` and `low`. Lemmas say that
  a longer tape changes nothing of the windows before (`PatternKept`, `HighestKept`,
  `LowestKept`, `SetupKept`) and what rounding to the cent bounds (`Division`, `Rounding`).

Only model-checked: the liveness properties (`HoldingIsNoticed`, `UnsentIsRetired`, `JoinersReturn`, `LoopKeepsTrying`, `BookCatchesUp`, `NakedIsNoticed`,
`TriedWhenDue`, `DeadCardIsReplaced`, `BreakoutIsSeen`), which the prover cannot reach, and
what TLC refutes (the finding and the divergences). Every safety and every action property
of a passing run is stated by a theorem.

## Not modelled

Orphan adoption and journal repair by hand; quotas and budgets (planned). The entry watch
loop of `trading/` is not started by `api/main`. `rearm_skipped_plan` serves plan versions no
longer drawn. ORB discovery and session-close exits beyond their effect (`Select`,
`Close`), indicator and risk arithmetic, scoring agents, backtests: numeric code, out of
TLC's reach. API handlers, frontend, notifications: views and I/O.
