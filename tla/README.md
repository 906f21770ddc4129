# Verification of librae

TLA+ modules, TLC configurations and TLAPS proofs for librae, a Python trading
library that runs the same strategy in a backtest, in a paper simulation and
live against a broker. Modelled are the live engine's handling of orders, halts
and its checkpoint; the delivery of position events, order rows and audit rows;
the executor that backtest, simulation and live planning share, with each of
the three; the bars a simulated run works on; and the minute bars built from a
Shioaji tick stream.

All line numbers refer to the repository's `librae/` tree; `engine.py` without
a directory is `librae/live/engine.py`.

## 1. The system

| Part | State it keeps | Operations | What is hard about it |
|---|---|---|---|
| Live order work (`live/engine.py` `_advance_live_orders` and below, `live/executor.py`) | the queue `_active_orders`, one `TrackedOrder` per request, positions and cash, `_entry_fill_unchecked`, `_cancels_sent` | submit, look up, poll, apply a report, time out, cancel, fail a group, drop a withheld group | calls that fail without saying what the venue did, reports that come late, a checkpoint that fails half way, a process that ends at any call |
| Halts, reset, flatten, pause (`live/engine.py`, `live/halt_recovery.py`) | `_halted`, `_halt_unpersisted`, `_halt_cancels_pending`, `_resume_unverified`, `_entries_paused`, the requests other threads queue | `halt`, `reset_halt`, `request_*`, `pause_entries`, `resume_entries`, the automatic halts, the drawdown breach, `_retry_halt` | two pieces of owed work (a write, cancels) with failures in between, requests that race each other, exits that must go out although the account halts |
| Live polling cycle (`_poll_cycle`, `_process_cycle`) | `_pending_decision`, `_live_rebalance`, the bar frontier `_last_bar_ts`, `_last_cycle_ts`, `_last_execution_bar_ts` | one cycle of owed work, order work, reconciliation, bars, decision, commit | gates read early in a cycle and relied on later; a cycle that fails after part of its work |
| Start and reconciliation (`_initialize_run`, `_reconcile_*`) | the checkpoint as loaded | restore, cancel or poll what is tracked, compare with the broker | the restart must neither resend nor forget |
| State store and lease (`db/timescale_state.py`, `live/state.py`) | one row per state key, order rows, one advisory lock per connection | `load`, `save`, `acquire_lease` | a save that raises after landing; a lease that dies with its connection |
| Position event delivery (`_publish_action_results`, `_flush_pending_position_events`) | `_event_sequence`, the queue of undelivered events, its attempt count | queue, flush, drop | sequence numbers against checkpoints, a bound reached inside one result |
| OHLCV audit queue (`live/ohlcv_audit.py`) | rows that ride in the checkpoint | queue, flush in batches | at-least-once across a crash |
| Alerts (`live/persistent_alerts.py`) | open problems by key | fire, hold, clear, resolve, retain | alerts from several callers in one pass, hold-downs |
| Readiness and auxiliary data (`live/data_readiness.py`, `live/auxiliary_cache.py`) | cached frames, what was alerted | refresh, evaluate | stale data read as current |
| Simulated execution (`core/executor.py`, `live/resting_orders.py`) | positions, cash, pending decision, rebalance slices | execute groups, stops, slices, partition and merge decisions | all-or-none groups, exits that cut into a rebalance over several bars |
| Backtest (`backtest/engine.py`) | the replay frontier, envelopes of decisions | replay one event, expire, replace, run | look-ahead: a decision must not see a bar it could not have had |
| Shioaji minute stream (`brokers/shioaji_stream.py`) | settled and streamed minutes per contract, an inbox filled by SDK callbacks | add a tick, lose the connection, take a `kbars` answer, read | a minute built over a gap must never pass for complete |
| Broker adapters (`brokers/`) | vendor sessions | place, get, find, cancel | translate vendor formats |
| Orchestration, database writers, configuration, notifications, dashboards | - | command line, SQL, parsing, messages | I/O and formatting |

How they interact: one thread holds the engine's cycle lock and runs
`_poll_cycle` again and again; a cycle calls the broker adapters and the state
store synchronously. Other threads only set request flags
(`request_halt`, `request_halt_reset`, `request_flatten`) or, between two
cycles, call `halt`, `reset_halt`, `pause_entries`, `resume_entries` under the
lock. The venue works on orders at any time. The checkpoint in the store is
all that survives the process.

What makes each part correct: an order is recorded before it is sent, is sent
once, is booked to the unit and is never forgotten; a halt stops everything
but its own exits and sooner or later ends what it owns; what an operator asks
for is answered; a gate that let a bar through still holds when the decision
is made; events and rows reach their sinks in order with stable numbers; a bar
that is used is complete; simulated cash and positions balance.

## 2. Modules

| Module | EXTENDS | Models |
|---|---|---|
| `LiveState` | - | the state of the live order work: memory that is checkpointed (`live`), the checkpoint (`disk`), other memory (`proc`), the requests (`req`), where the thread stands (`ctl`), the venue's orders (`venue`); saves that land, fail, or fail after landing; where control returns to |
| `OrderVenue` | `LiveState` | the broker as the engine meets it (external): fills, late arrivals, its own cancels, and what its answers may say |
| `OrderWork` | `OrderVenue` | `_advance_live_orders` and everything it calls, down to `_cancel_tracked_order` and `_send_cancel` |
| `AccountHalt` | `OrderWork` | `_halt_live`, `_retry_halt`, manual and requested halts, resets, the flatten, the exits of a breach, the entry pause |
| `LiveTrader` | `AccountHalt` | the cycle, the bar, decisions and rebalances, start, crash; `Init`, `Next`, `Spec`, `FairSpec`, and all properties |
| `OrderLedger` | - | an abstract specification: what the durable record promises of each order |
| `Delivery` | - | what a live run leaves behind of its fills and bars: checkpoint writes with the order rows they carry, position events, audit rows |
| `OrderedSink` | - | an abstract specification: what the sink of position events may rely on |
| `SimulatedBook` | - | the deterministic executor (`core/executor.py`), as operators: intents, groups, stops, rebalances whole and sliced, limits, cash |
| `RunState` | `SimulatedBook` | what a backtest, a simulated run and the live planner share: book, pending decision, last cohort and its fills, expiry, replacement, the checks of a decision |
| `BacktestRun` | `RunState` | `Backtest.run`: late data, one timestamp after the other, decision, halt, end |
| `BarFeed` | `RunState` | the source of bars, the rolling cache of each symbol, and the requests that fill it |
| `ShadowRun` | `BarFeed` | a simulated run on a live feed: poll, execute, checkpoint, decide, checkpoint, mark, with failures and restarts in between |
| `LivePlan` | `RunState` | what a live decision is planned into (`_plan_live_orders`, `_continue_live_rebalance`) and the book its orders leave when they fill, end short, are paused or cannot be paid for |
| `SimulatedRuns` | the three above | the composition: one mode per behaviour, and the properties they share |
| `MinuteBook` | - | one contract of `ShioajiBarStream`: callbacks, ticks, gaps, segment ends, `kbars` queries, the poll |
| `MCLiveTrader`, `MCSimulatedRuns` | `LiveTrader`, `SimulatedRuns` | the instances TLC checks; `Delivery` and `MinuteBook` take numbers and sets of strings only and are run as they are |
| `LiveTraderProofs` | `LiveTrader` | theorems: types, what the checkpoint knows of what was sent |
| `LiveOrdersProofs` | `LiveTraderProofs` | theorems: memory, checkpoint and venue order by order; the refinement of `OrderLedger` |
| `LiveControlProofs` | `LiveOrdersProofs` | theorems: decisions, unverified books, halts; groups, the pause and the funding check |
| `DeliveryProofs` | `Delivery` | theorems |
| `MinuteBookProofs` | `MinuteBook` | theorems: what is served as complete |
| `SimulatedBookProofs` | `SimulatedBook` | lemmas: what the executor's operators keep, for every book, bar and list of intents |
| `ShadowRunProofs` | `SimulatedRuns`, `SimulatedBookProofs` | theorems: the history a simulated run decides on |
| `SimulatedRunsProofs` | `ShadowRunProofs` | theorems: book, liquidity, halt, exits and sessions of the three kinds of run, the order in which bars are executed, what a live decision is planned into |

Four families of modules, joined where the code joins them: `LivePlan` stops
where a request is queued and `OrderWork` begins there; `Delivery` takes up a
fill where `OrderWork.Report` books it; `ShadowRun` works on the bars that a
source such as `MinuteBook` serves. They are separate because their product is
far beyond a model checker, and because the code's interfaces between them are
narrow: a queue of requests, a list of results, a table of bars.

Definitions whose comment says "Faulty variant" are used by no specification.
Each is what a plausible bug would make of the definition that follows it and
shows that a property tells the two apart.

### Live order work

`live` is what `_snapshot_state` writes and `_restore_state` reads back:
`tracked` is `_active_orders` (in the order `Rank` gives), `order` the
`TrackedOrder` of each request, `book` how much of each order has been applied
to positions and cash, and `halted`, `paused`, `unstarted`
(`_unstarted_groups`), `rebalancing`. `disk` is the same record as the store
holds it. `carried` says that rows of a failed write wait for the next one
(`_unpersisted_orders`). `proc` is what a restart forgets: a halt whose write
failed, cancels a halt owes, an entry fill not yet checked, a book unverified
since a reset, the cancels already sent. Quantities are units of an order's
quantity (`Qty`), so a partial fill is any number below it; prices, cash and
weights appear only through the verdicts they lead to, which are choices.

A step is at most one call that leaves the process (a write, a placement, a
read, a cancel), with the work in memory up to the next such call. So a crash,
a fill or a request can come between any two calls and, as in the code, not in
the middle of the work in memory. `ctl` is the program counter with the
caller a function returns to: `pc`, the context `ctx`, the order at hand, the
cancel loop and what it has left. `Done` and `Raise` say where each caller
goes on when the order work returns or raises. The cases are those of the call
sites: `Raise` follows `except ReportNotAppliedError` and the loop in `run`.

An `Events` constant lists what may happen in an instance (a failing store, a
silent venue, lagging or garbled answers, timeouts, refusals, drawdowns, ...).
An event left out of an instance never happens there; no action depends on it
otherwise.

`OrderWork.Attempt` is the write of engine.py:5075-5091 and `PlaceAnswered`
and `PlaceUnclear` the call after it; `Lookup`, `Poll`, `Judge` are the rest of
the loop to line 5232. `Report` is `_apply_order_report` (book, drop an ended
order, write) with the write failing or not. `CancelUnsent`, `RequestCancel`,
`CancelReads`, `CancelSends`, `CancelForced` and `CancelJudged` follow
`_cancel_tracked_order`, `_send_cancel`, `_cancel_unreconciled` and the head's
reading of them. `AccountHalt.Halt` is `_enter_halt` and `_persist_halt`,
`Pass` and `HaltPassEnds` are `_cancel_active_orders`. `LiveTrader.BeginCycle`,
`CarryRows`, `Reconcile`, `Bar`, `Event`, `Decide`, `RebalanceLeg`, `Equity`,
`Commit` follow a cycle from top to bottom. `PROJECT.json` names the lines of
every definition.

### Delivery

`db` is the store (the snapshot and the table of order rows), `sink` the
database the orchestration's callbacks write to, `mem` the fields of
`LiveTrader`, `pc` the place in the poll cycle with the caller `_persist_state`
or a flush returns to. `gone` is history: what was dropped or refused, for
which of the reasons the code names. Fill `n` is the only fill of order `n`, so
a row, an event and a fill have one name; bar `b` is one bar of one
subscription. Each call of the store or the sink is a step that lands, fails,
or raises after landing, and the process may end between any two.

| Definition | Code |
|---|---|
| `SaveAll`, `Probe`, `WriteRow`, `ProbeAgain` | `_persist_state`, `_store_accepts`, `_write_rows_one_by_one`, `_reject_order_row` |
| `Book` | `_apply_order_report` |
| `Publish`, `Published` | `_publish_checkpointed_results`, `_publish_action_results`, `_queue_position_event` |
| `Accept`, `Refuse`, `Trim`, `CleanCycle` | `_flush_pending_position_events`, `_pop_head_position_event`, and the writer's treatment of a number it holds |
| `OfferRows`, `AllOffered`, `QueueRow` | `OhlcvAuditQueue.flush_pending`, `queue` |
| `Decide`, `Mark` | `_commit_cycle_bars`, the watermark after it |

An instance's fills share one time, the worst case: the sink recognises an
event by time and sequence number. Only the live engine's order of checkpoint
and publication is modelled; a simulated run publishes before its checkpoint
(engine.py:4145-4156).

### Simulated runs

Every price is 1 and there are no costs, so a quantity is a notional too and
equity does not move. Of its OHLCV a bar keeps what decides an outcome: whether
and when a limit is reached (`reach`), which protection it crosses (`hit`),
which sides may trade, and the liquidity it allows (`room`). A drawdown breach
is a choice of the mode's next-state relation. The operators of `SimulatedBook`
take a book `x` (cash, positions, fills of this bar) and return one; the three
modes' actions assign the result.

`BacktestRun`: `NextTimestamp` is one iteration of `run` up to the decision
(expire, execute stops, intents, target or residual), `DecideIntents` and
`DecideTarget` the decision with its validation and replacement, `Breach` the
drawdown halt, `EndOfRun` the forced closing. `frontier` is the latest
availability seen: a decision waits for a bar that starts after it.

`ShadowRun`: `Poll` fetches every symbol (`BarFeed.Fetch`: warm-up ladder,
re-probe after an exhausted one, steady fetch back to the newest cached bar),
judges staleness and releases the cohorts that are complete; `ExecutePending`,
`ExecuteHalted` and `SkipExecution` execute the earliest timestamp and
checkpoint; `ShadowDecide` decides and checkpoints; `Mark` moves the watermark
and checkpoints. Each checkpoint and each request may fail, and `Crash` resumes
from `saved`. A bar starts at an even tick and closes two ticks later, so that
a poll can fall between the closing of a bar and its release.

`LivePlan`: `LiveDecide`, `LiveTarget` and `PlanNextLeg` plan on the reference
prices of a cohort with the same executor, leg after leg against the book the
legs before leave, round to what the venue takes (`VenueQuantity`), judge, and
take a group back whole when a leg cannot be planned. `OrderFills`,
`OrderFails`, `DropPausedEntry` and `DropUnfundedEntry` end one request in one
step, with the group, rebalance and post-fill consequences; how an order gets
there is `OrderWork`.
A fill is booked by its side and not by the intent's action, as
`apply_execution_fill` does: it opens, adds or reduces as the position then stands,
and one that would turn a position over is refused (`Opens`, `Crosses`). What a
pause or the funding check may withhold is judged from what is held at that
moment (`Pausable`, `Judged`), and only a venue of crypto contracts refuses a
reducing order itself.

### Minute book

`tape` is the venue's record of trades, `feed` the subscription as the venue and
the wire have it, `inbox` the bounded queue of the SDK's callbacks, `book` the
fields of `_MinuteBook`, `poll` a poll that waits for a `kbars` answer, while
callbacks go on. `Poll` is `ShioajiBarStream.minutes` up to the query (drain the
inbox item by item, subscribe, end a segment, decide whether a query is due and
paid for), `Answered` and `QueryFails` the rest. `AddTick`, `ConnectionLost`,
`EndSegment`, `SettleStreamed`, `TakeKbars`, `Trimmed` and `Complete` are the
methods of the same names (`frame` is the last two). Each trade is one lot, so a
minute's volume is its number of trades; prices follow the same trades and are
left out. `unseen` is history: the trades of which no tick told, the newest
trade that is known of, the minutes of the trades that `Hidden` names, and the
minutes of the window that no answer reached (`Lacking`). A window may move on,
stay or move back from poll to poll (`Asked`): an adapter turns the engine's `limit`
into its start (shioaji_adapter.py:384-385, 962-976), and the engine doubles that
on the warm-up ladder, widens it in `_fetch_back_to`, and asks for few bars once warm.

What is taken from outside the code: a query is answered within a minute; an
answer holds at least the minutes that closed a minute before the query, unless
the stream itself shows that it lags (the case `take_kbars` can tell) or it is
empty because the traffic cap is spent; a segment's closing print comes at its
end, and not while a query begun after that is answered. The venue's cumulative
total counts on through a segment; the next may restart it.

A trade lost without a sign may be missing from a minute served: one after
which no tick and no news of a lost connection was read, as the module's
docstring says; one before the first tick of a subscription; and one between
the ends of two segments whose counts look as if nothing lay between (`Hidden`).
And a window that moves back is served although the answer for it came back empty,
or did not reach into it (observation 17). `Unreached` names those minutes at each
poll: the ones between the start asked for and the start of the book, when it kept its
old window; the ones from an answer's newest row to the old window; and the ones
after an answer that stops short without showing it, in the minute in which the book
had already settled more. The code keeps no record of them, and the next
answer that reaches a minute ends it. `ServedComplete` excuses these minutes and no
others; `NeverShrinks` excepts them as well.

`PROJECT.json` names the lines of every definition.

## 3. Runs

Every live pass run lets a process start, trade, end and start again as its
events allow. Two kinds of instance are used: *Pair*, two entries of one group
planned together and one recovery exit; *Book*, two ungrouped entries planned
together, a rebalance of two legs (one keeps the group of its position) and
one recovery exit. An exit carries the group id of the position it closes, so
in both an id is used again.

| Run | Instance and events | Shows | States |
|---|---|---|---|
| `faults` | Pair, `Qty` 2; crash, store outage, silence, garbled and lagging answers, timeouts, refusals, account faults, venue cancels, cancels turned down, post-fill breaches | `TypeOK`, `WriteAhead`, `PlacedOnce`, `NoOrphan`, `BookMatchesVenue`, `SerialAtVenue`, and that checkpoint and venue implement `OrderLedger` (`LedgerSpec`) | 486,532 |
| `control` | Pair, `Qty` 1; crash, outage, withheld groups, pause, requested resets and flattens, `halt()` and `reset_halt()` | `HaltOwesCancels`, `UnverifiedSendsNothing`, `PausedEntryNotSent`, `HaltRecordedFirst`, `StartedGroupNotWithheld` | 883,970 |
| `book` | Book, `Qty` 1; crash, outage, mismatches, preflight failures, waiting decisions, two bars in a cycle, drawdowns, pause, exits that no longer reduce | `RecoveryExitsAlone`, `DecidesOnEmptyQueue`, `HaltedSendsNothing` | 459,392 |
| `answers` | Pair without the recovery exit, `Qty` 1, `FairSpec`; outage, silence, requested halts and flattens | `HaltResolves`, `EndedOrderSettles`, `RequestedHaltLands`, `RequestedFlattenEnds` | 27,764 |
| `delivery` | three fills, three bars, two faults, two crashes; one row, one event and one bar refused for good; queues of two, three attempts | `TypeOK`, `EventsAccounted`, `RowsAccounted`, `AuditAccounted`, `DroppedAfterTries`, that the sink is an `OrderedSink` (`SinkSpec`), and `Recorded`, `Settles` | 433,712 |
| `simulated` | two symbols in three modes (below) | `TypeOK`, `GroupWhole`, `LiquidityRespected`, `ExitOwnsSymbol`, `TargetReached`, `DaySession`, `WindowHasNoHole`, `PlannedWhole`, `ExecutesInTurn`, `HaltOnlyReduces` | 569,404 |
| `minutes` | five minutes in two segments, three trades, two windows, each asked for after the other; one fault out of lost and repeated ticks, a lost connection, a query that fails; answers that run behind or come back empty | `TypeOK`, `ServedComplete`, `NeverShrinks` | 1,000,216 |

Why these bounds are enough.

*Live orders.* Orders interact in the model through the queue
(which of them is its head), through their group, and through the halt that
all of them share. Two orders show each of these; the third, an exit, shows
the one kind of order a halted account still sends. With two units an order is
unfilled, partly filled or filled, and two reports can differ by one unit in
either direction; where no property is about partial fills one unit does. All
counters are bounded by the model: a fill by `Qty`, and `sent` stops at 2,
which is already one placement too many. An order that has ended is not
queued again (`Fresh`), so a behaviour handles at most one episode per order
and may then run on without orders. Crashes, outages and requests are not
counted: they may happen as often as a behaviour likes.

*Delivery.* With three fills, three attempts and a queue of two the bound can
be passed before the head's attempts are spent, and the other way round; the
event the sink never takes is the first, so everything stands behind it. The refused
row is the second, between two good ones. Two faults are one call that fails
and the probe after it; `faults < 3` in `RowsAccounted` is therefore always
true in the run, and the theorem below covers the rest. Two crashes let a
number be used again after a crash and a second crash meet the result.

*Simulated runs.* `StartCash` 4, `MaxPosition` 2, `MaxGross` 3, `MaxNet` 2: a
pair of full positions passes each limit, and cash can fall short. A backtest has three
bars, a session boundary at bar 2, four kinds of bar (liquid; thin with a stop
crossed inside; one-sided with both protections crossed; no liquidity), data up
to one bar late, all four residual policies and one bar of delay: the
shortest history in which a resting order expires, a rebalance is deferred and
then completed or cut, and an exit stays owed over a bar. The feed of a
simulated run has six bars, a window of three, two warm-up rungs and one upset (a
request, a feature or a checkpoint that fails, a restart, a late history) among two
decisions that are not empty. Three is the shortest window in which a cycle can pass
over a bar (observation 16), and it does: TLC refutes that a step never moves on by
more than one. A live plan has three bars, one deferral and a
symbol the venue takes in lots of two. The backlog bound of the rolling cache
(`Overflows`: more than eight bars here) is out of reach of six bars: the code is
in the model and the case is not in the run. For `WindowHasNoHole` and
`ExecutesInTurn` the theorems of section 5 cover it, and every longer window.

*Minutes.* Two segments with a break, a segment of one minute, windows that
start with the first minute or the second, an inbox of two, a budget of two
queries a day with two minutes between them: an overflow, a spent budget, a gap
at a segment's end, a window that moves on, one that moves back and a query over a
break all occur, with one injected fault and any number of overflows, late and empty
answers. Without the minutes in `unreached` TLC refutes `ServedComplete` here.
`NeverShrinks` needs its exception only on a larger instance, and so holds here without
it: a minute is lost by the third query of a day, in a segment whose minute before
the current one is streamed (TLC finds it with `Session` {0, 2, 3} and `DailyBudget` 3,
where the whole check takes too long); the theorem of section 5 is about all of them. The
`refused` event (a subscription the venue drops silently) is in the model and not
in the run.

The coverage report of every pass run shows each action and each disjunct taken.

Five runs refute what the guide (`docs/guides/engine-usage.md`, lines in
parentheses) says:

| Run | Refuted | How |
|---|---|---|
| `breach_leaves_order` | every tracked order gets a cancel, owed until it ends (1042, 1055) | a rebalance sends a leg that rests, and the equity check of the same bar finds a drawdown breach: its exits cannot be queued (engine.py:4840), the account halts owing nothing, and the order is neither polled nor cancelled until a restart |
| `group_after_crash` | a failed leg cancels its group's remaining legs (324) | the process ends after the leg's end is checkpointed and before the group is cancelled; the restart sends the next leg |
| `fill_unchecked` | every exposure-increasing fill is checked (657) | `_entry_fill_unchecked` is not in the checkpoint |
| `cancel_unrecorded` | each cancel records itself before it is sent (1040) | a failed write leaves `cancel_requested` set in memory, and the next pass takes it for recorded |
| `own_bar` | an intent decided at T is eligible on its symbol's next observed bar (417) | one symbol's bar comes late; the event of its time has been decided for the others and left an intent for it, which is ready when the bar comes and executes on it |

## 4. Fairness

`FairSpec` assumes of the engine only that it keeps taking steps
(`WF_vars(EngineStep)`): `run` loops until it is told to stop, and an
exception of a cycle is caught there. Of the environment it assumes that what
is retried for ever succeeds some time: the halt's write, the carried rows'
write, a start's reads, a status read of an order, a cancel (strong fairness,
since each is enabled only when the engine comes round to it). Nothing is
assumed of fills, of operators or of the order in which orders are tried.
Crashes are not in the `answers` instance: a process that ends again and again
never gets anywhere. `RequestedHaltLands` has an exception for a process that
ends, since requests live in memory. `RequestedFlattenEnds` has one for a
placement that was never answered and cannot be found: with no order id and
nothing at the venue the flatten waits, as the guide says it should.

`Delivery.Spec` assumes `WF_vars(Cycle)`: while the process lives, `run` polls
again after every error. Nothing is assumed of the store or the sink except
that faults and crashes are bounded in number (`MaxFaults`, `MaxCrashes`);
what is refused for good stays refused. `Recorded` holds back for a process
that ends first, since its fill is then reported again to the next one.

`SimulatedRuns` and `MinuteBook` have no liveness properties. That a simulated
run gets to every bar cannot be one: a decision that is repeated after a failed
checkpoint fails again on every poll (observation 5 below).

## 5. Proofs

### Live orders: types and sends

`LiveTraderProofs` proves for every set of orders, groups, ranks, plans, every
positive `Qty` and every `Events`, from the assumptions `LiveState` names:

| Theorem | Property |
|---|---|
| `TypeCorrectness` | `Spec => []TypeOK` |
| `WriteAheadHolds` | `Spec => []WriteAhead` |
| `PlacedOnceHolds` | `Spec => []PlacedOnce` |
| `HaltedAccountSilent` | `Spec => HaltedSendsNothing` |
| `Invariance` | `Spec => []IInv`, from which the others follow |

None of the four is inductive. `TypeOK` says that a booked quantity stays in
`0 .. Qty`; the code books the difference of two cumulative fills, so the
types also need that book and tracked order agree (`BookedFill`), and that an
order that may still trade is not full (`SoundOrder`). A cancel's answer must
have a status the queue knows, so an order the engine is cancelling must be
one the venue received (`Cancelled`, resting on `Recorded`: whoever has an
order id or a pending cancel was received). `PlacedOnce` needs that an order
not attempted was never sent, in memory **and** in the checkpoint, because a
crash turns the checkpoint into memory (`Recorded`); and between the write
and the placement it needs that the order at hand is marked in both
(`Placing`). The same conjunct carries `HaltedSendsNothing`: at `place` the
order is a recovery exit or neither memory nor checkpoint is halted.

The step is split by `Steady`: a step that sends nothing, forgets no attempt,
writes to the checkpoint either nothing or the new memory, and leaves control
at a place with no obligation or with one it meets. `SteadyKeeps` shows once
that a steady step keeps `IInv`; then there is one lemma per action, and only
`Attempt`, `PlaceAnswered`, `PlaceUnclear`, `Crash`, `Start` and
`ResumeEntries` are not steady and are proved on their own.

The modules below build on `IInv`, from the same assumptions. Two of those are
worth knowing: a rebalance's addition belongs to no group (a whole-book target
is ungrouped, executor.py:2821), and a request belongs to one decision. A group
id may be used again, by a later decision or by the exit of its position.

### Live orders: memory, checkpoint and venue

| Theorem of `LiveOrdersProofs` | Property |
|---|---|
| `NoOrphanHolds` | `Spec => []NoOrphan` |
| `BookMatchesVenueHolds` | `Spec => []BookMatchesVenue` |
| `SerialAtVenueHolds` | `Spec => []SerialAtVenue` |
| `RecoveryExitsAloneHolds` | `Spec => []RecoveryExitsAlone` |
| `LedgerImplemented` | `Spec => LedgerSpec`, the refinement of `OrderLedger` |
| `OrdersInvariance` | `Spec => []OInv`, from which the others follow |

The four invariants speak of memory and venue, or of the checkpoint and venue.
A crash exchanges the two, so `OInv` says the same of both: `Sound` (what a
memory knows of each order at the venue, that only its head was attempted, and
that exits share the queue with nothing else). It adds:

- `Before(disk, live)`: order by order the checkpoint is in no later phase
  than memory, and has booked no more. Without it a save that lands late could
  take an order back.
- `Hands`: what each place of the program counts on after its last call. The
  order at hand of a placement, a lookup or a cancel is still tracked; a cancel
  loop's remainder is tracked and does not hold the order being cancelled;
  decisions and rebalance legs meet an empty queue. The code holds these in
  local variables across calls, and no snapshot has them.
- At `place` memory and checkpoint are equal, and a venue that was sent nothing
  fills nothing (`Untouched`).

`Orderly` says what the queue may do in one step: memory becomes sound and goes
no phase back, the checkpoint stays or becomes the new memory, the venue makes
one of its moves, control goes where `Hands` holds. `OrderlyKeeps` shows that
this is enough; the lemmas named `...Leads` show it of each way the code
changes memory (a cancel mark, an attempt, a report, dropped orders, a queued
plan), those named `...Hands` of each way control goes on, and one lemma per
action joins them. The refinement follows phase by phase:
an order of the abstract ledger is unknown, queued, attempted or closed as the
checkpoint has it (`Phase`), and `OInv` leaves no step that goes a phase back,
sends before the attempt is recorded, or closes what may still trade or is not
booked to the end.

### Live orders: decisions and halts

| Theorem of `LiveControlProofs` | Property |
|---|---|
| `DecidesOnEmptyQueueHolds` | `Spec => []DecidesOnEmptyQueue` |
| `UnverifiedAccountSilent` | `Spec => UnverifiedSendsNothing` |
| `HaltRecordedBeforeCancels` | `Spec => HaltRecordedFirst` |
| `HaltOwesCancelsHolds` | `Spec => []HaltOwesCancels`, if `"drawdown" \notin Events` |
| `ControlInvariance` | `Spec => []CInv` |

`CInv` adds to `OInv` which caller may stand at which place in which state of
the account (`Steered`): while the book is unverified the queue is empty and
no bar is being worked off; a loop that cancels for a halt runs only with the
halt in memory and in the checkpoint; a halt whose write failed is in memory.
Nearly every step is `Work`: it neither halts nor resets, leaves the debts
alone and goes on at a place that fits. The others (`Halt`, `RetryHalt`, the
passes' ends, resets, flatten, crash, start) are proved on their own.

`HaltOwesCancels` rests on `Owed`: a halted account with orders of its strategy
left either owes their cancels or is in a loop that sends them. That is false
where a drawdown breach can happen, because the breach halts with orders at
work and cancels none; the run `breach_leaves_order` is the counterexample. So
the theorem has that event as its only exception, in its hypothesis.

### Live orders: groups

| Theorem of `LiveControlProofs` | Property |
|---|---|
| `PausedEntryHeld` | `Spec => PausedEntryNotSent` |
| `StartedGroupComplete` | `Spec => StartedGroupNotWithheld` |
| `GroupsInvariance` | `Spec => []GInv` |

A group is judged (pause, funding) once, before its first leg; all the code
keeps of that is `_unstarted_groups`. So `GInv` says what that set means, in
memory and in the checkpoint: a queued leg of a group that is not in it, and
that was not attempted itself, has another leg that was (`Tied`); of a queued
group in it, the decision sent nothing yet (`Unbegun`); a group the funding check drops, one write per
leg, leaves the queue whole before it leaves the set (`Dropping`); and the leg
about to be sent while entries are paused finishes a group that was begun
(`Starting`). Most steps are `Routine`: they leave the groups as they are, and let
no order out of the queue but one the venue was sent.

An id used again does not disturb this: a decision's legs are queued on an empty
queue and `unstarted` is assigned with them, so what is judged are the legs at
hand. That is why `Unbegun` and the property speak of the legs of one decision and
not of all orders with one id. A process that ends withholds nothing: its
orders are in the checkpoint, and the next start takes them up.

### Delivery

`DeliveryProofs` proves for every number of fills, bars, faults and crashes,
every bound of the queues and any sets of refused rows, events and bars, from
`DeliveryAssumption` alone:

| Theorem | Property |
|---|---|
| `TypeCorrectness` | `Spec => []TypeOK` |
| `EventsAccountedHolds` | `Spec => []EventsAccounted` |
| `RowsAccountedHolds` | `Spec => []RowsAccounted` |
| `AuditAccountedHolds` | `Spec => []AuditAccounted` |
| `DroppedAfterTriesHolds` | `Spec => []DroppedAfterTries` |
| `SinkImplemented` | `Spec => SinkSpec` |
| `Invariance` | `Spec => []IInv` |

The properties speak of what the checkpoint holds; none is inductive, since a
checkpoint is written from memory. So `IInv` says the same of memory
(`RowsHeld`, `BarsHeld`, `EventsHeld`), and a crash, which makes the checkpoint
memory, keeps it because the checkpoint never runs ahead (`OneRow`).

- *Rows.* At most one row waits, that of the last fill, because no order work
  starts before the carried rows are written (`OneRow`, which needs to know who
  may be where: `Placed`). That a sound row is dropped only after three lost
  calls is counted along the way of a failed write (`RowFaults`: one fault at
  the probe, two at the second try, three at the second probe).
- *Audit rows.* `BarsHeld` names the bar in hand between its queueing and its
  watermark, and says that what an unfinished flush has offered is stored or
  recorded, so that cutting the queue loses nothing.
- *Events.* `Ordered` puts the stored events, the queue and the unpublished
  results in one rising line, with one exception: the head may be stored
  already, when the sink's answer was lost; then the sink knows its number
  (`Known`) and storing it again changes nothing. That an event is offered only
  after its fill's checkpoint follows from `OneRow`. Before a crash a number
  stands for one event (`Unambiguous`), so nothing is swallowed. From `Ordered`
  every `Stores` step appends a larger fill number or changes nothing, which
  is the refinement of `OrderedSink`.
- *Attempts.* `TriesCounted` relates the head's count to the attempts made on
  that very event; popping a head resets it.

The lemmas about queues (what `Append`, `Tail` and `SubSeq` do to the set of
their elements and to rising order), about `Min` and `Max` of the sets used,
and one lemma per action and part of `IInv` come first; `InvariantStep` puts
them together.

### Simulated runs: the history of a decision

`ShadowRunProofs` proves for every set of symbols, every warm-up length, ladder
of requests and re-probe interval, every feed and any number of upsets, from
`FeedAssumption` alone:

| Theorem | Property |
|---|---|
| `WindowWithoutHole` | `Spec => []WindowHasNoHole` |
| `CycleTakesEveryBar` | `Spec => [][TakesEveryBar]_vars`: of a symbol with a mark a new cycle takes up the bar after the mark and all that follow up to some bar, in windows of more than one bar |
| `HistoryInvariance` | `Spec => []HistoryInv`, from which the two follow |

The code holds no record of which bars a cache should have. It counts rows
(`_warmup_gap`) and merges answers, so that a cache may well have a hole for a
while: below, a re-probe merges an answer that fills the window alone without
reaching the cached head. What the proof needs is which holes are harmless.
`HistoryInv` says of every symbol, in a window of more than one bar
(`CacheGood`):

- before its first mark the cache has no hole;
- after it, none up to the mark, and none at all as soon as the bars up to the
  mark are enough to evaluate the next bar (`Good`). A hole behind the mark
  therefore always comes with a gap, and a symbol with a gap blocks the poll;
- a symbol that has a mark is served at least a window, since it was decided
  once and a source only grows; a symbol that is backing off holds something;
- while a cycle is due, every symbol's cache has no hole and a whole window.

A source's answer is a tail of what it serves, all of it or at least the
requested number less the forming bar (`AnswerTail`, `AnswerWhole`). A poll asks
until the answer reaches the cached head, the source runs short, or the request
is the largest. In the first case the union has no hole (`Bridge`); in the
second the answer is the whole history; in the third it holds so many
bars that the union is either free of holes in its newest window (`JoinedTop`)
or beyond the replay bound, and then it is not stored (`Stored`). Between two
polls nothing touches the caches (`Quiet`); a mark moves to a bar of a cache
without a hole; a crash empties the caches and goes back to the checkpoint's
marks, of which the invariant says the same.

A window of one bar stands apart: there caches do get holes that no gap shows,
and no decision sees more than the bar itself. That is why `TakesEveryBar` leaves
it out (observation 7).

For every longer window, what is due of a symbol with a mark is part of a cache that
holds its mark and has no hole, cut off
where a cohort is held back. Observation 16 is about a symbol without a mark. How
one event after another is then worked off is the subject of `InTurnHolds` below.

The bound on feed, upsets and emissions is not used. Writing this proof corrected
the model in one place: the widening request of `_fetch_back_to` ends with the
largest size itself (`min(2 * limit, largest)`), which `BarFeed.Limits` lacked
for windows of six bars and more.

### Simulated runs: book, liquidity, halt, exits, sessions, order of bars, live plans

`SimulatedRunsProofs` proves for every set of symbols, every list of intents and
every target an instance admits, every bar shape, policy, feed and budget, from
the assumptions the modules name:

| Theorem | Property |
|---|---|
| `SimulatedBookSafe` | `Spec => [](mode # "live" => TypeOK)` |
| `BookSafe` | `Spec => []((mode = "live" => cash >= 0) => TypeOK)` |
| `PlannedWholeHolds` | `Spec => []PlannedWhole` |
| `LiquidityHolds` | `Spec => []LiquidityRespected` |
| `HaltReduces` | `Spec => HaltOnlyReduces` |
| `ExitOwns` | `Spec => []ExitOwnsSymbol` |
| `DaySessionHolds` | `Spec => []DaySession` |
| `RunInvariance` | `Spec => []RunInv`, from which the others above but `BookSafe` and `PlannedWholeHolds` follow |
| `PlannedInvariance` | `Spec => [](mode = "live" => PlannedInv)` |
| `LiveSafety` | `Spec => [](mode = "live" => LiveSafe)` |
| `CycleInvariance` | `Spec => []CycleInv` |
| `InTurnHolds` | `Spec => ExecutesInTurn` |

The assumptions worth knowing are two. A list holds one intent per symbol, which
`validate_strategy_decision` enforces before anything executes
(executor.py:3553-3556). And a target names no more than `MaxPosition` of a
symbol, in a backtest, where the same validation refuses it.

The work is in the executor, which is deterministic and written with folds:
over intents, the members of a group, positions, the legs of a target, fills.
`SimulatedBookProofs` describes each operator by a relation between the book it
takes and the book it returns, and shows that it survives composition:

- `Fits`: cash and positions still add up and no position is too large (`Sound`),
  earlier fills stay, and a symbol that got a new fill is within its bar's room
  (`Liquid`);
- `After`: a book that fits and owes no exit it did not owe before; the
  protective exits may add some, but only on the symbols they look at (`ExitsIn`);
- `Shrinks`: no position is larger or turned over, which is what a halted run
  is held to;
- `Bounded`: a step over the gross limit leaves less over it, which is what
  `Overexposed` in the code compares.

The induction over a list is over the prefixes of that list: a fold's
intermediate values are a recursive function on `0 .. n` (`Unfolding`, `Unwound`,
`Chain`), and a set of numbers that contains 0 and with each its successor
contains all (`Upward`, from well-foundedness of inclusion on finite sets;
`SetInduction` for folds over sets). Both are theorems about concrete sets, so
neither needs an operator as a parameter.

`RunInv` says what each kind of run keeps between two steps. All of them keep
`BookOK`: a sound book within the gross limit unless halted, pending orders that
are orders, fills of day limits in their session. A backtest adds that the
bar's fills are within its room and what is left of a target aims at no symbol
that owes an exit (`Free`). A simulated run says the same of memory and of the
checkpoint, and that what a symbol traded it traded on the last bar it executed
(`Absorbed`): a restart may execute the bar again, and it must not spend the
budget of one bar on another. A live plan counts the requests still out against
the room together with the fills (`Budgeted`), since what is reserved and what is filled
move from one to the other as orders end.

The order of execution needs what is left of a cycle, between its steps. `CycleInv`
says of a bar still due of a symbol with a mark that every bar from the mark up to
it is due and cached too, or that it lies within `Warmup - 1` of the mark; of a
symbol without one, that no bar due lies further than that from any cached one. A
poll establishes it (`PollTurns`): what is due of a marked symbol follows its mark
in a cache without a hole, and a symbol without a mark has a window of its cache,
which is no longer than `Warmup` (`WindowLength`). Events are taken in order
(`FirstDue`), so when one is marked nothing before it is due (`MarkTurns`). A mark
that the cycle itself set is the second alternative: that is where bars may be
passed over (observation 16), in windows of three bars and more, and at most
`Warmup - 2` of them, in one step (`InTurnHolds`). A window of one bar is left out of
this half, since it loses bars (observation 7). The other half, that
nothing trades in a step that takes no symbol to a new bar, holds for every window:
both executing steps require that some symbol has not executed the timestamp
(`Unexecuted`), and that the timestamp is not before the last one of any (`OutOfOrder`).
A bar that comes late for one symbol does execute the timestamp again, also for the
symbols that were there before, and an intent left for these may fill then: that is
the run `own_bar`.

A live plan is a fold over units, an intent without a group or all members of one,
and a fold over the members inside it. `PartOf` is what one unit adds to the plan:
nothing, or a request for every member, at one fraction of what each asked
(`Proportional`). No symbol is requested twice, because a list has one intent per
symbol, and the book that was judged is the book before the plan with every request
moved in turn. `Foresees` says that of any point in the sending: for each symbol
with a request still out the judged position is the present one moved by it, for
every other the two agree, and the worth of the two books is the same. A whole fill
carries it over (one request fewer, its position moved), any other ending forgets
what was foreseen, and with no request left the two books are equal, which is the
first half of `PlannedWhole`.

For the book itself `LiveSafe` says what makes the next fill harmless whatever
became of the ones before: the requests out are for different symbols, and each
fits the position it will find (`Fit`): it is for what the intent made of that
position, so it stays within `MaxPosition` and turns nothing over. A request that
ends disturbs no other's position (`Apart`), and one that is withheld leaves some
of the others, each still fitting. The gross limit holds because the fill that would
break it halts the run in the same step (`_post_fill_risk_halted`). What does not
follow is `cash >= 0`, the one thing `BookSafe` leaves out (observation 19).

### Minute book

`MinuteBookProofs` proves for every calendar of sessions, every record of
trades, any number of faults, every inbox size, budget and spacing, from
`BookAssumption`:

| Theorem | Property |
|---|---|
| `TypeCorrectness` | `Spec => []TypeOK` |
| `ServedCompleteHolds` | `Spec => []ServedComplete` |
| `NeverShrinksHolds` | `Spec => NeverShrinks` |
| `Invariance` | `Spec => []IInv`, from which the three follow |

The windows asked for are arbitrary: nothing is assumed of the order in which they
come. What the properties except is what `Unreached` names, at the poll that serves it.

What is served is not what the book knows best at each moment but what it holds
of each minute from one of two sides, so the invariant (checked by TLC on the
instance of the run before it was proved) speaks of both, and of the reader's
place on the wire:

- *Settled minutes* hold each trade of theirs, and no trade will come in one any
  more (`Settled`, `Closed`). That the volume is exact there is what a refill
  or a stream that goes on from it rests on.
- *Streamed minutes* from the point of coverage on count each trade up to the last
  one known of (`Streamed`). This cannot be said of `minutes` at large: before that
  point it holds whatever was seen, and is not served.
- *What was served is held* (`Held`): neither side falls short of it, which is
  `NeverShrinks` one step ahead. A lagging `kbars` answer may be shorter than
  what was served; it keeps only the part before its newest minute, and the
  settled ones it has not reached stay (`Kept`).
- *Counting*: the total the next tick is compared with is that of a trade `at`, and
  every trade since `at` that is known of lies in a minute the stream does not
  vouch for. So a total that follows on shows that nothing was missed, and one
  that does not moves coverage behind the gap.
- *Ahead*: on the wire ticks come in the order of their trades, each is news to
  the reader, with at most one exception: the first of the inbox may be the tick
  read last, delivered again. It is recognised by its total (`Match`), or falls
  where nothing is covered. A trade that no item of the inbox tells of is in
  `unseen`, also when the full inbox dropped it.
- *Unread*: no tick still on the way is of a minute before one that was served.
- *QueryInv*: what is on the way while a query is answered is of the query's
  minute or later. The answer settles earlier minutes only, so no minute is counted from
  both sides.

The steps follow the code: one lemma for each method of `_MinuteBook`
(`SettleKeeps`, `EndKeeps`, `LostKeeps`, `FreshKeeps` and `AgainKeeps` for a tick,
`SkipKeeps`, `TrimKeeps`, `TakeKeeps`), the drain by induction over the inbox
(`DrainKeeps`), and one per action. The recursive function `DrainedTo` replaced a
fold for this, with the same steps.

Writing the proof changed the model in three places. The bound of `finalBefore`
in `TypeOK` was too low (closing a gap over a break may pass the last minute).
The excuse for lost trades did not cover a whole segment lost with a restarting
count, which leaves no sign either. And the venue's total is now counted from the
record, where before it was an assumption that two segments' totals never meet.

### Model-checked only

- All liveness: it rests on fairness, and the prover cannot reason about `ENABLED`.
- `cash >= 0` of a live run, all that `BookSafe` leaves out of `TypeOK`. A group is
  judged for its cash once, when its first leg goes out; other orders may spend
  the cash until the last leg does, or an exit it counted on ends short
  (observation 19). That the instance never goes below zero follows from its
  lists, so it is no theorem.
- `GroupWhole`: it relates the fills of a bar to the intents of a list by the
  group's name, which holds where a name belongs to one list; the code does not
  require that, so as stated it is about the instance.
- `TargetReached`: it depends on the cash paying for the target, over several
  bars and what they allow.
- `HaltOwesCancels` where a drawdown breach happens is neither: it is not true
  there, see above.

## 6. What is left out, and why

- Prices, costs, financing, weights as fractions, metrics: floating-point
  arithmetic. In the live modules verdicts that depend on it are choices; in the
  simulated ones all prices are 1.
- `max_order_notional`, minimum notionals, instrument quantity steps in
  simulated runs (quantities are whole lots there; the live venue's lots are
  modelled), the limit-price collar, ADV budgets.
- In-place revisions of bars, optional symbols, batch features, auxiliary inputs
  and the newest-bar-only rule of a live run.
- A simulated run's publications and their failures; cash drift alerts.
- Alerts, notifications, runtime events: no order, bar or checkpoint depends on
  them.
- Two processes on one account: the lease is one advisory lock of the database
  and nothing in the engine rules an overlap out, so there is nothing to hold.
- Shioaji's continuous-contract aliases and the change of the day.
- SQL, vendor formats, configuration, dashboards, reports: translation and I/O.
- In `LivePlan` a halt ends the behaviour, and the venue's free balance is 0 or
  the ledger's cash; what a halted account does is `AccountHalt`.
- A cohort that is held for a late symbol is held by a wall-clock timeout of 30
  seconds in the code; here one tick, with polls more frequent than bars.
- One guarantee of the guide was looked at and is not a property here:
  a group that cannot be funded sends nothing (line 619). Its members are dropped
  one by one, each with a write (`_drop_unfunded_entry`, lines 5383-5387), and
  `unstarted` is cleared only after the last of them, so that a failed write
  leaves a group that is judged again; `StartedGroupNotWithheld` covers the
  part of it that could hurt.

### Observations

Seen while modelling, followed by the models as the code has them, and not
runs of their own:

1. `_execute_order_intent_groups_atomically` (executor.py:2351) returns only the
   groups' leftovers: with any group in a batch, the resting intents of its
   ungrouped units are dropped (engine-usage.md:923 has a `gtc` order work until
   it is filled or the run ends).
2. In a simulated run an intent that raises in the middle of such a batch (a
   notional limit) after ungrouped fills leaves positions moved and cash not.
3. A publication that raises after positions are updated and before the
   execution watermark makes the retry check the bar's stops again.
4. A bar that is released for a time before the last completed cycle raises on
   every later poll; the documentation says so.
5. A failure between the checkpoint that holds a decision (engine.py:3715) and
   the one that moves the watermark (3153-3160) decides the event again: a
   strategy that repeats its intents meets them as duplicates, on every poll
   (external-data.md:208 expects a retry).
6. A simulated portfolio target with a symbol missing at its execution raises
   after the pending decision was cleared (6102-6112): the target is lost.
7. With `warmup_periods` 1 a simulated run skips uncommitted bars after a
   restart; engine-usage.md:1507 says it replays them.
8. A rebalance's budget of delayed bars is not reset by the target that
   supersedes it, and a partly filled `gtc` order keeps no remainder; both are
   documented.
9. A market order with `day` that its first bar cannot fill rests and never
   expires: only limits are judged by session.
10. A symbol readmitted at an older event may be decided on fewer rows than the
    warm-up asks for (3050-3056), and before a symbol's first completed mark a
    failed first event makes the next poll take the newest bar only.
11. A live target on a symbol without `quantity_step` leaves the remainder the
    adapter rounds away; it is planned again, refused as below the venue's
    minimum, and halts the account.
12. The check after an entry fill (6397-6434) halts whenever a limit is passed,
    also when the plan allowed the entry because it lowered the risk.
13. A grouped close carries the group of the position it closes
    (executor.py:781): closes of ungrouped positions run ungrouped, and a failed
    leg halts the account instead of cancelling its group (engine-usage.md:324).
14. After a crash a sequence number may be used for another fill, and the sink
    takes it for the one it holds (`gone.swallowed`; architecture.md:703 calls
    the sequence restart-stable). `EventsAccounted` therefore excludes it only
    while no process has ended.
15. A crash between the probe's snapshot-only save and the row's write leaves
    the ledger row of an ended order as it was (`gone.unwritten`).
16. A symbol without a mark contributes only its newest bar to a cycle, but an
   older event takes it in as well when its cache has that bar (3117-3134). If
   the first poll of a run finds symbol A at bar 2 and symbol B at bar 4, event 2
   gives B its first mark, event 4 follows in the same cycle, and B's bar 3 is
   neither executed nor decided; engine-usage.md:1509 has a simulated run replay
   every uncommitted bar. It takes a window of three bars, a symbol that is two
   bars late at the start, and a tolerance of two, as in the run `simulated`.
   `ExecutesInTurn` therefore bounds what a step may pass over.
17. A poll for an earlier window than the last asks `kbars` for it. If the answer
   comes back empty (the traffic cap), `take_kbars` keeps the book of the old window;
   if it runs behind the stream, nothing is known between its end and the old
   window. `frame` then serves the new window as complete all the same
   (shioaji_stream.py:275-283, 304-316, 326-348), and minutes that were traded have
   no row until a later answer reaches them. The
   same happens without a sign when an answer settles less than an earlier one of the
   same minute did, and then a minute that was served complete may be served with less. TLC
   finds the first in the instance of the run `minutes`, the second in the larger one
   named in section 3; `served.unreached` names the minutes, which `ServedComplete`
   and `NeverShrinks` except.
18. When every tick of a segment is lost and the next segment restarts the
   cumulative volume, the next tick follows on either reading (lines 171-174) and
   nothing shows the loss; `_end_segment` asks `kbars` only for a segment of
   which at least one tick came.
19. A group is judged against the venue's free balance at its first leg only
   (engine.py:5335), and which groups have sent a leg is known by name
   (`_unstarted_groups`, 4847-4848). A request that closes a position carries the
   position's group (executor.py:781), whatever list it comes from. So if a list
   closes A, which was opened in group g, and enters C in a new group g, the exit
   of A starts g: if another entry of the list fills in between and another exit
   ends short, C goes out unjudged and may leave the ledger's cash below zero. TLC
   finds it with four symbols, `StartCash` 2, a first list that opens A in g and D
   in h, and a second that closes A, enters B, closes D and enters C in g, where the
   exit of D fails. It takes a strategy that uses a group's name again.

## 7. Plan

All the modules first planned are there except the alerts and the lease, on which
no property rests (above), and the auxiliary data's staleness. Every safety
property of the live order work, of the delivery and of the minute book that a
run checks is also a theorem, and of the simulated runs all that do not depend on
an instance's lists, numbers or names.

Next, in order of importance:

1. `GroupWhole` for lists whose group names are their own.
2. The order of publication and checkpoint in a simulated run beside
   `Delivery`'s.
3. Alerts by key, once a property of an order or a bar depends on them.
