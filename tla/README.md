# A TLA+ model of trade-relay

trade-relay reads analysts' alerts from Discord, turns them into option orders,
sends those to a broker, watches the positions they open and sells them again.
It is one Python process: one asyncio event loop, one SQLite file, one brokerage
account. What is hard about it is not any single function but the order in which
its tasks reach the database and the broker: an analyst, a stop-loss and the
operator may all want to sell the same contracts, the broker answers late or not
at all, and each of them acts on what it read before its last `await`.

This directory holds TLA+ modules for the parts where that matters, TLC
configurations that check them on small instances, and TLAPS proofs of the
results that should hold for every instance. `PROJECT.json` maps each definition
to the lines it models.

Contents: [components](#1-components) · [modules](#2-modules) ·
[runs](#3-runs) · [disagreements](#4-where-code-and-documentation-disagree) ·
[proofs](#5-proofs) · [not modelled](#6-what-is-left-out) ·
[further work](#7-further-work)

## 1. Components

### Exit orders: `app/execution/public_executor.py`

State: rows of `orders` and `positions`; the broker's own orders; the tasks that
wait for something, with their local variables. The other brokers subclass it.

| operation | what it does |
|---|---|
| `_sell_from_alert` | decides how much an analyst's SELL sells, and of what |
| `_place_sell` | cancels ("displaces") pending SELLs it outranks or is skipped by one that outranks it, inserts a row, POSTs, starts a poller |
| `cancel_order` | cancels at the broker, waits up to 8 s for a terminal status, stamps the row |
| `_repeg_close_all_sell`, `_repeg_partial_sell` | watchers: sleep, quote, cancel, re-send nearer to the market |
| `_poll_order_fill` | follows one order to its end, books its fills into row and position |
| `_finalize_sell_fill` | idempotent booking of a fill |

Callers of `_place_sell` run beside each other: the queue worker (analyst
SELLs), the position monitor (stops, profit rungs), the dashboard (manual exit)
and the watchers. It is correct when the account is never sold short, every fill
reaches its row and position exactly once, nobody replaces an order that may
still trade, and every chase ends.

### Entry path: `app/execution/public_executor.py`, `app/risk/`

`execute` is a chain of gates and sizers (spread and small-account switches,
re-entry guard, whale caps, guardrails, scorer, Kelly, VIX), after which `_buy`
quotes, prices and POSTs. What the quote refused is watched by
`_retry_buy_on_slippage_cooldown`, what was placed is chased by `_repeg_buy`, and the
operator may resubmit what was skipped. Fills, partial ones as they come, are
booked by the poller and `_finalize_buy_fill`. Correct when a count that one
stage lowered is not raised by a later one, every limit is on the broker's grid
and near the alert's price, one alert gives one effective order however many
tasks work for it, and an analyst's exit takes back what of his is pending.

### Order queue: `app/execution/order_queue.py`

State: a `PriorityQueue` of `(priority, seq, job)`, the counter `seq`, a worker
task. `dispatch_execution` enqueues, or tells the caller to run the job as a
task of its own when there is no worker or no room; `_worker` takes the least,
awaits it under a timeout, and survives whatever it raises. Correct when exits
overtake entries and nothing overtakes within a lane, one job runs at a time,
and no job can hold up the others for ever.

### Guardrails: `app/risk/guardrails.py`

State: module globals (the halt, recent alerts and content hashes, last trade
times, stop-loss bans and their daily counts), the `system_state` row of the
halt, and what it counts in `alerts`, `orders` and `positions`.
`check_guardrails` runs in a thread for every alert of either side. Correct when
its caps, bans and halts bar entries, through restarts and midnights, copies of
one signal enter once, and nobody's exit closes what is not his.

### Alert intake: `app/ingest/discord_listener.py`, `forwarder.py`

A signal reaches the listener more than once: posted in two channels, relayed by
the forwarder as a webhook's message or in process, mirrored by a peer, replayed
by the gateway, backfilled after a restart. Three memories tell copies apart
(the forwarder's of texts, the listener's of contents, the guardrails') and two
keys of `alerts` (message id, content). Correct when one signal gives one entry
and the copy of a barred author costs nobody an order.

### Position monitor and hybrid engine: `app/monitors/position_monitor.py`, `app/execution/exit_engine_v2.py`

State: per position, high-water mark, latches of fired stops and rungs, counts
of deferrals and of broker refusals, and for the hybrid engine counters of ticks
and seconds. One loop prices every open position and fires exits one after
another, awaiting each. Correct when each target sells once, the stop only
tightens, a stop whose order died fires again, and no cut rests on one print.

### Reconciler: `app/monitors/reconciler.py`

Compares rows with the broker's portfolio, closes or reopens positions, adopts
sales made while nobody looked, resumes pending orders, and gates the first BUY
after a start. It fetches, awaits, and then writes. Correct when the books come
back to what the account holds, and what is in flight is not damaged or counted
twice.

### Brokers: `ibkr_broker.py`, `ibkr_sdk_bridge.py`, `tradier_broker.py`, `lime_broker.py`, `spread_executor.py`, `broker_router.py`

Each overrides placement, cancel and poller of the exit orders. IBKR looks at
`Trade` handles, journals cancels it could not send, and catches up on each
connect; Tradier is asked by GET and rests a whale's bracket as one OCO order;
Lime tells of changes through a socket. `SpreadExecutor` opens and closes
butterflies at Tradier with rows and pollers of its own. One broker is active.

### Dashboard and start-up: `app/core/app.py`

Manual exits, cancels of orders and alerts, overrides of skipped alerts,
configuration; the pollers resumed at start; the VIX refresher. It calls the
executor directly, not through the queue.

### The rest

Parsers, order retry (unused by the order path), trader control, health, greeks
and API monitors, analytics. `PROJECT.json` lists each with its status.

### How they interact

```
Discord -> listener -> [order queue] -> worker -> execute -> guardrails
   \-> forwarder -^        |                        |  \
                           +- no room: own task ----+   BUY half, _sell_from_alert
position monitor ------------- _fire_exit -----------------> _place_sell -> broker
dashboard -------------------- _fire_manual_exit ----------> _place_sell
          -------------------- cancel_order, resubmit
_place_sell / BUY half ------- starts ------> _poll_order_fill -> orders, positions
                       ------- may start ---> a re-peg watcher -> cancel_order, POST
reconciler, start-up --------- portfolio, orders ----------> positions, orders, pollers
```
## 2. Modules

| module | what it is | extends |
|---|---|---|
| `ExitOrders` | the SELL orders of one contract: requests, displacement, cancels, watchers, pollers, the broker | |
| `ExitLedger` | what those promise: contracts sold and contracts booked | |
| `OrderQueue` | the priority queue and its worker | |
| `TwoLanes` | what that promises: two first-come-first-served lanes and one server | |
| `DailyHalt` | the daily loss limit and its halt, seen by concurrent checks | |
| `TradingHalt` | what that promises: a halt nothing can forget | |
| `OrderPricing` | price grid, limits of entries and exits, slippage, bands, re-pegs | |
| `Sizing` | the count an alert asks for; scorer, VIX and Kelly adjustments | |
| `EntryDecision` | the stages of `execute` that hand on a count, and `_buy`'s and the watchers' limits | `OrderPricing`, `Sizing` |
| `EntryOrders` | the BUY orders from alert to position row, with their watchers, cooldowns and overrides | |
| `GuardChain` | the guardrails but for the halt: gates, duplicate windows, bans, caps | |
| `AlertIntake` | messages and their copies through listener and forwarder to the guardrails and the worker | `GuardChain` |
| `ExitEngineV2` | the hybrid engine's `evaluate`, as a function of its record and a tick | |
| `ExitLadder` | the position monitor over one position, poll after poll | `ExitEngineV2` |
| `Recovery` | reconciler, restart and resume over one contract | |
| `IbkrOrders` | the SELL orders of one position at IBKR: handles, sessions, the cancel journal, the bracket | |
| `SpreadOrders` | butterflies opened and closed by multileg orders | |
| `RestOrders` | the SELL orders of one position at Tradier and at Lime | |
| `Venues` | the router: one of the last three is traded | `IbkrOrders` |
| `MC...` | instances for TLC | |
| `WorkerProofs` | theorems about the worker and the checks it runs | `OrderQueue`, `DailyHalt` |
| `...Proofs` | theorems about the module so named | |

The modules meet in facts one establishes and another takes. `ExitOrders` has
the queue's effect on exits (the worker takes one analyst SELL at a time) as
`RunnerFree`, which `OrderQueue` has as `OneAtATime`; `DailyHalt` takes it as its
number of `Checks`. An exit is one step in `EntryOrders`, and one pending row in
`ExitLadder`, of whose orders `ExitOrders` has the life; prices are a flag in
`EntryOrders` and numbers in `EntryDecision`.

Several modules fix a *settings* record in their initial states (`rules`, `set`,
`scene`, `way`, `world`): configuration, bounds, and which faults may come. One
run then covers several configurations, each with faults few enough to finish.

Everywhere a task on the event loop runs undisturbed from one `await` to the
next, so each such stretch is one action. The exceptions are threads
(`asyncio.to_thread`), of which the guardrails' are in `DailyHalt`.

### ExitOrders and the code

An exit request and the watcher it leaves behind are one *lane*, whose `pc` says
which `await` it is at:

| `pc` | the task awaits | next actions |
|---|---|---|
| `idle` | has not begun | `Request`, `UserCancels` |
| `call` | the broker's cancel or its confirmation | `CancelSeesFill`, `CancelConfirmed`, `CancelUnconfirmed`, `CancelRaises` |
| `ready` | `cancel_order`'s last broadcast; it returned ok | `Replace` |
| `post` | the POST of the row just inserted | `PostReturns`, `PostFails`, `JobTimesOut` |
| `watch` | the watcher's sleep | `Wakes` |
| `quote` | the watcher's quote | `Quoted`, `QuoteFails` |

`row` is the `orders` table, `remaining` is `Position.remaining`, `polling` the
set of running `_poll_order_fill` tasks. `broker` and `held` are outside the
process: each order's state and what it has filled, and the account's contracts.
The broker does not refuse an order for more than is held, as a margin account
need not. `Accepts`, `Fills`, `FillsOne` and `Kills` are the broker's steps.

Six *faults* can be switched on one by one: a cancel call that raises, a POST
that raises though the order was taken, partial fills, the poller's
`max_pending_minutes`, its run of errors, the queue's job timeout. A run names
the faults it includes.

Abstracted: prices (what is sold does not depend on them), time (a sleep ends
whenever it ends, so no timer is slower than another; the 60-second look-back
for a recent automatic exit in `_sell_from_alert` is thereby allowed to have
passed), the four dead statuses (one `DEAD`), dry-run mode, messages and logs.

### OrderQueue and the code

`state` of each job, its `ticket` (the `seq` it was queued with) and `up`
(`is_running()`). The heap order is `Before`. `Dispatches` draws its number
before it finds the queue full, as the code does. A job that awaits something
that never comes is `wedged`; only the timeout (`Abandons`) gets the worker past
it. Jobs do nothing else here.

### DailyHalt and the code

`check_guardrails` runs under `asyncio.to_thread`, so the loop goes on booking
fills while it runs: each of its readings is a step, and a check is a record of
its phase, its side and the New York date it read. `halt` is `_halt_date`;
`_trading_halted` is true exactly when there is one, since every write sets
both. `saved` is the row of `system_state`. The clock counts the midnights of
New York and of UTC in turn because the halt's day is the one and the loss's
the other. A restart clears `halt` and `loaded` and ends the running checks.
`reliable` is chosen once: a database that never fails, or one whose every
read and write may. A write-through, memory first and row second, is one step;
a crash between the two has the effect of a failed write, which the unreliable
database has. All other guardrails are one unexplained refusal here.

### EntryDecision, OrderPricing, Sizing and the code

Prices are cents and, in the arithmetic of percentages, hundredths of a cent
(`Unit`). The grid is five cents, ten from $3 on. The floor to a tick divides
binary floats: the multiples whose quotient falls short and that land a tick
lower (`Misfloored`) are given as data. `RulesScore`, `AdjustQuantity`,
`KellyCap` and `ContractsForSize` are the sizers; a Kelly cap of none is
`NoCap`, as the code's `None` differs from its 0. `EntryDecision` has one step
per await of the chain, `qty` and `alert._scored_qty` as two variables as they
are two in the code, and lets the cached VIX move between.

### EntryOrders and the code

Each BUY alert has four tasks, the worker's job, the cooldown, the re-peg watcher
and the operator's override, each with its own place and current row; they know
of each other only through the tables. `row`, `pos`, `polling`, `broker` are as
in `ExitOrders`. The guardrails are their two caps, with the counts as the
queries make them. `reopened` remembers the contracts whose closed row a late
fill reopened whole, where the books cannot agree.

### GuardChain, AlertIntake and the code

Time is a small clock; a window of the configuration is a number of its ticks.
A post has an author, an action, what it names, a price and a channel, and how
it is parsed: by expressions at once, or by a model after an await. The row's
life is `rows`, the worker's check and trade of it two steps (`busy` between).
`accepted`, `dropped` and `stopped` are history variables the properties read.

### ExitLadder, ExitEngineV2 and the code

A price is a percentage of the entry. A poll quotes (`tick`), works out stop
level and gates once, and then goes through the rungs of `todo`; rungs that do
nothing are skipped within a step, one that fires is a step, since it awaits.
Between two, the environment fills, kills or ages the pending order, sells
by other hands, takes contracts away, or restarts the process. `pos` has the
position row's latches, `engine` the record in `_STATE`, `Evaluate` the engine's
rules in their order.

### Recovery and the code

A pass is a record of where it is and of the snapshots it holds: portfolio
fetched, then fills, then writes. `shown` is the portfolio the broker would
answer with, which lags `held`. A task that polls is full (it knows its alert
or position) or blind (resumed at start, books nothing). The portfolio's lag and
a pass are shorter than `reconcile_reopen_min_closed_age_s` (`Ages`). `stray` is a history variable: an order was polled before its POST raised.

### IbkrOrders, RestOrders, SpreadOrders and the code

A row has its order at the broker and the *tasks* that follow it, of which a
restart or a reconnect may start a second. At IBKR a task sees the handle
(`View`): a live one shows the order, a stale one what it showed when its session
ended. `journal` is `_pending_cancels`, `hook` the catch-up on connect, `boot`
that at start; the catch-up awaits only after a booking and reads each row anew,
and is one step. At Tradier and Lime `known` is `_orders`, in memory only; Lime's
`news` is the last frame of each order, `coming` one under way, `spin` the task
that holds the event loop because its wait returns at once. Spread tickets carry
no broker number, so a poller that is lost is not replaced.
## 3. Runs

| run | instance | question | states |
|---|---|---|---|
| `exits_serial` | stop, rung and unranked trigger from the one monitor loop, 3 contracts | Do they ever oversell, do row and account agree at rest, do they implement `ExitLedger`? | 4.7 k |
| `exits_repeg` | one analyst SELL and its watcher, 2 attempts, fair | Does the watcher re-send only for a dead order, end, and does every fill get booked? | 2 k |
| `exits_mixed` | analyst SELL with watcher, stop, operator's exit, no faults | Is every row stamped dead over a dead order, is every replaced order dead, does every fill keep its poller? | 104 k |
| `exits_faults` | analyst SELL, chased stop, operator's cancel, all six faults | Can a fill be booked twice? | 276 k |
| `order_queue` | two exits, two entries, three places, fair | Lane order, nobody starves; is it `TwoLanes`? | 3.6 k |
| `daily_halt` | one check at a time, two New York days, losses and limits on either side of each other, restarts, both databases | Do memory and row agree, does a halt hold over a restart and end overnight; is it `TradingHalt`? | 22 k |
| `entries` | two entries and an exit in one contract, three *worlds*: who wrote which, what the operator does, what the broker does | Do books follow the broker, has an alert one order that counts, is every order followed, does an exit clear its analyst's entries? | 830 k |
| `decisions` | seven alerts, six configurations, five histories, quotes around the $3 edge | Do caps survive later stages, are limits on the grid and near? | 21 k |
| `intake` | eight posts in seven groups, two configurations, one restart | Do copies make one entry, does a barred copy cost nothing, do exits close only their author's, do bans hold? | 215 k |
| `monitor` | one position, four prices, two spreads, seven configurations (ladder and hybrid) | Do targets sell once, stops tighten, cuts wait for confirmation, does a stop keep trying? | 199 k |
| `recovery` | one contract, up to three orders, six configurations with two kinds of fault each | Is a position never resurrected on an old portfolio, a sale recorded once, do orders end and books converge? | 270 k |
| `venues` | IBKR in eight configurations, butterflies in five, Tradier and Lime in thirteen | Is a fill taken off once, an exit not doubled, does a noted cancel land, does every row end? | 140 k |

The properties, by what they are about:

* **Contracts**: `NoOversell`, `BooksAgree`, `NeverOverbooks`, `FillWillBeBooked`,
  `DeadRowsAreDead`, `ReplacesOnlyTheDead`, `RepegsOnlyTheDead` (exit orders);
  `BooksBalance`, `EveryOrderWatched` (entries); `SoldOnce`, `NoResurrection`,
  `Converges` (recovery); `AllBooked`, `NothingOversold`, `CancelsTruly` (brokers).
* **One of each**: `OneEntryPerAlert`, `NoDoubleEntry`, `DroppedForAnother`,
  `RungOnce`, `NoCutOnOnePrint`.
* **What one actor owes another**: `ExitClearsEntries`, `NoForeignExit`,
  `NoRevengeEntry`, `StopNeverLoosens`, `SavedAgrees`, `NoStaleHalt`, `LaneOrder`,
  `CapsHold`, `OnTick`, `LimitsNear`.
* **In the end**: `EveryExitEnds`, `EveryJobServed`, `StopKeepsTrying`, `OrdersEnd`,
  `CancelLands`, `AllOrdersEnd`, `Converges`.
* **Refinements**: `KeepsLedger`, `KeepsFairLedger`, `KeepsFairLanes`, `KeepsHalt`.

`CapsHold`, `LimitsNear`, `AllBooked`, `NothingOversold` and `AllOrdersEnd` are
conjunctions of named parts. Where a property holds only under some of the
settings it says so in an antecedent (`Careful`, `Orderly`, `Followed`), and the
run includes settings that meet it; [section 4](#4-where-code-and-documentation-disagree)
says what the code does in the others.

Every property is broken by a mutant: a second form of one definition, kept just
before it and marked as such, that makes a mistake the code could make (go on
after an unconfirmed cancel, book by what was read earlier, drop the
write-through, use the UTC date, forget a ban at midnight, take a lagging
portfolio at its word). `PROJECT.json` pairs them.

### Bounds

* *Exits*: three lanes let two exits race for the order of a third; three or
  four order ids let each place once and one re-place. A bound reached shows as a
  lane that cannot insert, never as a wrong state. `MaxAttempts` caps the
  watchers as the configuration does, with 1 or 2 for its 3 or 4. `Lot` is 2 or 3
  so that an order can fill in part or sell part of a position. Order ids are
  symmetric in the safety runs; runs with liveness use no symmetry.
* *Entries*: three order rows (`MaxRows`), caps of one open position and two
  trades, so that each cap binds. The worlds differ in author, in the operator's
  reach and in the broker's faults.
* *Decisions*: prices straddle the $3 edge, and include multiples whose quotient
  falls short; histories give a positive, a zero and no Kelly edge.
* *Intake*: the clock runs from 0 to 2; windows are 0 or 1, bans 1 or 2 ticks, so
  that something is inside and outside each. A group holds the posts that can
  meet; one restart.
* *Monitor*: the prices are below every stop, between stop and entry, at the
  first target, at the last; three contracts are the least that two partial
  rungs and a runner need; at most two purchases of the contract.
* *Recovery*: at most three orders, one or two faults from a pair of kinds.
* *Venues*: two contracts, one re-placement, two drops or restarts; two or three
  orders. Spreads and single orders share nothing and are never both traded.

Deadlock is checked where a process cannot stop by itself (`exits_*`, which
stutter explicitly (`Quiet`) once nothing is left to run, and `daily_halt`);
the other runs end when their bounded inputs are used up.

### Fairness

* A lane that has begun, and a poller, are asyncio tasks: the loop resumes them,
  and each `await` of theirs returns or raises: the sleeps and the 8 s of the
  confirmation by themselves, the calls of the broker because its HTTP client
  gives up. (The queue is built not to rely on the latter, and `OrderQueue` does
  not.) Weak fairness on `LaneGoesOn`, which lacks the beginnings of exits and
  the faults, and on each `PollerStep`, whose `get_order` answers in the end.
* Nobody must ask for an exit, and the broker need not accept, fill or kill
  anything. `OrdersEnd` in `recovery` rests on `max_pending_minutes` instead, and
  is claimed only where it is on.
* The queue's worker takes what is queued and `wait_for` fires: weak fairness on
  `Takes` and `Abandons`. A job's own return is not fair; `EveryJobServed` rests
  on the timeout alone, and would fail with `order_job_timeout_seconds = 0`.
* The monitor's loop polls for ever and finishes what it began, an order does not
  stay at the broker for ever (it fills, or dies at the close of the market), and
  a reconciliation asked for is run. `StopKeepsTrying` speaks of quotes that stay
  at the stop; they need not.
* The reconciler's loop passes for ever, tasks poll, a POST returns or raises, and
  the portfolio catches up. Faults are bounded and never fair.
* At the brokers: tasks look and tire, hooks and cancels under way end, a session
  (the watchdog's) and the socket come back, a frame under way arrives, and IBKR
  obeys a cancel it has received. Orders need not fill.
* `DailyHalt`, `EntryOrders`, `EntryDecision`, `AlertIntake` have safety properties
  only.
## 4. Where code and documentation disagree

Modelling read each function beside its comments, the documentation and the
tests. The following were met on the way. A property that the code's behaviour
here would break has an antecedent that leaves it out, or the fault that leads
there is not in the run; the text says which. File names are short: PX is
`public_executor.py`, GR `guardrails.py`, PM `position_monitor.py`, RC
`reconciler.py`.

**Exit orders** (`ExitOrders`)

* *Two exits race for one order.* A stop and the operator's exit both displace the
  same analyst SELL; both cancels are confirmed, neither task looks at the pending
  orders again after its `await` (PX:2030), and both place: the account goes short.
  `docs/ARCHITECTURE.md:146` has "every order flows through ONE worker"; the
  monitor and the dashboard do not go through it. `NoOversell` is therefore
  checked and proved for exits that do not overlap; in `exits_mixed` it fails.
* *A cancel that raises* (PX:3291) stamps the row and says ok, even to a caller that
  required confirmation; the docstring (PX:3248) and `tests/test_today_fixes.py:1155`
  say no replacement is placed. `ReplacesOnlyTheDead` assumes no `cancelRaises`.
* *A struck order comes back*: a watcher whose order the operator cancelled sends it
  again (PX:2301); its docstring (PX:2208) says it stops.
* *A partial SELL fill is lost* when the order then dies: the poller books partial
  fills of BUYs only (PX:3114), while the comment at PX:2017 counts on it.
* *The poller's time limit* stamps a live order's row dead when its cancel fails
  (PX:3008); `_rearm_dead_stop` (PM:1306) takes such a row as proof that nothing can
  trade.
* `_repeg_close_all_sell` looks for FILLED on waking only, so an order that fills
  while it awaits the quote is followed by a second SELL of what is left.

**Halt** (`DailyHalt`)

* While the day's loss is past its limit analyst SELLs are refused too (GR:938), with
  the message "SELLs still work" (GR:957, GR:1406).
* The halt is announced "until tomorrow", but the second look lifts it when marks
  recover, or at 8 p.m. in New York, when the realised loss starts again from zero
  in UTC. `TradingHalt` states what it does.

**Entries** (`EntryOrders`)

* An override while the alert's re-peg watcher lives gives two live orders.
* `_repeg_buy` takes a `PARTIALLY_FILLED` or stale status for a dead order and sends
  a second BUY; the docstring (PX:2529) says it stops on a fill.
* An analyst's SELL cancels his entry; when the broker is slow to confirm, the row is
  CANCELLED while the order lives, and the watcher or cooldown buys again. So in
  `entries` slow cancels are given to the entry that is not chased only.
* A POST of `_repeg_buy` that fails leaves its row PENDING with no poller until the
  next start.
* A row closed by a SELL is reopened by the entry's last fill with the order's whole
  quantity (`reopened`).
* `PARTIALLY_FILLED` rows do not count towards the day's trades; the entry of another
  analyst merges into one position row; cancelling an alert that is still queued
  does not stop it, and takes the contract's newest pending order, whoever's.

**Sizes and prices** (`EntryDecision`, `Sizing`, `OrderPricing`)

* A Kelly cap of zero that is not a block makes `_buy` size anew, at full size: zero
  counts as unset. An analyst with losses only gets no cap at all.
* The scorer's bonus is added after the guardrails saw the count; the whale lane's
  cap is not known to `_buy`; a VIX read again in `_buy` may exceed the Kelly cap.
  `CapsHold` names these in its antecedents.
* The floor of a SELL's limit divides floats, and loses a tick for some multiples.

**Guardrails and intake** (`GuardChain`, `AlertIntake`)

* A blacklisted author's copy whose row is SKIPPED blocks the signal itself in
  `_check_buy_guards` (GR:1355), though the comment in the listener (about line 903)
  says that such a copy costs nothing. `DroppedForAnother` is about the listener,
  where the comment holds.
* The forwarder's comment "On failure the gateway will redeliver" is not what the
  gateway does; a relay lost after its text was remembered is lost.
* The listener remembers a content before its row is committed, so a database error
  costs the signal's other copies too (`Faulty`).
* A backfilled entry is HISTORICAL, and the duplicate check in the rows looks for other
  statuses; its hash is lost with the process, so after another restart a copy within
  the window enters again (`NoDoubleEntry` names this).
* A backfill that overtakes the live delivery makes the alert historical; a webhook
  copy that was dropped without a row is executed by a later backfill.
* SELL copies are not told apart across a restart; `record_sl_exit` may shorten a
  panic's ban to that of a stop; two correlated symbols can both be entered while
  the first is unfilled; a stop between check and `_buy` does not stop that entry.

**Position monitor and hybrid engine** (`ExitLadder`, `ExitEngineV2`)

* `exit_engine_v2.reset_state` is never called, so its record survives the reopening
  of a position; `NoCutOnOnePrint` is about a row's first purchase. The latches of
  the partial stop, of the trail and of overrides also survive.
* The engine's triggers are missing from `AUTO_TRIGGERS` (PX:1928) and from the map of
  flags, so its dead stop is never fired again. With `auto_exit_repeg_enabled` off,
  the default, no dead stop is.
* A stop that sold a part and died is armed again for more contracts than are held,
  is refused, and only the reconciler's drift corrects the row.
* A pending first target blocks the second until its fill is booked;
  `_close_if_expired` writes no sale when an earlier one was filled; the state
  `TRAILING` is never set, so the end-of-day rule closes runners it should spare.
* Early returns leave `soft_below_since` running, and after a partial soft stop the
  full one fires on the next tick.

**Reconciler** (`Recovery`)

* A portfolio fetch that fails is taken as an empty portfolio, and the pass counts as
  one (RC:43, RC:64 say it is skipped): two such passes close a live position, and
  entries are let through unreconciled. `Converges` recovers because a later pass
  reopens the row.
* A pass inserts or raises a position without a look at pending BUYs, whose pollers
  then add the contracts again, until the next pass.
* Partial sales of orders that died are not booked; `PARTIALLY_FILLED` rows are not
  resumed; a re-entry on the same day may adopt the earlier cycle's sale (`SoldOnce`
  is about the first).
* *One sale in two rows.* `_sell` commits the row with its number before the POST
  (PX:2064), and `_resume_pending_orders` (`app.py:466`) polls every PENDING row
  that has one. If the POST then raises although the broker took the order, the row
  is REJECTED (PX:2130) with a poller still on it; the exit is sent again in a new
  row; the reconciler adopts the one sale into the newer (`_adopt_sell_fill`, RC:816);
  and the poller, which does not look at the row's status (PX:3044), marks the older
  FILLED too. It takes three rows, which is more than the run has; the proof of
  `SoldOnce` found it. `stray` remembers such an order, and `SoldOnce` leaves it out.

**Brokers** (`IbkrOrders`, `RestOrders`, `SpreadOrders`)

* *IBKR.* A `Trade` handle of an old session never changes again, so legs without a
  timeout are not booked before a restart, and exits time out as CANCELLED though
  filled. A blind poller of the application that finds a fill first marks the row and
  leaves the position. `cancel_order` without a handle stamps the row while the order
  lives. When all pending rows are gone at reconnect the journal is not read, though
  its comment says "a dropped cancel can't leave the order live". A re-placement
  after a price cap that races a cancel loses the new order's handle.
* *Tradier.* Its numbers are in memory only, and after a restart a plain row's
  order cannot be read: it is marked CANCELLED while live, where the docstring says a
  watcher is attached again. The legs of a bracket share a number kept under another
  key, so a fresh leg's cancel is local only. The blind poller of the application
  ends a bracket at `max_pending_minutes` that "rests indefinitely".
* *Lime.* With no frame yet the wait for one returns at once, without yielding: the
  task holds the whole event loop until its time limit. A task that waits is not woken
  when the socket drops, and frames lost in the gap are not asked for, though the
  documentation names a REST watchdog. Rows end by their time limit, orders may live.
* *Brackets.* The watch of a Tradier bracket (`_poll_whale_oco`) books what a leg has
  sold so far; after a restart a task that does not know the position may mark the
  row with the whole quantity, and the rest is never taken off the position. The
  run's brackets fill by parts or meet a restart, not both (`WholeLegs`).
* *Spreads.* A second opening of a key whose first is pending passes the check; its
  fill is refused by the table, and the contracts have no row. Closes in flight are
  not counted. A restart loses the pollers, and the rows carry nothing to find the
  orders by.

## 5. Proofs

All theorems hold for every value of the constants. TLC checked each invariant,
the inductive ones included, before it was proved. The assumptions on constants
are the `ASSUME`s of the modules (types of the inputs, caps of at least one
contract, a winning trade has won something, caps and risks of spreads that are
numbers); TLC evaluates them on the instances. Where a theorem has a hypothesis,
TLC found the violation that each of its parts excludes.

Contracts bought, sold or booked are counted as members of sets, `<<order, i>>` for
the i-th contract of an order. What a step adds to the books is then the cardinality
of a set that it adds, and no sum has to be taken apart (but in `Recovery`, where
rows say how much was sold and not of what).

**ExitOrders.** `TypeCorrect` is `TypeOK`, which includes that a lane at an
`await` has the order it is about. The other theorems differ in what they
assume:

* `ConfirmedCancel`: *unless a cancel call raises*, whatever other faults occur
  and however many exits interleave, a lane that goes on to replace an order
  replaces one the broker has ended without a fill. The invariant `CancelInv`
  adds that a lane past its confirmation is about an order that stays dead, and
  that only handed-out ids have broker orders.
* `DeadStayDead`: *through partial fills and job timeouts, with no other fault and
  no operator's cancel* (`Guessless`), a row that is taken for dead has no live order
  behind it. The invariant holds beside `CancelInv`: what stamps a row dead is a
  confirmed cancel, a poller that read a dead order, or a POST that never went out.
* `NoDoubleSell`: *exits that never overlap* (`NoOverlap`: no faults, and either
  one lane or lanes that share a runner and leave no watcher) never oversell.
  "Never sold below zero" is far from inductive: it depends on there being at
  most one pending row, on that row's broker order accounting for exactly the
  difference between position and account, on a poller or a lane being about to
  book it, and on what each busy lane knows of the rows. `SerialInv` is the
  conjunction of these, one named part each.
* `SerialBooksAgree`: under the same assumption, once nothing is in flight the
  position row shows what the account holds; and `LedgerKept`: every step is a
  sale, a booking or a stutter of `ExitLedger`.
* `NoFillLost`: with no fault but raising cancels, every order that may fill or
  has filled beyond its row has a poller, or its lane is still at the POST that
  starts one. The invariant adds that only orders wholly filled have sold
  anything.
* `RepegsAreSafe`: a watcher goes on only from an order that is over and unsold, with
  job timeouts and ambiguous POSTs, any lanes and attempts (`Certain`). `ChaseInv`
  says what the watcher knows of its order at each of its `await`s, and that what
  remains of the position is no more than it wants to sell. Left out, and each
  violating: partial fills; a cancel that raises; a poller that gives up; an operator's
  CANCEL between the watcher's look and its order; and a STOP of a part
  (`SL_PARTIAL`) with re-pegs enabled, whose order's fill `_repeg_close_all_sell` looks
  for only when it wakes, while other exits take from the same position (PM:155,
  PX:2248, PX:2281).
* `FillsBookedOnce`: under every fault, with every caller and interleaving, the
  position row never shows fewer contracts than the account holds. `UnbookedInv`: the
  difference is at least the contracts that the broker sold and no row records.

**OrderQueue** (in `WorkerProofs`). `QueueInv` is types, distinct tickets and `LaneOrder`; tickets
are what makes the order inductive, as a new one is above all others. From it
`QueueTypes`, `LanesInOrder`, `WorkerIsSerial`, `NoEntryBeforeExits`.

**DailyHalt** (in `WorkerProofs`, since one check at a time is what the worker gives).
`HaltInv` adds to the types that a process which has not read the
row knows of no halt and has no check under way; with it the agreement of
memory and row is inductive for any number of concurrent checks (`HaltTypes`,
`HaltIsSaved`). For one check at a time (`Serial`) `Fresh` adds that past the
new-day reset a check meets its own day's halt or none, and past the second look
none. From the two follow `EntriesStayHalted`, `HaltsEndOvernight` (with a
failing database too) and `HaltKept`, the refinement of `TradingHalt`, in which
restarts are stutters.

**AlertIntake.** What keeps copies out differs by the age of the first: within one
run of the process its content is in the hashes, with a time no earlier than the
entry's; after a restart the hashes are gone, and its row, under an id of its own,
is what the checks find. Both are in `RowsKept`. A row taken from the channel's
history is not looked for, and `NoDoubleEntry` leaves it to its own run.
`CopiesEnterOnce` is for any posts, channels, rules and number of restarts.
`ExitsStayHome` and `BansBar` are theorems on steps, from what the guardrails found
of the exit the worker holds (`BusyKept`), and from a ban that is never shorter than
the lesser of its two lengths (`BansKept`). `CopiesAreOfAnother` rests on every
remembered content being accounted for by a row or by a database error, and on what
is under way being of posts that have appeared (`DropInv`).

**EntryDecision.** `LimitsOnGrid` is arithmetic: a count of ticks at one size
that ends at or above $3 is one at the other size too, since $3 is a whole number
of both, and a floor that falls a tick short of $3.00 or $3.05 lands below the
edge, on the finer grid. `LowCountsStayLow` needs to know at each stage which of
the two variables holds the smaller count: `CountInv` says that of `qty`
(`CountKept`), of the attribute (`CapsKept`) and of what was ordered
(`OrderKept`), with `StagesOrdered` saying who has set what so far. `LimitsStayNear`
is arithmetic of the rounding again, up and down the grid, for the ceilings and bands
of entries, cooled entries, re-pegs and exits (`NearInv`).

**ExitLadder.** `TargetsSellOnce` rests on the flags: an order of a target leaves
its flag, a rung whose flag is up wants nothing, in the ladder as in the engine, and
no step but a new purchase lowers it. `StopsOnlyTighten` needs the price at which
the runner's peak starts anew to have armed every lock: the engine's rungs carry the
price they were due at from the start of the poll to their turn (`RungsDue`), and the
settings must not arm a lock beyond the third target (`LocksBeforeThird`). That a
finite set of locks has a highest is itself proved, from the well-foundedness of
strict inclusion. `CutsAreConfirmed`: when the engine remembers a drawdown, the quote
before was as bad or a rule before the soft stop would have fired on it
(`CutInv`), in a row's first purchase, for the engine's record outlives it.

**EntryOrders.** `ExitsClear` is about what happens between the cancels of one exit:
an entry it has dealt with has traded or is no longer PENDING, and stays so through
every kind of change a step makes to the tables (`Moves`); and the worker leaves an
exit only by ending it, since while a job runs the worker is at that job's alert
(`JobsTold`). It holds for any alerts, faults and doings of the operator.

`OneAtATime` and `NoneUnwatched` share `OneInv`: the tasks of an alert (the worker's
job, the cooldown, the re-peg watcher, the override) take turns, and each begins where
no order of the alert is at work. They assume `Calm`. Four things break the turns,
each alone: an operator who strikes an entry and also resubmits it (override and job
both place); one who resubmits an entry that is chased (the watcher and the job both
place); and chased orders that fill in part, or whose row is CANCELLED before the
broker has ended them, since the watcher replaces what it does not find PENDING
without cancelling it.

`EntriesBookedOnce` needs none of this. `BooksInv`: no row records more than was
bought, nor was more bought than asked for; and of a contract whose row was not
reopened whole by a half-booked order, the account holds what the row says and what
is still to be booked.

**Venues.** Theorems about `VenuesSpec`, for any quantities, orders, keys, drops and
restarts.

* `CancelsHideNoFill`: besides the property, `TruthInv` has that Lime's last frame of a
  dead order is of what it is (`FramesTrue`), as a dead order does not change again; so
  believing a frame that came before the cancel is as good as asking. The two legs of
  a bracket are seen through one number, which shows them cancelled when both are.
* `IbkrFillsBookedOnce`: `BookInv` relates a row, its order and the handle (`Fine`): no
  row counts more than was sold, and a live handle shows no more than the order;
  remaining is the position less what the tasks that know it have taken. `CancelTrue`
  says what the cancel under way has seen.
* `RestFillsBookedOnce`: the same of Tradier and Lime (`RowsHonest`, `PollsKept`), but
  *no bracket that fills by parts meets a restart* (`WholeLegs`); section 4 says why.
* `IbkrNeverShort` and `RestNeverShort`: with the broker's word asked for at each
  cancel, at most one row is open, it is for what is left of the position, and a
  row that is not open has an order that is dead, or a fill that is booked
  (`Backed`, `Guarded`). The parts of the hypothesis are `Careful`.
* Spreads: `DeskInv` is that a row counts what its FILLED tickets say, within the cap, and
  that a key without a row has no FILLED ticket, so the first that fills makes the row.
  `LotsHeld` adds, under `Orderly`, that of a key one close at most is pending, and
  the row's remaining is in the account, less what that close has sold.

`AllFillsBookedOnce` and `NothingIsOversold` put the brokers together.

**Recovery.** Theorems for any number of rows, restarts and faults.

* `SalesRecordedOnce`: a sale has three who may write it down, and none asks the
  others. `Books`, which holds in a first position without a `stray`, says why
  nothing is written twice: of the SELLs at most one is still *due*, one that a task,
  now or after a restart, may book; were it booked, the rows' sales would still be no
  more than the account's (`Covered`); and it is a row that no pending one follows,
  so what is adopted is adopted into it, or into a row that nobody will book. That
  only one is due is because an exit is sent when no SELL is pending, and rows that
  are not pending but still have a task are of positions that are over
  (`AdoptedLast`). `Total` sums a sequence by a recursive function; its lemmas
  (that sums exist, what appending and replacing an element does to them) use the
  least counterexample where an induction would be used.
* `NoneResurrected`: `Seen` says that a row closed long enough for a pass to reopen
  is closed on sales that the broker's portfolio, and the one the pass has, count. It
  rests on `RecoveryInv` for the lengths and shapes. That the portfolio catches up
  within `reconcile_reopen_min_closed_age_s` is the model's (`Ages`).

Only model-checked:

* what needs fairness or ENABLED: `EveryExitEnds`, `EveryJobServed`,
  `StopKeepsTrying`, `OrdersEnd`, `Converges`, `CancelLands`, `AllOrdersEnd`, and the
  fair halves of `KeepsFairLedger` and `KeepsFairLanes`;
* `KeepsFairLanes` altogether, whose mapping sorts a set.

## 6. What is left out

* *Parsers, vision and language models*: their inputs have no useful finite form.
  A post says how it parses.
* *Order retry*: `order_retry.py` has no caller in the order path.
* *Trader control, health, greeks and API monitors, analytics, reports*: they watch
  or present; what they start is outside the process.
* *Two positions at once*: contracts share nothing but caps, bans and the queue,
  which have modules of their own. Prices in `ExitOrders`: what is sold does not
  depend on them there.
* *Monitor*: scale-ins while the ladder runs, price streams and broadcasts; the
  engine's shadow log and `evaluate_close_all`, which nothing calls.
* *Reconciler*: the purge of phantom rows; the shadow reports of other brokers.
* *A crash between the POST and the commit of a latch*, in the monitor: a restart
  there is between steps.
* *Brokers*: the swap of brokers at run time, quotes and price streams. BUY orders
  at IBKR, Tradier and Lime share `EntryOrders`' life with the overrides' pollers;
  their resume is not modelled.
* *Entries*: an alert has one task of each kind. An operator who both strikes and
  resubmits an entry could have two cooldowns or two watchers of it at once; no
  world of the run does both.
* *Intake*: slash commands and the image path, which end in the same calls.
* *Inputs*: VIX, quotes, histories, balances and open positions are read from
  outside in `EntryDecision`; the refresher's own timing is not modelled.

## 7. Further work

1. A form of `TwoLanes` with lanes as sets, whose safety half could be proved.
2. BUY orders at the brokers, with resumes, as `RestOrders` and `IbkrOrders` have
   the SELLs.
3. `ExitLadder` over two positions, for the loop that serves them one after
   another.
