# Formal model of prop-firm-bot

TLA+ modules, TLC runs and TLAPS proofs for the trading bot in this repository:
the live ORB session and its broker, the ORB engine against the backtester it
is a port of, the backtester's filters and overlays, the walk-forward that chooses
its parameters, the prop-firm account rules with the drivers and the Monte Carlo
that play them, the account monitor, and the control plane that starts and stops
the daily process. Paths below are relative to
`src/` (the repository root); the Python package is `src/src/`.

- `tlc -config <cfg> <module>` runs a check, for example
  `tlc -config LiveFaults.cfg MCLive`; the runs are listed in section 4.
- `tlapm LiveSession_proofs.tla` checks the proofs about a live day (five minutes
  from nothing), and `ControlPlane_proofs`, `TopStep_proofs`, `Apex_proofs`,
  `LucidFlex_proofs`, `Services_proofs`, `Strategy_proofs` and `Tuning_proofs` the
  other ones (a minute to three each; `Strategy_proofs` five, `Apex_proofs` and
  `Tuning_proofs` seven to ten).
- `PROJECT.json` maps every definition to the lines it models and lists the
  runs, the mutants that show each property can fail, the hazards, the findings
  and the theorems.

## 1. The system

One strategy (a 5-minute opening-range breakout on the first candle, MNQ) is
researched in a backtester, evaluated against the rules of five prop firms by
account simulations, and traded by a daily process on ProjectX/TopstepX, which a
small control plane starts and stops and a monitor watches.

| Component | State it keeps | Operations | Interacts with |
|---|---|---|---|
| Live session runner `live/live_runner.py`, `live/runner.py` | `state.json` (RunnerState: trade_taken, position, realized P&L of the day), journal, `halted`, `last_bar` | start, reconcile, bar loop, tick callback, loss cap, cooperative stop, error handler with bounded flatten, `--auto` gate, replay | feed (iterates it, is called back while it waits), engine (events), broker (orders), control store (requested mode) |
| Live broker `live/live_broker.py` | tracked position, ids of its stop and target orders | reconcile, place_bracket, poll_oco, close_position, flatten, _safe_cancel, _await_fill | exchange through ProjectXClient |
| Paper broker `live/broker.py` | position | place_bracket, close_position | runner |
| ORB engine `live/engine.py` | one `_SessionState`: opening range, position, excursion, pending time stop | on_bar, on_session_end, restore_session | fed by the feed, drives the broker |
| Live bar feed `live/feed.py` | minute, minutes served | wait, poll with late tolerance, give up, skip the day | market data, tick callback |
| Backtester `backtest/orb.py`, `sessions.py`, `regime.py` | none (function of the bars) | run_orb_backtest: sessions, daily columns, filters, entries, overlays; regime gates | reference of the engine; its trades become replay days |
| Replay `live/runner.py` (`run_replay`) | state.json, journal, paper broker | sessions of a window, loss cap, backstop, rolling to the next session | engine, paper broker |
| ProjectX client `live/projectx.py` | token, rate-limit windows | authenticated, rate-limited POST, orders, history | exchange |
| TopStep account `pipeline/topstep_account.py`, `rules/topstep.py` | phase, balance, loss limit, day and cycle counters | update, close_day, request_payout, attempt_reset, attempt_back2funded | pipelines feed it trades |
| LucidFlex and Apex accounts `pipeline/*_account.py`, `rules/*.py` | the same kind of state with other rules | the same operations | pipelines |
| Drivers `pipeline/*_pipeline.py`, `*_replay.py`, `alt_firm_replay.py`, `eval_simulator.py` | the attempt: days used, payouts, flags | one attempt, with sampled trades or recorded sessions | an account each; strategies |
| Monte Carlo `pipeline/monte_carlo.py`, `replay_monte_carlo.py`, `sequential_mc.py`, `strategies/`, `sizing/` | a strategy's last trade, seeds, batches | many attempts, block bootstrap, stop at a checkpoint | drivers |
| Walk-forward `optimizer/walk_forward.py` | folds, scores, survivors, ranking, sentinel files | make_folds, run_walk_forward, evaluate_holdout | backtester, Monte Carlo |
| Regime study `Analysis/scripts/orb_regime_filter_run.py` | none | gates of a fold's trades | backtester, folds |
| Control plane `ops/`, `scripts/windows/watch_orbbot.ps1` | control.json (mode, generation), runtime.json, the supervisor's child, orbbot.lock | request, start, stop, tick, watch | runner (child process), operator and watchdog (commands) |
| Monitor `monitor/` | accounts.json, outbox table | poll, observe, enqueue, deliver, record a failure | account API, Telegram; called by an idle supervisor |
| Dashboard, scripts, reports | none that trades | reads files | - |

What makes it hard, and where the properties below are aimed:

- **The process and the exchange run side by side.** A leg can fill between the
  poll and the cancel, both legs can fill, a cancel can be refused for an order
  that has just become terminal, an entry can fill after its wait ended.
- **Every API call may fail or lose its reply,** inside an entry, inside a close
  and inside the error handler that reacts to the first failure.
- **A process may die anywhere and be launched again on the same day,** with a
  state file that is written in place and an exchange that still has its orders.
- **Processes share files without locks.** start() checks first and launches many
  seconds later; every writer of runtime.json reads, merges and replaces; a
  supervisor may die and leave its runner trading.
- **The engine must be the backtester.** It is an incremental re-implementation
  and must decide, bar by bar and with bars missing, what the batch code does.
- **Research must not see the future.** Daily columns are computed over the whole
  history at once and shifted, folds and their holdout are cut by month arithmetic,
  selections are joined by hash, and simulations share one strategy object.
- **A transition is announced once.** The monitor overwrites its snapshot before it
  queues what it found, the queue ignores a key it has, a message may arrive though
  its reply does not.
- **The feed is late and lossy.** Bars are given up after a bounded wait and the
  opening range has a deadline.
- **The account rules are a long protocol.** Trailing limit, locks, payouts,
  resets and reactivations each rewrite several fields, and eligibility is read
  from what the others left.

## 2. Modules

| Module | Models | Abstracts |
|---|---|---|
| `LiveSession` | a `--mode live` day: session loop, LiveBroker, state.json, the exchange, the operator, crashes and relaunches | prices; the engine's decision is a choice (open, close, nothing) |
| `ORBParams` | parameters and pure helpers shared by engine and backtester | prices are ticks |
| `ORBEngine` | ORBLiveEngine as functions on one state record | timestamps are minute numbers; mfe_r is "has reached one R" |
| `ORBBacktest` | the backtester's batch form under FROZEN_PARAMS | other entry modes, partials, trailing (off there) |
| `ORBSession` | a `--mode paper` day: feed, engine, paper broker, state.json, crashes and relaunches | sizing; contracts are not zero |
| `ReplayRun` | `run_replay` with the paper broker's whole contracts and dollars, the loss cap, state.json, journal, runs that raise or are killed | - |
| `ORBOverlays` | a session of the backtester in every entry and stop mode, with trailing, partial exits, time stop and hold-into-close | R multiples |
| `DailyFilters` | sessions, ATR, volatility rank, volume, gap and weekday filters, regime gates | bars of a day as their sums; averages as sums |
| `RegimeFolds` | a fold of the regime study: its windows, shadow trades and gates | what a trade is worth to a firm |
| `WalkForward` | folds, in-sample scores, pruning, out-of-sample results, ranking | a backtest is one of a few outcomes |
| `HoldoutGuard` | processes that evaluate a holdout over one directory | the evaluation |
| `MCORBSession`, `MCORB` | the market of the small instance; the seven parts of the strategy side, each run alone | - |
| `AccountWatch` | the supervisor's account polling, the monitor, the outbox, Telegram | payloads |
| `RateLimiter` | RateLimiter.acquire before each request | clock values, as ages |
| `MCLive` | a live session, the watch or the limiter, each run alone | - |
| `ControlPlane` | a day of TradingService, Supervisor, the watchdog, RuntimeStore, ControlStore, the process lock and the `--auto` runners | a session is what `LiveSession` says of it: it trades at most once and exits 0 or 1 |
| `TopStepAccount` | the TopStep account with its ruleset | day lists are kept as best day and counts; fees |
| `ApexRules`, `ApexAccount` | the Apex account in both drawdown variants with its ruleset | day lists as above; fees |
| `LucidRules`, `LucidFlexAccount` | the LucidFlex account with its ruleset | day lists as above; fees |
| `TrailingAccount` | what the accounts promise alike | the rules |
| `Attempt`, `TopStepDrivers`, `ApexDrivers`, `LucidDrivers` | the pipeline and the replay of each firm over its account | strategy, sizing and costs: a trade is any amount |
| `AttemptContract` | what the six drivers promise alike | the firm |
| `LucidFunded`, `EvalSimulator` | the second implementations of the LucidFlex rules | target touches |
| `AltFirms` | Tradeify Lightning and MFFU Rapid replays | a session is one amount |
| `MonteCarlo` | strategies with memory, sizing, run_monte_carlo, block bootstrap, sequential batches | random numbers are a few percentages; the account is a stand-in |
| `MCFirms` | Apex, LucidFlex, the two others or a Monte Carlo, each run alone | - |
| `Money` | `max` and `min` of the rulesets | - |
| `TopStep_proofs`, `Apex_proofs`, `LucidFlex_proofs` | what is proved of each account and of its drivers; `Apex_proofs` also of `AltFirms`, of the twins `LucidFunded` and `EvalSimulator`, of `MonteCarlo` and of `MCFirms` | - |
| `LiveSession_proofs`, `ControlPlane_proofs` | what is proved of a live day and of the processes of a day | - |
| `Services_proofs` | what is proved of the account monitor and the rate limiter | - |
| `Strategy_proofs` | what is proved of a paper day and of a replay, and of both against the backtester | - |
| `Tuning_proofs` | what is proved of the walk-forward and its holdout guard, of the walk with overlays and of the daily filters and their folds | - |

The modules `MCLive`, `MCORB` and `MCFirms` put parts that share no state into one
run: a variable (`part`, `firm`) says at the start which of them moves, the others
stay as they began. The states are a sum, never a product.

### LiveSession

`p` is the running process: its location `pc`, what LiveBroker tracks (position
size, the launch whose stop and target ids it holds), the RunnerState in memory
and the loop's locals. `pos` and `orders` are the exchange; `disk` is state.json
(`bad` when a crash inside `write_text` left it unreadable). Each API call is an
action of its own, because between two calls the exchange may move and a call
may fail:

- `Launch`, `Startup`, `Reconcile`, `Adopt`, `Save`: the `--auto` gate or a
  manual start, `roll_to_session`, `LiveBroker.reconcile` and its journalled
  adoption of a position and of resting orders.
- `NextBar`, `MissingBar`, `FeedSkipsDay`, `FeedFails`, `FeedEnds`, `TickStops`,
  `PollOnTick`, `PollOnBar`, `LossCap`, `EngineQuiet`, `OpeningRange`,
  `EngineCloses`, `BarEnds`: one pass of the loop of `run_live_or_paper_session`.
- `SendEntry`, `AwaitFill`, `FillTimesOut`, `PlaceStop`, `PlaceTarget`:
  `place_bracket`. `Cancel`, `CheckStatus`, `CheckFlat`, `CloseContract`,
  `ResolvePrice`, `JournalTrade`: `close_position`, and the OCO branches that
  share its cancel.
- `CooperativeStop`, `HandleError`, `Flatten`, `AlarmNaked`: the ways a session
  is left.
- `FillEntry`, `FillLeg`, `Reject` are the exchange, `RequestStop` the operator,
  `Crash` the process dying at any location.

A failed call either did not reach the exchange or did and lost its reply. The
exchange itself is external: an entry fills contract by contract, a leg in
full, and a resting order may be rejected.

### ORBParams, ORBEngine, ORBBacktest, ORBSession

`OnBar(e, bar)` and `OnSessionEnd(e, last)` return the next state and the events
of the method they are named for; `Restored` is `restore_session`. `Backtest`
translates `_simulate_session` with `_resolve_first_candle_entry` and
`_walk_to_exit` over the whole list of bars and shares only the pure helpers
with the engine, as the code does. The range (`OrBars`) is a prefix of the bars, which
are in the order of their time.

`ORBSession` runs the engine under the feed: `MarketMinute` completes a minute of
the market, `ServeBar` hands the bar over and lets the session loop act on the
engine's event (open, restore the engine from the snapshot, save; or close and
save), `GiveUpBar` is a bar the retries did not find, with the deadline of the
opening range, `SessionEnd` the end of the window. A process starts at any
minute, from state.json; the feed then begins at 09:30 and catches up from
history. Crashes fall between bars here; crashes between the calls of one bar
are what `LiveSession` models. With prices in the model, the code's
zero-risk branch is kept although no bar reaches it: the entry at the close of
the range's bar is at least one slippage away from the range's other extreme.

### ReplayRun

A run `Begin`s, rolls state.json to the session's date (`Rolled`), and handles one
bar at a time: `Reads` the bar, looks whether the open and realized loss reach the
cap (`HitsCap`, flattening at the bar's close), feeds the engine and acts on its
event, and ends with the backstop for a session that ran out of bars. `Raise` is an
exception out of any bar, `Kill` the death of the process between two. `held` is
what the paper broker holds, `book` state.json, `rows` the session's journal rows,
in whole contracts and dollars (`ContractsFor`, `Usd`).

### ORBOverlays, DailyFilters, RegimeFolds

`ORBOverlays` walks the bars of a session as `_resolve_*_entry` and `_walk_to_exit`
do: the pending fills of the bar before (partial, runner, time stop), stop, target,
trailing stop, time stop. `WalkBar` is one bar; the parameters are chosen at the
start from `Overlaid`.

`DailyFilters` holds a history of raw days. Every column is an operator over the
whole history, as in pandas, and rows are selected by their rank (`Nth`, `Rows`);
`NextDay` appends a day and records in `atOpen` what
would be decided of it if the history ended with its opening range (`Decided` on the
day with the rest of it `Veiled`). `RegimeFolds` cuts a fold out of the history:
`ShadowTrades` over its whole span, `Gated` the trades of its out-of-sample window.

### WalkForward, HoldoutGuard

`WalkForward` makes the folds of a plan one by one (dates are `<<month, day>>`, months
have their lengths), then scores the grid in sample, prunes it to `TopK`, takes an
outcome for each survivor and ranks the admissible ones. `HoldoutGuard` runs
`evaluate_holdout` in several processes: look for the sentinel of the hash,
evaluate, write the record, write the sentinel; any may die in between.

### AccountWatch, RateLimiter

`AccountWatch`: the broker's accounts change (`shown`); `poll` lists them, `observe`
compares them with the snapshot and overwrites it, the transitions are enqueued one
by one (a key that exists is ignored), the oldest pending rows are sent, and each
is marked delivered or failed. A call may fail anywhere and the supervisor may die
anywhere; the next poll starts from accounts.json and the table. `chat` is what reached
Telegram, in its order; `watch.unmarked` counts the copies there that were not marked, as
the reply was lost or the poll ended before `mark_delivered`.

The listing may answer or fail, and nothing is assumed of how often it answers. As the code
is, it always fails (section 5): the model has that behaviour, a poll that ends before it
reads the table, and the ones of a client with a listing. So nothing is claimed of what is
sent in the end, only of what is sent at all.

`RateLimiter` keeps the ages of the recorded timestamps. A sleep may overrun by up
to `Overshoot`; `acquire` records the time it meant to wake at.

### TopStepAccount

One action per public method: `Update` (trade, breach, session lock, immediate
pass), `CloseDay` with its three phase branches, `RequestPayout`,
`AttemptReset`, `AttemptBack2Funded`. `balance`, `mll`, `locked`, `day`,
`winDays`, `payouts`, `resets` and `back2funded` are the fields of the class.
`combine_daily_pnls` and `cycle_daily_pnls` are kept as what the rules read of
them, the best day (`best`) and the number of days (`days`). `seen` is a history
variable: the highest closing balance and the sessions closed since the last
payout; no guard reads it.

### ApexAccount, LucidFlexAccount, TrailingAccount

The same operations under other rules, in modules of their own because the rules
differ where it matters:

- Apex keeps its threshold through a payout, freezes it above the start, and in
  the intraday variant moves it with every trade (`PeakAfter`, `ThresholdAfter`)
  instead of with every close (`ThresholdAtClose`). A payout may take the balance
  to the threshold and close the account; `PayoutTakesProfit` says which accounts
  that can happen to. The pass in `close_day` is never taken, because `update`
  passes an account at its target unless the trade locked the session, and a
  trade that locks it is a loss: that is `EvalBelowTarget`.
- LucidFlex locks its MLL with the first payout and ends with the last one.
  `PayoutKeepsOpen` shows that the breach branch of `request_payout` is
  unreachable while the smallest payout exceeds the lock's buffer (500 and 100
  dollars in the ruleset), `PassTakesTwoDays` that the 50% rule makes a pass on
  the first day impossible, although nothing in `update` counts days.

`update_eod_threshold_after_close` and `update_intraday_threshold` are the same
function of two amounts and are one operator, `ApexTrail`. `seen.high` is the
highest balance of those that the variant trails.

`TrailingAccount` is the contract the pipelines rely on: a limit that never falls
while the account lives, an account that is open exactly as long as its balance
is above the limit, payouts from a funded account alone, a fresh start only for
an account that died unpaid. Each account implements it (`Trails`) with its own
reading of open, funded and limit.

### Attempt, its drivers and AttemptContract

`at` is what a driver does next (a trade, the close, the payout, the next day), `used`
the days of the phase, `result` the flags it returns. Each firm's module has the actions
of its pipeline and of its replay; both call the actions of the account module, so an
attempt is a restriction of what the account allows, and `KeepsContract` says of which
kind: no trade to an account that would refuse it, no session in two phases, no payout
inside a session, one reason at the end and the one the account bears out. A driver
called "hand" calls the account's methods in any order, which keeps the accounts' own
properties as general as they are stated.

`EvalSimulator` and `LucidFunded` are the LucidFlex rules written twice in the
repository. `MCFirms` plays the first beside the pipeline's evaluation with the same
trades, and requires each step of a driver on a funded account to be a step of the
second; `TwinsAgree` is that.

### MonteCarlo

A random number is one of `Percents` and a simulation's seed is the sequence of its
numbers. `NextSimulation` is the reset of the shared strategy object and one pipeline
call; `Sample` and `Checkpoint` are the batches of the sequential run, whose numbers are
drawn once and read again by `ReplayMonteCarlo`, the run they must agree with.

### ControlPlane

`requested` is control.json, `runtime` what runtime.json says that decides
anything (both pids, exit code, mode, flat confirmation), `lock` and `taken` the
process lock and state.json's flag. A caller is a command in progress, a
supervisor or a runner a process with its location; a supervisor launches one
runner a day (`_last_launch_date`), so both have one number.

- `Ask`, `PreflightFails`, `Request`, `Launch`, `Record`: `TradingService.start`,
  with the check of the status first and the launch last, as two starts may
  overlap. `Stop` is `stop()`. `Watch`, `WatchStarts`: the watchdog script, which
  reads the status and then calls `start`.
- `SupUpdate`: every `runtime.update` of the supervisor, by the location it is
  made at (`Updates`, `After`); `MonitorFails` begins the one that records a failed account
  poll. Of that one no field is modelled, so it matters only when another write comes
  between its load and its replace, and it is a step only then. Its load and its replace are one step or, with
  another process's steps between them, two (`Interrupted`): then the write puts
  back what it loaded. `Record` is interrupted in the same way.
- `Tick`, `Poll`, `DecideStop`, `DecideRun`: `Supervisor.tick`, which reads the
  desired mode, polls the child, and acts on the mode it read.
- `Acquire`, `Wait`, `Enter`, `SessionEnds`, `SessionFails`: `run_auto` with its
  lock, gate, wait and exit code. `KillSupervisor`, `KillRunner` are crashes; a
  killed process frees the lock and nothing else.

A paper session opens nothing at the broker. An invalid activation artifact is a
choice in `Request`. The answer of `_process_alive` is taken to be true; on
Windows signal 0 is CTRL_C_EVENT, so there it depends on the console the two
processes have. `seen` records overlapping starts, overwritten updates and
orphaned runners, so that a property can exclude them by name; no guard reads it.

## 3. Fairness

- `LiveSession!FairSpec`: `WF_vars(Step /\ CallOk)`, the process keeps running.
  Fairness is asked of a step whose call does not fail: failing calls are
  allowed and bounded by `MaxFaults`, but nothing forces them, so no run
  ends *because* something failed. Nothing is assumed of the exchange, the
  operator or the launcher: every wait of the code has a timeout, and the model
  must end without a fill.
- `MCLive` states the same of its session. The account monitor has no fairness: its
  listing need not answer, a supervisor that was stopped need not be started again, and a
  row that is pending then stays pending. Nor has the limiter.
- `ControlPlane!FairSpec`: `WF_vars` of a command in progress, of each supervisor
  and of each runner: a process that runs goes on running (`run` ticks every two
  seconds, the waits of `run_auto` and of the session are bounded). No operator
  or watchdog has to command anything, and nothing has to die.
- `ORBSession!FairSpec`, and `MCORB` for its session: `WF_vars(MarketMinute)` (time passes) and
  `WF_vars(Feed)` (the feed answers each minute, as `_poll_with_late_tolerance`
  waits half a minute and then gives the bar up). No fairness for launches or
  crashes.

## 4. Runs

`Size = 2` throughout `LiveSession`: the smallest entry that can be partly
filled. Two minutes with an opening range of one give a bar that enters and one
that manages the position, or a window that ends with a position open; one poll
per bar puts an OCO poll before and on a bar; two cancel and two flatten attempts
are the least that retries (the code has five of each).

| Run | Module, cfg | Question | Bounds |
|---|---|---|---|
| `live_faults` | MCLive, LiveFaults | With up to three failed, lost or rejected calls in one process: does the session end, flat or with an alarm, every trade journalled once, no leg forgotten while it works? Does the monitor swallow no transition, and does the chat get the rows in turn, again only for copies that could not be marked? Does the limiter keep the gateway's rate? | 1 launch, 3 faults; 2 accounts, 3 changes, 2 faults; 2 requests per window of 5, overruns up to 2 |
| `live_restart` | LiveSession, LiveRestart | With a crash anywhere and a relaunch: is there one entry a day unless an entry was lost, is every tracked position covered, does an adopted position keep the process from entering? | 2 launches, 2 faults |
| `topstep` | TopStepDrivers, TopStep | The limit trails and never falls, payouts are earned and never close the account, and both drivers keep the contract of an attempt | see below |
| `orb_session` | MCORB, ORB | Is the engine the backtester, on the live feed and in a replay with its loss cap? Do the books agree, overlays exit on time, filters and folds see no future, selection and holdout leak nothing? | see below |
| `live_flattened` | LiveSession, LiveFlattened | finding: `flattened=True` with open contracts | 1 launch, 1 fault |
| `live_double_entry` | LiveSession, LiveDoubleEntry | finding: two live entries on one day | 2 launches, no fault |
| `control_race` | ControlPlane, ControlRace | An operator, the watchdog and a crash: at most one runner gets past the lock, and a stop that stands ends everything | 2 starts, 1 death, live |
| `control_update` | ControlPlane, ControlUpdate | With updates of runtime.json interrupted by others: does start() keep the supervisor's pid, can a mode be requested over a runner that was told to stop, does the file name the child? | 2 starts, 2 deaths, 2 interrupted updates |
| `control_flat` | ControlPlane, ControlFlat | finding: a flat broker confirmed with a position open | 2 starts, 1 death |
| `firms` | MCFirms, Firms | Apex, LucidFlex, Tradeify and MFFU: limits trail as published, payouts are earned and take profit only, attempts keep their contract, the two LucidFlex implementations agree, a Monte Carlo reproduces | see below |
| `orb_replay` | MCORBSession, ORBReplay | finding: a restored position exits on a bar before its entry | 2 launches, 1 missing bar |
| `orb_partial` | MCORBSession, ORBPartial | finding: an entry on an incomplete opening range | 2 launches, 1 missing bar |

`topstep`: amounts are small integers, chosen so that one or two trades cross each
threshold (daily limit, winning day, target, trailing distance, payout minimum,
both payout caps) from both sides and two or three days decide each rule; they
are not the dollar amounts of the ruleset, and the proofs hold for those. The
balance is bounded by `MaxProfit`, payouts and resets by `MaxPayouts` and
`MaxResets` (in `firms` by the constants of the same names with the firm before
them). Two winning and two consistency days stand for five and three. An attempt has
three days of evaluation and five funded ones (six in `firms`), two trades a day, a
payout cap of none or one and one reactivation: enough for a pass on the last day,
a timeout in either phase, a second payout and an account that starts over.

`firms`: one account runs and the other one stays as it began, so the states are a
sum. As in `topstep`, two days stand for five; the Apex ladder has two caps and
three payouts, so that the last is uncapped; LucidFlex ends with its second
payout. A loss of three locks Apex's session, and a second loss breaches. Tradeify's
goals are two and their caps follow, so that the last repeats. Two simulations of
five numbers each are the least in which a second one can inherit the first's
strategy; five resamples with checkpoints after two and four let a sequential run stop
at once, later, or at its maximum.

`orb_session`: an opening range of two minutes, a time stop of one, a target of
two R stand for five, 120 and four R; the slippage is one tick in both. Five
shapes of bars (rises, falls after a higher high, gaps, runs away, reaches both
sides) reach all four exits for both directions, dojis, stop and target in
one bar, and a time stop that is pending while a level is hit. Two missing bars
cover a hole in the range, the lost last minute, the lost minute after it and
two of them at once. A replay has two sessions and two runs, with sizes of one or two
contracts and a cap that one bar can reach. Overlays walk six bars under five
parameter sets that schedule two exits for one bar. The history has up to six days of
four kinds (calm, a roll that gaps, wild, a half-day), one of them excluded, with windows
of two: the least with a window behind a roll. A fold starts at every day of it and
ends with it. The months have two or three days, so that adding months clamps; the
grid has two params of one hash; three processes share three params of two
hashes.

`ControlPlane`: two starts are the least that race or follow one another, and give
two supervisors and two runners; a third would repeat the second's relation to
the first. One death lets a second supervisor run beside the first's runner. An
interrupted update is the load of one writer before, and its replace after,
steps of any other; two of them let start() and a supervisor overwrite each
other. `control_race` adds the watchdog and liveness and leaves interrupted
updates to `control_update`, which needs no watchdog to have two writers.

Deadlock is not checked where the day ends with every process gone. `topstep` and
`firms` switch it off because an account at its bounds has nothing left to do but
close its days.

### What the safety properties say

- `FlatOrAlarmed`, `ForgetsOnlyWhenDone`, `StopCoversPosition`,
  `EveryTradeJournalledOnce` exclude by name what the code does not protect
  against and the findings report: `lostEntry` (an exception or crash inside
  `place_bracket` while its entry lives) and `partial` (the entry went on filling
  after its wait ended). Everything else must hold through all faults.
- `MatchesBacktest` is the parity contract, with the one premise the two
  codes need: the engine enters at the close of the range's last bar, the
  backtester at the open of the next. `tests/test_live_parity.py` asserts equal
  entry prices on data where these agree; here the premise is explicit
  (`SameEntry`), and without it the two differ by the gap.
- `OneSupervisor` and `NoStartOverRunner` exclude two overlapping starts, which do
  launch two supervisors: the check and the launch are many seconds apart.
  `OneTrader` excludes nothing: the process lock is what holds then.
- `StatusMatchesChild` excludes overwritten updates: then the file may name a
  runner that is gone until the next launch. That start() still finds the
  supervisor is `OneSupervisor`, which has no such premise: an update
  that was loaded before the pid was written is start()'s or that supervisor's
  first, and both write it.
- `PaperBooksAgree` is one trade a day (`OneTradePerDay`) and that a crash at any bar
  resumes the right position (`StateMirrorsEngine`); what the resumed engine does with
  bars that are already over is `orb_replay`. `ReplayBooksAgree` is the same of a
  replay, with its dollars.
- `CappedParity` has the premise of `MatchesBacktest` (`SameOpen`) and is about a session
  that one run went through.
- `OverlaysExitOnTime` excludes an exit or a partial that waits for the very bar on which
  `hold_into_close` gives the target up (`Postponed`): the code takes it a bar later.
- `PastDecides` is `NoLookahead` and `FoldsDecideAlike`. Whether a day is a session at all
  is decided by the number of its bars at its end (`min_bar_count`): that look ahead is
  documented in `sessions.py` and not covered.
- `SessionsScoredOnce` excludes folds stepped by less than their window, which overlap
  by design, and start days that some month lacks. `SelectionSound` excludes a worst
  fold of exactly 0. `HoldoutOnce` excludes two runs at once and a death within one.
- `OutboxTellsSnapshot` excludes a poll that ended between the snapshot and the queue,
  and a returned account, whose second "new" has the key of the first.
- `ChatGetsRowsInTurn` says what the chat is told by any prefix of polls: what is marked
  delivered is there; there are no more copies than rows and unmarked sendings, so a row that
  is marked is never sent again; and a row is overtaken by a newer one, or comes again after
  one, only if an attempt to send it failed. Two faults are the least with a repeated
  copy behind a failed row. That a pending row is sent in the end is not claimed: no
  fairness of the code justifies it.
- `LimitHolds` allows what a sleep overran (`Overshoot`).
- `TypeOK` of a module is not in a run where it is a theorem, as it is for the accounts,
  `LiveSession`, `ControlPlane` and `ORBSession`; nor are `OpenAboveMll`,
  `EvalBelowTarget` and `CycleIsItsDays`, which are proved.

## 5. Findings

1. `live_flattened`: the error handler reports `flattened=True` without looking
   at the account when the broker tracks no position or no bar was seen, so a
   session whose bracket failed half-way ends as "errored, flat" with contracts
   open.
2. `live_double_entry`: `reconcile` looks at positions and not at working orders
   when there is no position, and `trade_taken` is saved after the bracket; an
   entry that is still working at the time of the relaunch is followed by a
   second one.
3. `orb_replay`: the feed of a relaunched process serves the opening range
   again, and the restored position, whose stop is the range's other extreme,
   is stopped on a bar that was over before it was opened.
4. `orb_partial`: the deadline of the opening range is compared only when a
   minute is given up; an early minute may be missing and the day still trades.
5. `control_flat`: the supervisor derives the broker-flat confirmation from the
   last exit code in runtime.json and asks no broker. After a supervisor died, the
   exit code is not that of the runner that still has the position. (The
   confirmation is not in the answer of `status()` either, to which the runbook
   refers the operator.)

A race without a finding, as nothing in the repository speaks of it: the watchdog
starts the mode it read, and an operator's stop between the two is overridden.

Other divergences met while modelling, without a run:

- `AccountPollingService.poll` (`src/monitor/service.py:64`) calls `client.list_accounts()`,
  which ProjectXClient does not have (it has `search_accounts`): every poll raises and
  `Supervisor.tick` records it in `last_error` and goes on. `AccountWatch` lets the call
  answer or fail.
- `RUNBOOK_LIVE.md:288` says that an outbox entry stays pending and retries; that holds of
  rows, but a transition found by a poll that died before it queued it is lost.
- `RateLimiter.acquire` (`src/live/projectx.py:663`) does not look at the clock again after
  its sleep, so an overrun sleep lets a request go out early relative to the next window.
- An exit or partial that waits for the bar on which `hold_into_close` gives the target up
  is a bar late (`src/backtest/orb.py:713`), against the docstring of `_walk_to_exit`; a
  first-candle entry that gapped through its stop gets the absolute value of its risk.
- `walk_forward.py:263` reads a worst fold of 0 as none (`or -inf`); `params_hash` covers seven
  fields of ORBParams; `rank_plateau` calls the survivors its grid (line 589);
  `evaluate_holdout` writes its record before the sentinel, and its docstring (line 624)
  speaks of a pair of params and firm while the sentinel is per hash.
- `AdaptiveSizing` (`src/sizing/dynamic.py:137`) shrinks every funded trade after the first
  payout; its docstring speaks of the first cycle after each payout.
- `run_replay` over a window that begins earlier rolls state.json back and writes the
  journal of its days again. `_cell_seed` (`monte_carlo.py:283`) gives neighbouring cells
  of a grid overlapping seeds.

And one in the account rules: the docstring of TopStep's `request_payout`
(`src/pipeline/topstep_account.py:166`) says that `balance > 0` enforces a positive
profit since the last payout. Eligibility reads the balance, and a payout takes at
most half of it, so what an earlier cycle left pays out again in a cycle that lost
money. Apex and LucidFlex compare with the balance of the cycle's start.

## 6. Proofs

Everything below holds for every value of the constants that the modules' named
assumptions allow, and the assumptions are the types of the constants plus what the code
rests on:

- accounts: amounts are integers, targets, distances and payout minimums positive; any
  set of trade results, any caps, any bounds. Apex needs a positive soft daily limit,
  LucidFlex that the trail ends no earlier than the lock and that the smallest payout
  exceeds the lock's buffer, `AltFirms` that the floor locks where the trail ends and a
  payout is due above it. The rulesets of the repository satisfy all of it;
- a live day: any size, minutes, retries, launches, faults; a control plane: any number
  of starts, deaths, commands and interrupted updates;
- strategy: any shapes of bars with integer prices (so the low is at most the open and the
  high at least), any opening range, time stop, target and slippage; for the overlays, any
  integer prices and volumes, any setting of every overlay; for the filters, days with integer
  prices and volumes, with or without a contract and a trade, positive windows, the gate
  families of `regime.py`;
- walk-forward: any months of at least one day, any start days and fold lengths, any grid and
  outcomes with scores above the sentinel that stands for minus infinity, any firms;
- Monte Carlo: any strategies, sizes, numbers and thresholds, any replays of at least one day,
  any positive block size and batch, a first batch no larger than the last.

| Theorem | Statement |
|---|---|
| **`LiveSession_proofs`** | |
| `Invariant`, `TypeCorrect` | `Spec => []IInv`, `Spec => []TypeOK` |
| `OneEntry` | `Spec => []OneEntryUnlessLost` |
| `StopCovers` | `Spec => []StopCoversPosition` |
| `FlatAtEnd` | `Spec => []FlatOrAlarmed` |
| `JournalledOnce` | `Spec => []EveryTradeJournalledOnce` |
| `ForgetsWhenDone` | `Spec => ForgetsOnlyWhenDone` |
| `AdoptedNeverEnters` | `Spec => AdoptedNeverReenters` |
| **`ControlPlane_proofs`** | |
| `Invariant`, `TypeCorrect` | `Spec => []IInv`, `Spec => []TypeOK` |
| `OneTraderAlways` | `Spec => []OneTrader` |
| `OneSupervisorAlways` | `Spec => []OneSupervisor` |
| `StatusAlways` | `Spec => []StatusMatchesChild` |
| `StopNotMissed` | `Spec => NoStartOverRunner` |
| **`Strategy_proofs`** | |
| `SessionInvariant`, `PaperTypeCorrect` | `Spec => []SessionInv`, `Spec => []TypeOK` |
| `PaperBooksAlwaysAgree` | `Spec => []PaperBooksAgree` |
| `AlwaysMatchesBacktest` | `Spec => []MatchesBacktest` |
| `ReplayInvariant` | `ReplaySpec => []ReplayInv` |
| `ReplayBooksAlwaysAgree` | `ReplaySpec => []ReplayBooksAgree` |
| `AlwaysCappedParity` | `ReplaySpec => []CappedParity` |
| **`Services_proofs`** | |
| `WatchInvariant`, `OutboxAlwaysTells` | `WatchSpec => []WatchInv`, `WatchSpec => []OutboxTellsSnapshot` |
| `ChatAlwaysGetsRowsInTurn` | `WatchSpec => []ChatGetsRowsInTurn` |
| `LimiterInvariant`, `LimitAlwaysHolds` | `LimiterSpec => []LimiterInv`, `LimiterSpec => []LimitHolds` |
| **`Tuning_proofs`** | |
| `TuneInvariant` | `TuneSpec => []TuneInv` |
| `SessionsAlwaysScoredOnce` | `TuneSpec => []SessionsScoredOnce` |
| `SelectionAlwaysSound` | `TuneSpec => []SelectionSound` |
| `HoldoutAlwaysOnce` | `GuardSpec => []HoldoutOnce` |
| `ExitOnTime` | `WalkSpec => []OverlaysExitOnTime` |
| `PastAlwaysDecides` | `DaysSpec => []PastDecides` |
| `AtrAlwaysOfRealDays` | `DaysSpec => []AtrIsOfRealDays` |
| **`TopStep_proofs`** | |
| `TypeCorrect` | `Spec => []TypeOK` |
| `OpenAlwaysAboveMll`, `MllIsAlwaysTrailing` | `Spec => []OpenAboveMll`, `Spec => []MllIsTrailing` |
| `PayoutNeverCloses`, `PayoutAlwaysEarned` | `Spec => PayoutKeepsOpen`, `Spec => PayoutIsEarned` |
| `ImplementsTrailing` | `Spec => Trails` |
| `DriversUseAccount`, `DriversKeepContract` | `AttemptsSpec => Spec`, `AttemptsSpec => KeepsContract` |
| **`Apex_proofs`** | |
| `TypeCorrect` | `Spec => []TypeOK` |
| `ThresholdAlwaysTrails`, `EvalAlwaysBelowTarget` | `Spec => []ThresholdTrails`, `Spec => []EvalBelowTarget` |
| `CycleIsAlwaysItsDays` | `Spec => []CycleIsItsDays` |
| `PayoutAlwaysTakesProfit`, `PayoutAlwaysEarned` | `Spec => PayoutTakesProfit`, `Spec => PayoutIsEarned` |
| `ImplementsTrailing` | `Spec => Trails` |
| `DriversUseAccount`, `DriversKeepContract` | `AttemptsSpec => Spec`, `AttemptsSpec => KeepsContract` |
| `OthersImplementTrailing` | `AltSpec => AltTrailing!Spec` |
| `TwinsAlwaysAgree` | `MCSpec => TwinsAgree` |
| `PayoutsAlwaysEarned`, `LucidAlwaysPassesAndPays` | `MCSpec => PayoutsAreEarned`, `MCSpec => LucidPassAndPayouts` |
| `OthersAlwaysTrail` | `MCSpec => OthersTrail` |
| `FirmsAlwaysKeepContract` | `MCSpec => FirmsKeepContract` |
| `AlwaysReproduces` | `MCSpec => []SimulationsReproduce` |
| **`LucidFlex_proofs`** | |
| `TypeCorrect` | `Spec => []TypeOK` |
| `MllAlwaysTrails`, `PassAlwaysTakesTwoDays` | `Spec => []MllTrails`, `Spec => PassTakesTwoDays` |
| `PayoutNeverBreaches`, `PayoutAlwaysEarned` | `Spec => PayoutKeepsOpen`, `Spec => PayoutIsEarned` |
| `ImplementsTrailing` | `Spec => Trails` |
| `DriversUseAccount`, `DriversKeepContract` | `AttemptsSpec => Spec`, `AttemptsSpec => KeepsContract` |

But for `NoLookahead`, none of the state properties is inductive alone. Each component has one inductive
invariant; TLC checked it on the instances of the runs before it was proved, but for those
that speak of functions over all bars or numbers (`WalkOK`, `SimsInv`, `SeqInv`). A proof has
one lemma for each action, or for each kind of effect that several actions share, and
under it one step for each conjunct the action can disturb.

### A live day

`IInv` is the type invariant and nine parts. `TrackInv`, `EngineInv` and `FlagInv` tie what
the process knows to where it is (a broker that closes tracks a position; an engine that
holds one was entered after the opening range; who is placing a bracket knows of no trade
today). `BookInv` and `BracketInv` do the same for the exchange's book and the locals of
`place_bracket`. `EntryInv` and `LegInv` are the heart: unless an entry was lost, at most
one entry lives, it is the one being placed or state.json knows of it, and the only
working legs are those the broker tracks; unless it goes on filling, the legs are for all that filled
and no more than that is open. `FirstInv` follows the first process to its end for
`FlatOrAlarmed` and the journal.

Most actions change little, so they are grouped by what they leave of the
process and the exchange: `Quiet` (the bar loop), `Closes`, `Advances` (a step of a close),
`Fails` (a failed call), `Leaves`, `Drops` (an entry given up inside `place_bracket`); one
lemma keeps `Safe` through each group, and the actions of the entry, the exchange, crash and
relaunch have one of their own. `Mild` says of the exchange what all harmless steps share:
no entry changes and nothing comes alive.

### The control plane

`LockInv`: who is past the process lock holds it; that is all `OneTrader` needs.
`RaceInv` is what `OneSupervisor` needs while starts do not overlap: one command at a time
is past its check (`OneStart`), it passed because no supervisor lived (`StartsAlone`), what
lives since is what it launched (`RecordsIts`), and runtime.json and every copy of it that
an interrupted writer still holds name the supervisor that has booted (`FileNames`,
`CopyNames`): that is why an interrupted update never loses the pid. `StatusInv` says what
runtime.json tells at each location of a supervisor, `OrphanInv` that a living runner is
its supervisor's child, `NumberInv` that there is a number for each launch to come.

### The strategy

`SessionInv` (paper day): a running engine manages the position of state.json, and a trade
taken today guards against another. `ReplayInv`: state.json and the rows tell of the same
session, realized P&L is the sum of at most one row, there is a row or a position and
never both, and the engine manages what the broker holds.

Parity relates a walk over bars that come one at a time to functions of the whole list. The
backtester's words are first restated bar by bar (`EndsAt`, `ArmedAt`, `Runs`: position `p`,
opened on bar `n`, ends on bar `k`), so that they stay true when a bar is appended
(`Growing`); `BacktestFollows` shows that the trade of `Backtest` is that of the first bar at
which `EndsAt` holds, or of the last bar. `ParityInv` then says where the engine is: still
gathering the range of the bars it was served, or following the plan that range gives, that is, holding its
position through bars none of which ends it, or having closed it with the trade of the first
that does. Opening ranges with minutes missing are covered: a range is a prefix of the bars
served, which are in the order of their time. `CapInv` is the same for a replay with the loss cap: of
the three ways a session leaves its row (`StillOpen`, `WasClosed`, `WasCut`), each knows which
bars lost the cap, since a bar is marked to its close before the engine sees it.

The overlaid walk has a sum over its bars in it (the volume-weighted price of the trailing
stop) and an exit that depends on all of them. `WalkOK` says where the walk is: over a
walk of the bars so far (`IsWalk`), and either idle, or in a trade (`InTrade`: it remembers
the entry, no bar so far ends it, the partial is where `Partly` puts it), or out of one by
the exit that the bars give (`TheExit`). The backtester's rules are restated for any list of
bars, `RulesGrow` says what a new bar leaves as it was, and `WalkedOn` takes the walk one bar
on. `SumOf` is a recursive function; what it gives for one bar more, and that it exists at all,
is shown at the least number of bars for which it would not. Proving it showed that a `CASE`
whose guards overlap says less than it seems to: TLC takes the first, TLA+ allows either. The
entry, the close of a day and the stop of the overlays, the drivers and the stand-in account
have been written with `IF`, in the order of the code, since.

The walk-forward's selection and these proofs need least elements, which come from the
library's `WFMin` on the naturals (`LeastNatural`).

### Services, tuning

`WatchInv`: of an account about which nothing is found and not yet enqueued, the newest row
of the outbox tells what the snapshot holds (`FoundTells`); the keys are what can break it,
so a removal carries the mark of a snapshot that is over (`RemovalsDated`). `ChatInv`: the rows
of a batch are undelivered, and what is older than one of them is in the batch, delivered, or has
failed (`BatchOK`), so the same holds of what is older than a row of the chat (`ChatOK`); what is
delivered, or sent and about to be marked, is in the chat (`Accounted`), and every other copy was
counted as unmarked (`CopiesCounted`). `LimiterInv`: the
timestamps grow older towards the front (`InOrder`), and each of the gateway's requests that
is young enough still has its timestamp, or a later one that counts it too (`Matched`).

`TuneInv` follows the stages of the walk-forward; the ranking is not computed but described
(`ListsPlaces`: each admissible survivor stands at one more than the number above him), from
general lemmas about strict orders on finite sets (`Places`, `Sorted`). That folds do not
overlap comes from the arithmetic of dates, `FoldDates`. `GuardInv` says of every hash that is
not excused that at most one run is at it (`Alone`), and that a record means a sentinel, or a
run that is about to write it (`Covered`).

### Days and folds

`DaysInv` is the type of the history and `NoLookahead` itself: what has been decided of a day
stays what a longer history decides, and the new day is decided as on its morning. Both are one
comparison, of two histories with the same past and the same morning (`SamePast`). Tables and
columns that are the same up to a row (`SameTo`) have the same closes, rolling sums, ranks, ATR and
efficiency up to it (`SameRolling`, `SameAtr`, ...), and what decides a day reads its columns shifted,
that is, up to the day before, or what the morning shows. The sessions, the trades and what a gate lets
through are lists with one row for each of a set of dates (`DatedList`), so a row is found by the
rank of its date, and the two histories have the same dates before the day.

A fold is the same list from a later date on (`From`), where every row stands as many places
earlier as there are dates before (`LaterPlaces`); a signal with enough rows behind it is a sum over
the same rows (`LaterSums`), and one with too few opens nothing (`TrailInFold`, `ErInFold`).

For the ATR, `AtrByRank` says that the value of a day is the rolling sum at its rank among the days
that are not a roll's: filling gives a roll the value of the day before, whose rank it shares, and
`LatestIs` that the latest `n` days are those of the latest `n` ranks. `SumAll` adds in the
order in which the library chooses elements; that integers add up in any order is `SumsAddUp`, at the
smallest part of the set for which it would not.

### Accounts and drivers

Each account's `IInv` is its types and `Safe`, whose conjuncts are the goals and:

- everywhere, that an open account is above its limit, and that the cycle counters never
  exceed the sessions closed since the last payout, which is what makes a payout "earned";
- TopStep and LucidFlex, that an evaluation is unpaid (`CombineIsUnpaid`, `EvalIsUnpaid`),
  without which a reset would not restore the closed form of the limit;
- LucidFlex, that a funded account has a payout left, and that on the first day the day's
  P&L is the profit (`FirstDay`);
- Apex, that the intraday peak is the highest balance (`HighIsPeak`), and that an unlocked
  session is above the soft limit (`OpenAboveSoftDll`), so that the trade which locks it is
  a loss and cannot be the one that reaches the target.

The limit's closed form needs that the highest balance never falls and that a step of the
trail moves the limit by exactly the maximum of the old limit and the capped candidate
(`TrailIsClosedForm`); a payout that keeps the account open needs that the request is at most
half of a positive balance or profit. `ImplementsTrailing` follows from `IInv` at both states
of a step.

`DriversUseAccount` refines in the other direction: each step of a driver is a step of the
account or leaves it alone, so every theorem about the account holds in every attempt.
`DriversKeepContract` is the refinement of `AttemptContract`, from `DriverInv` (location,
result flags, phase and session lock agree) and one lemma for each kind of step.
`OthersImplementTrailing` does for Tradeify and MFFU, whose loops have no account object, what
`ImplementsTrailing` does for the three accounts.

`TwinInv` ties the two further implementations of LucidFlex to the account while a driver
plays: `InStep` (the simulator's balance, limit, opening balance and best day are the account's),
`Unended` and `SameEnd` (its verdict is the attempt's). What makes them agree is not that the
tests stand in the same places, they do not: the pipeline asks whether the account may pass
after each trade and again at the close, the simulator after each trade only. Nobody can pass at a close,
because the chance at the close is the chance there was after the last trade; and the day's
P&L is 0 whenever a payout is asked for.

The theorems of `MCFirms` take each firm's part from the theorems about that firm:
`LucidProofs` is an instance of `LucidFlex_proofs` over the composition's variables
(`SameAccount`, `SameDrivers`), and `UsesApex`, `UsesLucid` and `UsesAlt` say that whatever is
played, each account moves by its own specification. `FirmsKeepContract` needs the drivers'
invariants of both firms at once, `FirmsInv`.

### The Monte Carlo

`SimsInv`: the simulation in progress is somewhere on the course that a new strategy and its
seed give (`OnCourse`), so its result is the end of that course. What keeps it is that a new
simulation begins where a new strategy does: without the reset, `OnCourse` fails at the first
step of the second. `SeqInv` has two parts. `Drawn`: the numbers drawn are `Blocks` of them for
each resample, and each result is that of the resample which reads its own share; it needs that a
day's block is one of those that were drawn (`BlocksCover`, from the arithmetic of division) and that
concatenated blocks, cut to the replay's length, have on each day the day of its block
(`Resampled`). `Decided`: the goal is a checkpoint, and none before it was clear; no checkpoint is
skipped, since the next one is the least above the goal (`NextCheckpoint`).

### Model-checked only

Liveness: `SessionEnds`, `EntriesEnd`, `StopEndsAll`. It is out of the
prover's reach. Every other property of a passing run is a theorem, for all values of the
constants that the assumptions allow.

## 7. Not modelled

- **Of the control plane**: corrupt or torn control.json and runtime.json (all
  writers share one temporary name), the generation and `stop_ack_generation`
  (written or read, but no code acts on them), the heartbeat, the text of `last_error`
  (the updates that write it are modelled), the runner started by hand, which takes no
  lock.
- **Of the live side**: preflight checks, credentials, payload parsing, history paging,
  token renewal. They are input and output around the calls that are modelled.
- **LucidFlex vault prices** (`data/lucidflex_vault.py`): a table and formulas over it.
- **Of the optimizer**: the grid search over sizing parameters (`search.py`), the
  overfitting statistics, the admissibility table of the regime study. They are sums,
  ranks and distributions over floats; nothing in them keeps state. The refusal of
  `evaluate_holdout` without `unlock_holdout`, which changes nothing.
- **That a pending notification is sent**: see section 3.
- **Of the Monte Carlo**: percentiles and parametric grids. Confidence intervals appear
  where they decide when a sequential run stops.
- **Dashboard, one-off analysis scripts, reports**: presentation.

## 8. Plan

No safety property that a run checks is left without a proof; liveness stays with the model
checker.

Of the model, what would add most is the crash inside the steps of one bar of a paper
session, which `ORBSession` takes as one.
