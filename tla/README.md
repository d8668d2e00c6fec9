# A verification project for nse-paper-agent

nse-paper-agent trades NSE equities on paper: a service polls quotes in a
loop, sells and buys through a simulated broker, and keeps everything it must
not forget in one SQLite file. Around it are a maintenance job, a replay
harness that runs recorded bars through the same broker, and a research
pipeline that decides which strategy may run. These modules model that code,
TLC checks them on small instances, and TLAPS proves what matters most for
every instance. Paths below are relative to `src/src/nse_paper_agent/` unless
they begin with `scripts/`, `systemd/`, `docs/` or `tests/` (those are under
`src/`). `PROJECT.json` names, for every definition, the lines it translates.

## 1. The system

| Component | State it keeps | Operations | What makes it correct |
|---|---|---|---|
| Trading agent (`agent.py`) | none of its own between cycles | `startup`, `cycle`: exits, equity, end-of-day mark, gate, entries | exits always run in session; entries only when every breaker allows them; positions closed after the close |
| Paper broker (`paper_broker/broker.py`) | `kv_state.cash`, `positions`, `simulated_orders`, `simulated_fills`, `closed_trades` | `buy`, `sell`, each one transaction | the tables agree; no position is overwritten or sold twice; the reserve is kept |
| Risk engine (`risk/engine.py`) | `rolling_block_until` | `can_buy`, `quantity`, `equity`, the two breakers | breakers hold across restarts, days and expired blocks |
| Session and calendar (`session.py`, `data/calendar.py`) | `session_trading_date`, `daily_start_equity` | `snapshot`, `ensure_daily_state` | the baseline of a day is the newest mark of an earlier day |
| Data health (`risk/health.py`) | none | `check_quote`, `check_exit_price` | unusable quotes never fill |
| Repository and database (`persistence/`) | the SQLite file; autocommit outside `transaction()` | `record_eod_snapshot`, checkpoints, migrations, backup | what belongs together commits together |
| Service process (`main.py`, `utils/locking.py`, `systemd/`) | the lock file | build, loop, restart | one process at a time; the loop never ends by itself |
| Maintenance (`scripts/daily_maintenance.py` and its timer) | writes `daily_start_equity` | one run a day, made up for if missed | should not move a baseline in use (it can: run `maintenance`) |
| Governance and identity (`research/governance.py`, `promotion.py`, `lifecycle.py`, `production.py`, `identity.py`) | `production_strategy_identity`, `strategy_promotion_audit` | `evaluate_promotion`, `activate`, `verify_persisted` | the identity is written only by who found none, is audited, meets the gate |
| Replay (`scripts/run_replay.py`) | `market_bars`, `checkpoint:<symbol>`, snapshots | replay of a file, resumed after a stop | each bar once; the trades are a function of the file |
| Strategy selection (`strategy/portfolio.py`, `evidence.py`, `health.py`) | closed trades, regimes | evidence, health, selection | only strategies with evidence are selected, a failing one is paused |
| Strategy improvement (`strategy/diagnosis.py`, `proposal.py`, `proposal_store.py`, `research/validation_request.py`, `validation_plan*.py`) | `strategy_proposals`, `strategy_validation_plans` | diagnose, propose, request, plan, store, load | stored rows stand; a plan fits its proposal; a version stands for one change |
| Validation replay (`research/replay_validation.py`, `challenger.py`, `scripts/run_validation_replay.py`) | one database for each split, in a work directory | replay development and holdout with a challenger | no look ahead; the excluded entries are not made; the result is a function of file and plan |
| Market regime (`regime/`) | a cache of daily bars | `calculate`, `classify` | the cached daily bars are those of the list; a worse market has no better regime |
| Market data (`data/fyers.py`, `scripts/download_fyers_history.py`) | chunk cache files, the output file | fetch in chunks, pace, retry, cache, merge | files are whole, requests paced, a download restarted often enough completes |
| Exit research (`research/exit_lifecycle.py`, `scripts/experiment_v1_exits.py`) | none | simulate a trade under other exits | the hard exits hold whatever the policy; a fill comes from its bar or from a level that stood before |
| Sentiment (`sentiment/`) | none | `apply` | never enlarges a position |
| Other research (`research/metrics.py`, `signal_quality.py`, ...) | none | reports | |

How they interact. The service calls `cycle` every 30 seconds. A cycle reads
the clock once, then commits several times: the exits, each followed by a
cooldown if it was a stop, `last_equity`, the end-of-day mark, a rolling block,
and one transaction per purchase. The maintenance job, the operators who
activate a strategy and the operator who touches the kill file work on the same
database or directory without any coordination with the service. The next day
is based on what the last cycle of the day before committed. The replay uses
the broker, the risk engine and the session guard, with checkpoints of its own.

What is hard about it: a stop between any two commits; what a cycle read at its
beginning and uses at its end; jobs and operators that write between two of its
commits; the change of the day, with holidays, special sessions, missed closes
and missed maintenance; the retries that a restart amounts to; instants in two
zones compared as text; floats that are NaN; lists that are extended while they
are read; results, evidence and caches that outlive the run that made them.
`PROJECT.json` lists these as hazards at the line where each bites.

## 2. The modules

| Module | Models | Composes |
|---|---|---|
| `Session` | the calendar, the session windows, what an instant allows | |
| `RiskEngine` | quote checks, fill prices, equity, sizing, daily loss and drawdown | |
| `TradingAgent` | the agent, the broker's transactions, the process, the kill file, the maintenance job | `Session`, `RiskEngine` |
| `TradingAgentProofs` | theorems about it | |
| `Governance` | evidence to promotion decision, with NaN and missing numbers | |
| `ProductionIdentity` | `activate` in several processes, the service that verifies | `Governance` |
| `RaceToWrite` | abstract: a register that only those write who found it empty | |
| `ProductionIdentityProofs` | theorems, among them that `ProductionIdentity` implements `RaceToWrite` | |
| `StrategySelection` | the strategy pool, evidence, health and the cycles that use them | |
| `StrategySelectionProofs` | theorems about it | |
| `ReplayRules` | bars of a file, and when exit, baseline strategy and position cap act on them | `Session` |
| `Replay` | the replay of a file, its checkpoints and its resumption | `ReplayRules` |
| `ReplayProofs` | theorems about it | |
| `ValidationReplay` | the two replays of a validation with a challenger, in a work directory that is used again | `ReplayRules` |
| `ValidationReplayProofs` | theorems about it | |
| `StrategyEvidence` | closed trades joined with regimes, and grouped | |
| `StrategyImprovement` | diagnosis, proposals, plans and their stores | `AppendOnly`; `StrategyEvidence` in its MC module |
| `AppendOnly` | abstract: keys are added and their rows stay | |
| `StrategyImprovementProofs` | theorems, among them that both stores implement `AppendOnly` | |
| `HistoryDownload` | the downloader with its cache, pacing and retries | |
| `RegimeRules` | the classification of a market by its measures | |
| `MarketRegime` | daily bars and the cache of them, the measures | `RegimeRules` |
| `MarketProofs` | theorems about `HistoryDownload`, `MarketRegime` and `RegimeRules` | |
| `ExitLifecycle` | a trade under several exit policies at once, bar by bar | |
| `ExitLifecycleProofs` | theorems about it | |
| `MC*` | quotes, bars, evidence and calendars for TLC | |

### TradingAgent

A cycle is cut where the code commits. Statements outside
`Database.transaction` commit by themselves (`persistence/db.py` opens the
connection in autocommit mode), so each of these is an action: `BeginCycle`
(the clock, `ensure_daily_state`, the session test), `StopExit`, `StartCooldown`,
`TargetOrForcedExit`, `KeepPosition` (the exit loop), `MarkEquity`
(`last_equity`), `RecordEodSnapshot`, then `OpenGate`, `TripBreaker` or
`ShutGate` (`can_buy` and what precedes it), `Enter`, `PassOver` and
`FinishCycle` (the entry loop). `Startup` is `main` up to the loop; `Crash`
is any end of the process (a kill, an exception that leaves `cycle`, a reboot),
possible at every commit; what was in memory (`pc`, `now`, `todo`, `stopped`,
`equity`, `sizeFactor`) is gone and the tables stay. `Maintenance`,
`ToggleKillFile` and `Tick` may happen between any two of them. `due` says that the
timer has started the maintenance job, which then runs at any moment of the
tick; a start missed while the host was down comes when it is back. `rebased` is a
history variable: the job has run since the day's baseline was set.
`GoodDays` is a parameter of the environment: on these days the feed has a price
for every watched symbol after the close, and a cycle runs to its end then.

What was abstracted, and why that loses nothing the properties see:

* Quotes are drawn when they are read. The code fetches once before the exits
  and once more before the entries and reads each symbol's quote at one place
  after a fetch, so drawing at that place is the same set of behaviours.
* Both loops go over their symbols in any order. The code's order is one of them.
* Regime, feed health, sentiment and the strategy's reading of bars decide
  nondeterministically: they can refuse an entry (`ShutGate`, `PassOver`) or
  halve its size, never more. What the baseline strategy is told about the
  position and the cooldown is kept (`MayBeEligible`).
* Order ids, idempotency keys (they contain the microseconds of the instant, and
  a new cycle has a new instant) and the tables that are only written (signals,
  bars, risk events, sentiment, regimes, health) are left out.
* Money is exact: integers in units of 1/`Base` of a price. The code computes in
  `Decimal` and stores cash as a REAL; that round trip is not modelled.

### ProductionIdentity and Governance

An identity stands for version, configuration hash and risk hash. `activate`
checks the decision (`Promote`), reads the stored identity in a statement of
its own (`ReadExisting`), and then writes audit row and identity in one
transaction (`Write`); it may stop or fail anywhere (`Abandon`). The service
builds a manifest from its files (`BuildManifest`), compares it with what is
stored (`VerifyPersisted`) and runs; files change at any time (`Configure`).
Nothing keeps two activations apart, so they overlap in every way: several may
read that there is no identity before the first of them writes. `RaceToWrite` is
what the code gives all the same: a register that only those write, once each, who found it
empty. `Governance` has the numbers of the evidence
as integers, `NaN` or `Missing`: the reasons for a refusal are comparisons that
are false on NaN, as in Python, and the defaults that `dict.get` is given.

### Replay

One action per commit of the loop in `run_replay.py`: `ReadBar`
(`market_bars`), `Exit`, `StartCooldown`, `Entry`, `SaveProgress` (account
snapshot and checkpoint in one transaction), `RecordEod`; `StartRun` loads the
history from `market_bars` and starts again at the first bar, `SkipBar` passes
over bars at or before their symbol's checkpoint. `Uninterrupted` is the
reference: the trades at the end of `After`, a recursive function of the file that has no
database, no checkpoints and no runs. The baseline strategy reads the history
in `CrossesSma` and `RsiInRange`, both exact, over integer closes; the benchmark is
not traded, and `RegimeOf`, a parameter, gives the regime from the histories of all symbols (a
file without a benchmark is one where it is RISK_ON throughout). Money and
quantities are left out, and with them the breakers of `can_buy`.

### ValidationReplay

`run_validation_replay.py` and the challenger sweep replay the first 70% of the
days of a file and then the rest, each part on a database of its own under the
work directory (`work`). The memory of a run (`run`: plan, split, next bar,
histories, the summary of the first split) ends with it, `work` does not: `Start`
may find what an earlier run left. The steps of a bar are those of `Replay`,
with the regime recorded before each entry (`RecordRegime`), and the challenger's
filter in `Allowed`. `Crash` can happen anywhere; there is no checkpoint and no
resumption. The result keeps the counts of trades by reason and of marked days.

### StrategyEvidence and StrategyImprovement

`Outcomes` is the join of `Repository.strategy_outcomes`: a trade has the regime
that was recorded last when it was entered. `EvidenceOf` groups the outcomes of a
version by regime, entry window, symbol and exit, and takes the mean of each
group and of the recent trades. The state of `StrategyImprovement` is the two
tables, and what an operator has in memory: a batch of proposals (`Diagnose`,
`LoadProposal`) and a plan (`PlanFor`, `LoadPlan`). Any of these and of `SaveMany`
and `SavePlan` may come in any order, as the stores and the planner are separate
classes and nothing else keeps the order; evidence may be of different moments.
An id or a version that the code puts together as text is the tuple of its
parts.

### HistoryDownload

Two loops, over symbols and over chunks of days, are one sequence of `Pieces`.
A piece is read from its cache file (`UseCache`) or requested: `Send` waits for
the pacing and the backoff, then comes `Answer`, `RetryableError` or `FatalError`.
A file is written as `_write_csv` does it, to a temporary file (`WriteRows`,
`SyncRows`) that is then put in place (`Replace`, `Publish`). The answer has the days
that have begun, and days begin at any time (`NextDay`). `answers` and `silence`
are history variables: what the service has answered, and the time since the
last request, which is counted as far as the longest of the `Pauses` that may be
required.

### MarketRegime

Every calculation has its lists at some addresses (`Placements`), and the cache
is a function of addresses, since the code uses `id()`. `CachedDaily` is the
incremental update and `DailyBars` the definition: `DaysUpTo` are the days in the order
of their first bars, `Whole` is one of them as a bar. `Measures` are those of the
benchmark and the breadth, `Classify` (in `RegimeRules`) the thresholds. The
specification is called `MarketSpec`, so that `MarketProofs` can extend
`HistoryDownload` as well. Averages are kept as sums;
the volatility of a window is a parameter.

### ExitLifecycle

The code runs `simulate` once for every policy over the same bars. Here all
policies go through the bars together, so that an invariant can compare them:
`level` and `result` are functions of the policy. `BRACKET` and `PLAIN_TIME` are
the two simulations of `experiment_v1_exits.py`, a second implementation of the
same thing.

### StrategySelection

Closed trades are the state that everything else is a function of: a trade has
the version that opened it, the regime that `strategy_outcomes` joins to it and a
result; `Paused`, `SelectionReady` and `EligibleForSelection` are what
`evidence.py` and `health.py` make of a set of them. Of a cycle remain the two
moments that matter here: the exits (`Sell`), and the health computed after them
(`AssessHealth`), from which the entry loop selects (`Enter`). `seen` is how
many trades that health knows. `Deploy` starts the service with any of several
pools on the same database, `Stop` ends it anywhere. Means and rates are
compared multiplied out, in integers: the confidence is positive when the sum of
the results is positive and its square exceeds 1.96 squared times the variance,
and of two strategies with equal expectancy the one with the smaller standard
error is the more confident (a ranked strategy's confidence is not clipped at zero). Which signals are eligible is a choice; the rest of the entry loop
is in `TradingAgent`.

## 3. What the runs check

Passing runs:

| Run | Question | Properties |
|---|---|---|
| `core` | two symbols, one day, gaps and bad quotes, cash just above the reserve, a crash anywhere: do the tables stay consistent? | `TypeOK`, `LedgerBalances`, `FillsMatchPositions`, `ReserveKept`, `StopCoolsDown` |
| `days` | three trading days with a holiday after the first, a short special session, a missed close, a crash, the kill file, the maintenance job: do marks and baselines survive, is every position closed in the end, and does a drawdown end? | `EodStateIsNewestMark`, `DailyLossHaltsEntries`, `MarksAreFinal`, `EntriesInWindow`, `PositionsAreClosed`, `BreakerReleases` |
| `identity` | three activations that overlap in every way: who writes the identity, is what `activate` returned on record, does it meet the gate, and what may a verified service run? | `IdentityIsRacedFor`, `ToldIdentityIsAudited`, `AuditExplainsIdentity`, `VerifiedAgentWasPromoted`, `StoredMeetsGate`, `TypeOK` |
| `replay` | two shares and an index, two days, up to two stops and a second run: is each bar accounted for once, do trades alternate, is an undisturbed replay a function of its file? | `EveryBarOnce`, `RoundTrips`, `ReplayIsFunction`, `TypeOK` |
| `selection` | two strategies, one at a time or together, every history of four trades: do the purchases agree with the evidence? | `PausedNeverBuys`, `EntriesAreEarned`, `OneIsBest`, `TypeOK` |
| `improvement` | one version diagnosed at three moments of a growing history, with everything saved, planned and loaded in any order: do stores, plans and versions stay what they were? | `PlanFitsStoredProposal`, `OneChangePerVersion`, `StoresAreAppendOnly`, `TypeOK` |
| `validation` | three days, three symbols, eight plans of which four are refused, two runs in one work directory, a crash anywhere: is there look ahead, and does the challenger avoid its target? | `HistoryIsThePast`, `TargetIsAvoided`, `ValidationIsFunction`, `TypeOK` |
| `download` | two symbols in two chunks each, two retries, a crash anywhere, days that begin meanwhile: are files whole, requests paced, and is the download completed in the end? | `FilesAreWhole`, `RequestsArePaced`, `DownloadCompletes` |
| `regime` | lists that grow, at addresses that change with every calculation: is the cache the definition? | `DailyBarsAreOfTheList` |
| `exits` | every path of bars of a short session under a policy of each kind: what do policies and hard exits do to each other, and where do the prices of fills come from? | `HardExitsAreImmutable`, `FillsAreOfTheBar` |

Two runs end in a counterexample, against a sentence of the repository (quoted
under "findings"):

| Run | What happens |
|---|---|
| `position_cap` | `can_buy` counts positions once per cycle (`agent.py:205`); two symbols signalled in the same cycle are both bought with one slot left. |
| `maintenance` | The host is down at the hour of the maintenance job; the timer makes up for it in the next session (`Persistent=true`), when the account is past its daily limit, and `daily_maintenance.py:9` makes the equity after the loss the baseline: the next cycle buys. `DailyLossHaltsEntries`, in `days`, says what holds until the job runs. |

### Bounds, and why they are enough

* `TradingAgent`. A day of five ticks has one before the open, two for entries,
  one between cutoff and close, one after the close: every session state, and
  room for a second cycle after a stop on the same day. A price is 7, 10 or 16
  (below the stop, at the entry, above the target), slippage and spread limits
  are 10% (20% for a last-only quote), large enough to matter at that scale.
  `core` starts with 460 units (46 shares' price in tenths) and a reserve of 200, so
  that two purchases in one cycle reach the reserve exactly when slippage is
  ignored. `MaxBuys = 2` allows a purchase after a stop and two in one cycle,
  `MaxCrashes = 1` puts a crash at every commit. A cycle lasts at most one tick
  boundary (`Tick`): cycles are shorter than any session window.
* `days` needs days more than symbols: one symbol, and `Horizon = 24` is three
  trading days with a holiday between the first and the second. A fall to 7 is a
  loss that reaches both breakers but not the stop (`HardStopPct = 4`), so that a
  position is held over the close and a drawdown arises from the marks;
  `RollingBlock = 10` outlasts the holiday. Its feed also returns stale quotes.
* `ProductionIdentity`: three activators, so that a third can begin after one of two
  that overlap is through; four candidates are two good ones and one for each
  way to fail (too few trades and a missing number; NaN).
* `Replay`: two shares and an index over two days of nine ticks, 54 bars. There are
  crossings of the average with an RSI of exactly 50 and of 100, which the filter
  refuses, crossings in a bad regime, in a cooldown and without room (a cap of
  one, so that the shares compete), and exits at the target, the stop and the
  close; averages and RSI are over two bars. Two stops, so that a
  resumed run can be stopped again.
* `StrategySelection`: four trades. Two are evidence enough (`MinSamples`) and one
  is recent, so that a third can degrade and a fourth recover; results are a loss
  beyond the drawdown limit, a loss within it and a gain; the second strategy is
  for one of the two regimes only. The two have the same priority, so that
  equal evidence reaches the last criterion.
* `StrategyImprovement`: nine trades of which the first two are too few, four
  give two weaknesses and eight a third that moves the ranks; two proposals for
  three findings, so that one is dropped. Two risk configurations freeze two
  plans of one id.
* `ValidationReplay`: seven bars a day, three days (two to develop, one held
  out), two shares with the bar of the index between theirs, so that the regime
  changes between two entries at one instant; a cap of one; positions that are
  open when a split ends; two runs and a stop, so that the second finds what any
  part of the first has left.
* `HistoryDownload`: chunks of two days of which the last is half in the future
  when the download is begun; interval and backoff of two ticks, so that each
  of them is the longer one for some retry; two retries, after which the run fails.
* `MarketRegime`: three addresses for two lists (one is always free and keeps a
  stale entry), days of one and of two bars, and a bar that comes twice.
* `ExitLifecycle`: three bars arm a level, raise it and hit it; prices are one on
  each side of every level that a policy has.

### Fairness

`FairSpec` has weak fairness of the agent's own steps and strong fairness of time.
The loop of `main.py` has no exit besides a signal; a process that failed is started again
(`Restart=on-failure`, `RestartSec=10` in the service unit), and one that a
reboot ended is started by the boot. So an agent that can take a step takes one,
unless somebody stops the service deliberately and leaves it stopped, which the
properties do not speak of. Clocks advance: `Tick` waits for the end of a cycle that has seen
one tick already, and the loop begins cycle after cycle, so what is enabled again and
again is time, hence the strong fairness. Nothing is assumed of the operator of
the kill file, the timer or crashes.
`PositionsAreClosed` and `BreakerReleases` need something of the environment too,
which is a parameter of the run and not of the code: on `GoodDays` the feed has a
price for every watched symbol after the close, since a position without a price is kept, and
one cycle runs from beginning to end between the close and midnight, which is eight hours at two
cycles a minute. Other days may be as bad as they like. Crashes are bounded (as fairness cannot speak of a process that is
stopped for ever). `PositionsAreClosed` is stated for watched symbols: a position in a symbol that
the service is no longer started with is never sold. `BreakerReleases` needs
`RollingDays - 1` good days ahead: it says that a blocked service goes on taking
the marks that end its drawdown.

`HistoryDownload` has weak fairness of its own steps, of time and of the end of a
request (every request has a timeout, `data/fyers.py:77`), and of `Start`: whoever
wants the file runs the script again, as `docs/FYERS_DATA.md` says. Of the service
it has strong fairness of an answer: it may fail any number of times, and fatally,
but not every request for ever. `SF_vars(\E p \in Pieces : Answer(p))` does not say
for which piece; it is enough since a run asks for one piece at a time, in order,
and the cache keeps what was answered. Crashes are bounded.

## 4. What the models show besides

Modelling the code led to these. Besides the two runs that end in a counterexample they
have none of their own, since each needs only a few steps to see; the properties
above say where they make a difference.

The agent and its database.

* The sale at the stop and the cooldown are two commits (`agent.py:151`): a stop
  of the process in between loses the cooldown, hence `crashes = 0` in
  `StopCoolsDown`.
* `daily_maintenance.py:9` overwrites the day's baseline with `last_equity` whatever
  day it is. The timer is `Persistent=true`: a run missed overnight happens during
  the next session, and a day already halted by its loss goes on buying: the run
  `maintenance`.
* Everything a cycle does uses the instant it began at (`agent.py:125`): with a slow
  feed a purchase can be made after the cutoff of the clock on the wall.
* A kill file created while a cycle's entry loop runs does not stop that cycle's
  remaining purchases; a purchase that the gross cap bounds exceeds it by the
  slippage; a sale worth less than its fee takes the cash below the reserve
  (which is why `ReserveKept` has `SaleCoversFee`).
* `initialize_db.py` writes the key that says it is done last: run again after it was
  interrupted, it sets cash and baseline back, whatever has been traded since
  and with positions still there. Of two processes that migrate at once the
  slower sets the version back to 2 on its way to 3 (`persistence/db.py:46`); every
  step can be repeated, so that the next start repairs one that stops there.
* The service unit that is shipped passes no `--symbols`, and `main` then never
  calls `cycle`; the shipped configuration does not ask for the bootstrap, and with
  one strategy and an empty database nothing is ever bought (theorem `FailsClosed`).

Identity and selection.

* `activate` reads before its transaction begins (`production.py:16`): of two
  activations that both find no identity the later one replaces the identity of the
  earlier one, although the docstring (`production.py:13`) says "without allowing
  replacement". `activate` has then returned an identity that is no longer stored, and a service
  may run that was verified against it. What holds for any overlap is that both
  were promoted on sufficient evidence and are on record, and that nothing is
  replaced once the overlapping ones are through (`SettledForGood`).
* `verify_persisted` accepts any strategy while no identity is stored,
  and no script calls `activate`.
* A strategy is paused for drawdown with any number of observations
  (`health.py:63`), where `docs/STRATEGY_HEALTH.md:19` says "once enough
  observations exist". As the drawdown is over all history and a paused strategy
  makes no trades, such a pause is never over, where `docs/STRATEGY_LIFECYCLE.md:43` calls a
  paused strategy "temporarily ineligible".
* A proposal that is stored loses its target, as the table has no column for it. A
  plan made from the stored row can never be executed, and, as plans are kept
  by the id of the proposal, it also keeps the right plan out.
* The baseline strategy buys in CAUTIOUS and not in RANGE_BOUND, although
  `Classify` gives CAUTIOUS to a worse market.

Replays and validation.

* A replay that stopped after recording a bar loads it into its history and appends
  it again (`run_replay.py:91`); with the last close doubled a crossing of the
  average is missed. `ReplayIsFunction` is stated for undisturbed replays.
* The checkpoint is written in UTC and compared as text with the bar's time in the
  zone of the file (`run_replay.py:89`). With IST times, which the downloader writes,
  bars are processed a second time; the run has `Zone = 0`.
* A replay that stops between the last checkpoint of a day and its end-of-day mark
  never writes that mark.
* A validation that is run again in the same work directory, which is the default one,
  adds its trades to those of the earlier run and counts both, also those of another
  plan; it also sets the cash back while positions of the earlier run remain, and
  one left by a crash is sold at a bar before the one it was bought at.
  `ValidationIsFunction` is stated for the first run in a directory.
* A position that is open when a split ends is in no count. A time target that is no
  bucket is refused only at the first signal (`EntryRaises`). The sweep reports an
  old `results/<name>.json` if the worker of that name has failed.
* The regime is recorded per entry asked for; the bar of the index may come between
  two shares of the same instant, which then have two regimes
  (`TwoRegimesAt`), and the join gives both the second one.
* `int(0.70 * n)` is one less than 70% of `n` days for some `n`, of which 90 is the
  smallest; `Cut` is exact.

Market data and research.

* A chunk fetched before its last day was over, or answered empty, is cached like any
  other and never completed. Pacing is not kept across restarts, and the
  guard of `fetch` admits 101 days.
* The cache of daily bars trusts length and last end: a list allocated at the address
  of a freed one of another symbol can extend that symbol's days, which is why
  `DailyBarsAreOfTheList` speaks of addresses that only lists of one symbol had.
* `exit_lifecycle.py` raises a trailing stop by the high of a bar and then tests the
  low of the same bar (249-260), where its comment (247-248) wants no assumption about
  the path within a bar; the code keeps to that for arming only. The level may then be one
  that the share had before its high and not after it.
* A gap below the stop sells at the stop, and one above the target at the target
  (`exit_lifecycle.py`, `experiment_v1_exits.py`). The bar that opened below the
  stop never had its price, and the loss is understated, where `src/README.md:180` has stops that gap
  executed at the first bid available (as the agent does). `FillsAreOfTheBar` says
  exactly which fills are outside their bar: the target below its low, and the stop or
  a level that stood before it above its high.

## 5. What is proved

`TradingAgentProofs`, for every configuration that satisfies the named
assumptions of `Session`, `RiskEngine` and `TradingAgent`, any set of symbols,
any quotes, any number of crashes, days and purchases:

* `Typing`. The inductive invariant is `TypeInv == TypeOK /\ LoopOK`; `LoopOK`
  says what the loops rely on: the exit loop only visits held symbols, the
  stopped symbol is set exactly between a stop and its cooldown, equity and size
  factor exist while entries are made.
* `FillsMatch`. Needs that a purchase meets no held symbol (the guard that the
  strategy's view of the position amounts to) and that a sale does.
* `CashAboveReserve`. `ReserveKept` is inductive together with `TypeInv`: a
  purchase checks it, and under `SaleCoversFee` a sale cannot lower cash.
* `KeysFollowMarks`, `FinalMarks`. `MarkInv` adds that no mark is later than the
  cycle's date and that the date of a cycle never goes back, so an insert is
  always the newest row.
* `EntryWindow`. `EntryInv` carries what the gate found about the session into the
  entry loop, where the purchase happens at the instant of the cycle.
* `CooldownKept`. `CoolInv`: without a crash, every latest stop has its cooldown
  recorded, except the one in hand, and then no purchase is possible.
* `LedgerBalance`. What the positions cost is a sum over a finite set. It is opened
  as a recursive function over the subsets of the set (`Totals`), and lemma
  `TotalWithout` says that any member may be the one added last; with it a
  purchase and a sale each change the sum by their own position. The invariant
  adds that only finitely many symbols are held (`Balanced`).
* `DailyLoss`. `DayInv` says that as long as the maintenance job has not overwritten it
  (`~rebased`), the baseline is what the newest mark before the session date
  recorded (`OpensWith`): `EnsureStep` shows it when the day begins, from
  `MarkInv`, whatever the job wrote on earlier days, and a mark of today does not
  change what comes before today. Only `OpenGate` leads to the entry loop
  (`EntryFrame`), and what it compared is the equity of that opening. That the job
  can overwrite a baseline in use is what the run `maintenance` shows.

`ProductionIdentityProofs`, for any number of activators that overlap in any way,
fail anywhere and are repeated:

* `StoredIsWorthy`, by lemma `DecisionMeetsGate`: a positive
  decision means that every number is present, not NaN, and on the right side of
  its limit; this is where the limits are assumed to be ones that the defaults for
  missing numbers do not meet.
* `ImplementsRegister`: the stored identity with the activators that are about to write implements
  `RaceToWrite`; and `SettledForGood`, that an identity with nobody about to write
  stays, as each later activation reads it first.
* `AuditExplains`. `RowsExplain`: the newest row is the stored identity, and each row
  used up an activator that found none, so the rows and the activators still about to
  write are together at most all activators.
* `ToldTruly` and `VerifiedRuns`. `ShownIsAudited`: whatever `activate` returned or a
  service was checked against was stored at some time, hence has its row, and rows stay.

`StrategySelectionProofs`, for every pool, policy, result and history. `Typing`
has the invariant `IInv`, which adds to `TypeOK` that the health of the entry
loop knows all trades; with it `PausedStaysOut` and `EarnedEntries` follow from
what `Select` may return. `FailsClosed` assumes `NoneBootstraps`. `OneIsSelected`: the sort key is
made of criteria of which each passes being ahead on (`CriteriaPass`; for the drawdowns,
which are fractions, `DeeperPasses`), the last one, the version, tells
any two apart, so the lexicographic order of them is total (`OutranksOrder`), and in
a finite set somebody is ahead of all others.

`StrategyImprovementProofs`, for every diagnosis that finds and ranks what it may.
The invariant `IInv` has one statement for the stores, the batch in hand and the
draft: a proposal is named after its target and what it changes follows from its
code, and a plan is made from such a proposal. `Typing`, `PlansFit` and `OneChange`
follow from it; `StoresAppend` shows that a save of a known id is a stutter of
`AppendOnly` and any other one a step of it.

`ExitLifecycleProofs`, for every entry, path of bars and set of policies.
`HardExitsHold` and `FillsFit` share `IInv`. `PathOK`: the price is within the
highest and lowest so far, and no level is above the highest. `Ordered`: a
policy that still holds does so while the baseline of its levels holds, and a
hard exit is the one that the baseline makes. `FillIsOfTheBar` goes through the reasons
of a fill; a level that a bar raises is below its high, and so between the prices
of the bar unless it stood before.

`MarketProofs`, for every number of symbols, days, retries and crashes and every
length of a chunk, every market, and every pair of measures:

* `WholeFiles` has the invariant that what is merged before piece k is a whole
  answer for every piece before k and nothing else (`MergedUpTo`). That merging
  one more keeps it (`MergeNext`) needs that no row belongs to two pieces: lemma
  `PiecesAreApart`, from the arithmetic of chunks and the fact that no symbol is
  listed twice.
* `PacedRequests`. `Waits` says that the remaining time, with the silence so far,
  covers the interval and the backoff of the attempt at hand, whichever way the
  request before it ended. That `silence` stops counting must not matter, which is why
  it stops at no pause shorter than one in use (`Pauses`). No fact about the sign or the
  growth of powers is needed.
* `CacheTellsOfTheList`. `CacheInv`: an entry at an address where only lists of one
  symbol have been holds the daily bars of a beginning of that symbol's list, with its
  length and last end. `OneMoreBar` is the core: the daily bars of one bar more are
  `AddBar` of those before; `ExtendedIs` takes it along the rest of the list. What a
  day is made of needs that its bars are a range, hence that ends and days do not fall
  (`MarketAssumption`, as the providers sort by end).
* `WorseMarketNoBetterRegime`. Lemma `Thresholds` says that a worse market is below
  every breadth and above every volatility that a better one is below or above, and
  the six tests of `Classify` are gone through.

`ReplayProofs`, for every file, any number of symbols, stops and runs:

* `TypeCorrect`, without hypotheses.
* `EveryBarIsAccountedOnce`. `LoopInv`: behind the bar at hand every regular bar is
  processed, by this run or an earlier one; `OnceInv`: a bar has its snapshot if and
  only if its symbol's checkpoint has reached it.
* `TradesAreRoundTrips`. `BoughtInv` ties a position to the bar it was bought at, before
  which all is processed, so a resumed run never sees a bar before a purchase it finds
  in the database (`SoldLater`), and no rule sells at the bar of the purchase
  (`NoExitAtPurchase`).
* `UninterruptedReplayIsFunction`. `FollowsFunction` says for every label of the loop which
  part of `After` the state equals; `SeenInv`: a first run knows no checkpoint beyond the
  bars it has seen.
* `FirstReplayIsFunction`: the same of the first run alone, for files whose times are in
  UTC or east of it and for any benchmark, so also for what the downloader writes (shares and
  the index, in IST). There a checkpoint in UTC never reads later than the bar it is of
  (`ProcessedOnlyIfDone`), so a first run passes over nothing.

Two hypotheses are of the file. `Zone = 0`: checkpoints are in UTC and compared as texts
with the times of the file (`run_replay.py:89`). The fixtures under `tests/` are in UTC; the
downloader and the generator write IST, and for such a file only the first run is covered
(`FirstReplayIsFunction`): in a second one bars are processed again, and with a `Zone` above
zero TLC finds counterexamples to `EveryBarOnce`, `RoundTrips` and `ReplayIsFunction`
within seconds. `NoBarTwice`: two bars of a symbol that end at once are one to the
checkpoint, and the second is passed over; the downloader writes none.
`TradesAreRoundTrips` needs only the first hypothesis.

`ValidationReplayProofs`, for every file, calendar, set of plans, and any number of
runs and crashes in one work directory:

* `TypeCorrect`: a position has a holder exactly when it is there, in both databases and
  whatever an earlier run left (`Books`).
* `StrategySeesThePast`. `HistoryInv`: the history of a symbol is its bars up to the one at
  hand. `SplitIsRange` is what this rests on: since days do not fall in a sorted file, the
  bars of a split have no bar of the other between them, so what warms up the second
  split is exactly what is before its first bar (`WarmUpIsPast`).
* `PlansAreKept`. `AsPlanned`: every trade and every position of a version complies with the
  plan of that version. For a regime this speaks of a row of the entry's instant, and
  `JoinedInstant` shows that the join finds one of the rows of that instant. It assumes
  `VersionNamesChange`: two plans of one version exclude the same. The scripts make
  the version's text of scope and target (`run_validation_replay.py:36`,
  `run_challenger_sweep.py:49`); a second challenger of the same name would share the
  trades of the first.
* `FirstValidationIsFunction`. `Follows` says what the first run in a directory has done
  with a database at each label; `FollowsStep` takes every step as a part of the
  function, `AfterStays` says that nothing happens in bars that are not replayed.

Induction. The library's induction theorems cannot be used, as they have an operator for a
parameter. What is inductive here goes through sets: a least counterexample (`Least`, from
`WFMin` and the fact that < is well-founded on the naturals) gives lemma `Induction`, that
a set with 0 that is closed under successor has all numbers up to N, and `Recursion`,
that a recursive function on 0 .. N exists, whence its defining equation holds. So the
definitions over a file or a list (`BarsUpTo`, `After`, `DaysUpTo`, `Extended`) are
recursive functions of a position in it, and no operator is declared RECURSIVE.

Model-checked only: `PositionsAreClosed`, `BreakerReleases` and `DownloadCompletes`, which are
liveness and rest on fairness; and the limits a run shows by reaching them (section 3).

## 6. Not modelled, and the plan

What the first plan listed is done: the agent, governance and identity, the
replay, selection, diagnosis with proposals and plans, market data with the
regime, exits, the replays of a validation, and the proofs in section 5. Left:

1. The database: migrations in autocommit, the first initialisation statement by
   statement, the backup. What goes wrong there is described in section 4; what
   a backup holds depends on SQLite and not on this code.
2. Money in the replays: with it the daily baseline that a resumed replay walks
   through days already processed (`run_replay.py:86`).
3. Proofs: every safety invariant that a run checks has its theorem now. What would say
   more is a refinement of the agent, its purchases and sales as those of an abstract
   account that knows neither cycles nor crashes; and that a replay
   whose stops all fall between a checkpoint and the next read has the trades of
   `Uninterrupted`, for which no run has been made yet.

Left out for good: logging, alerts and health files (`monitoring/`, output only);
configuration parsing (its values are the constants); sentiment and the
strategies of `strategy/families.py`, which compute a choice from numbers and keep
nothing (the models choose for them); the research analyses, the validation
reports and the analysis and experiment scripts, which read a finished database
or file, sum up and print; the fixture generators;
`LiveMarketDataAdapterPlaceholder`, which raises.

## 7. Running it

    tlc -workers 2 -config core.cfg MCTradingAgent
    tlapm TradingAgentProofs.tla

Runs, modules and properties are listed in `PROJECT.json`; `core`, `days`,
The runs take from seconds to about two minutes each. The
operators whose names have an underscore (`Sell_ForgetsEntryFee`) are plausible
bugs: with one of them in place of the definition it is named after, the property
given beside it in `PROJECT.json` fails.
