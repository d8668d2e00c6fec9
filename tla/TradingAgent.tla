---------------------------- MODULE TradingAgent ----------------------------
(***************************************************************************)
(* The trading agent: TradingAgent.startup and TradingAgent.cycle          *)
(* (agent.py) with the PaperBroker transactions, the SQLite state they     *)
(* leave behind, the process that runs them (main.py under systemd, which  *)
(* restarts it), the kill file an operator may create or remove, and the   *)
(* maintenance job a timer starts in a process of its own.                 *)
(*                                                                         *)
(* A cycle is cut where the code commits to the database: every statement  *)
(* outside PaperBroker's and Repository's transactions commits by itself,  *)
(* so the process can stop between any two of these steps and the restart  *)
(* finds exactly what was committed.                                       *)
(*                                                                         *)
(* Quotes are drawn when a step reads them: the cycle fetches twice, and   *)
(* after each fetch reads the quote of a symbol at one place only.  The    *)
(* two loops visit the symbols in any order.                               *)
(***************************************************************************)
EXTENDS Session, RiskEngine, FiniteSets

CONSTANTS
    Symbols,             \* what can be traded
    Watchlist,           \* the --symbols of the running service
    StartingCapital, MaxOpenPositions,
    RollingDays,         \* risk.rolling_drawdown_days
    RollingBlock,        \* risk.rolling_block_hours, in ticks
    StopCooldown,        \* risk.stop_cooldown_minutes, in ticks
    MaintenanceTime,     \* OnCalendar of the maintenance timer, a tick of the day
    StartTime, Horizon,  \* bounds: the first and the last instant considered
    MaxBuys,             \* bound: purchases in a behaviour
    MaxCrashes,          \* bound: stops of the process in a behaviour
    MaxToggles,          \* bound: times the kill file is created or removed
    GoodDays             \* dates whose quotes all have an exit price, and which do
                         \* not end before a full cycle after the close

ASSUME AgentAssumption ==
    /\ Watchlist \subseteq Symbols
    /\ None \notin Symbols
    /\ {MaxOpenPositions, RollingDays, RollingBlock, StopCooldown,
        MaintenanceTime, StartTime, Horizon, MaxBuys, MaxCrashes,
        MaxToggles} \subseteq Nat
    /\ StartTime >= DayLength
    /\ StartingCapital \in Nat /\ StartingCapital >= MinimumCashReserve

VARIABLES
    \* committed to SQLite
    cash,            \* kv_state "cash"
    positions,       \* table positions: function from the symbols held
    netFilled,       \* table simulated_fills: shares bought less shares sold
    realised,        \* table closed_trades: the sum of net_pnl
    lastStop,        \* table closed_trades: latest STOP exit of a symbol, or 0
    cooldown,        \* table cooldowns: until when, or 0
    marks,           \* table account_snapshots where is_eod: date -> equity
    lastEod,         \* kv_state "last_eod_trading_date", or 0
    lastEodEquity,   \* kv_state "last_eod_equity": <<equity>>, or <<>> if absent
    lastEquity,      \* kv_state "last_equity"
    sessionDate,     \* kv_state "session_trading_date", or 0
    dailyStart,      \* kv_state "daily_start_equity"
    rebased,         \* history: dailyStart is no longer what the day began with
    blockUntil,      \* kv_state "rolling_block_until", or 0
    \* in the memory of the process
    pc, now, todo, stopped, equity, sizeFactor,
    \* around it
    clock, toggles, buys, crashes,
    due              \* whether the maintenance timer is to start its job

ledger == <<cash, positions, netFilled, realised>>
stops == <<lastStop, cooldown>>
eod == <<marks, lastEod, lastEodEquity>>
daily == <<sessionDate, dailyStart, rebased>>
local == <<now, todo, stopped, equity, sizeFactor>>
environment == <<clock, toggles, buys, crashes, due>>
vars == <<ledger, stops, eod, lastEquity, daily, blockUntil, pc, local, environment>>

Held == DOMAIN positions
Today == Date(now)

Steps == {"down", "sleep", "exits", "cooldown", "eod", "gate", "entries"}

Position == [qty : Nat \ {0}, entry : Nat \ {0}, stop : Int, target : Int, fee : Nat]

(* The values of equity are left open: they are sums over the positions.   *)
TypeOK ==
    /\ cash \in Int /\ realised \in Int
    /\ Held \subseteq Symbols /\ positions \in [Held -> Position]
    /\ netFilled \in [Symbols -> Int]
    /\ lastStop \in [Symbols -> Nat] /\ cooldown \in [Symbols -> Nat]
    /\ DOMAIN marks \subseteq Nat /\ lastEod \in Nat /\ sessionDate \in Nat
    /\ blockUntil \in Nat
    /\ pc \in Steps /\ now \in Nat /\ todo \subseteq Symbols
    /\ stopped \in Symbols \cup {None} /\ sizeFactor \in 0 .. Whole
    /\ clock \in Nat /\ toggles \in 0 .. MaxToggles
    /\ buys \in 0 .. MaxBuys /\ crashes \in 0 .. MaxCrashes
    /\ due \in BOOLEAN /\ rebased \in BOOLEAN

Init ==
    /\ cash = StartingCapital /\ realised = 0
    /\ positions = [s \in {} |-> None]
    /\ netFilled = [s \in Symbols |-> 0]
    /\ lastStop = [s \in Symbols |-> 0] /\ cooldown = [s \in Symbols |-> 0]
    /\ marks = [d \in {} |-> None] /\ lastEod = 0 /\ lastEodEquity = <<>>
    /\ lastEquity = None
    /\ sessionDate = 0 /\ dailyStart = StartingCapital /\ rebased = FALSE
    /\ blockUntil = 0
    /\ pc = "down" /\ now = 0 /\ todo = {} /\ stopped = None
    /\ equity = None /\ sizeFactor = 0
    /\ clock = StartTime /\ due = FALSE
    /\ toggles = 0 /\ buys = 0 /\ crashes = 0

-----------------------------------------------------------------------------
(* Starting, stopping and beginning a cycle.                               *)

NoLocal == now' = 0 /\ todo' = {} /\ stopped' = None /\ equity' = None /\ sizeFactor' = 0

EnsureDailyState_FromLastEquity(t) ==
    IF Date(t) \in TradingDays /\ sessionDate # Date(t)
      THEN /\ sessionDate' = Date(t) /\ rebased' = FALSE
           /\ dailyStart' = IF lastEquity = None THEN StartingCapital ELSE lastEquity
      ELSE UNCHANGED daily

(* SessionGuard.ensure_daily_state, one transaction.                       *)
EnsureDailyState(t) ==
    IF Date(t) \in TradingDays /\ sessionDate # Date(t)
      THEN /\ sessionDate' = Date(t) /\ rebased' = FALSE
           /\ dailyStart' = IF lastEodEquity = <<>> THEN StartingCapital
                                                    ELSE lastEodEquity[1]
      ELSE UNCHANGED daily

(* main: the single-process lock is free, the database is opened and       *)
(* TradingAgent.startup runs.                                              *)
Startup ==
    /\ pc = "down"
    /\ pc' = "sleep"
    /\ EnsureDailyState(clock)
    /\ UNCHANGED <<ledger, stops, eod, lastEquity, blockUntil, local, environment>>

(* The process stops: a kill, an exception that leaves the cycle, a reboot.*)
Crash ==
    /\ pc # "down" /\ crashes < MaxCrashes
    /\ crashes' = crashes + 1
    /\ pc' = "down"
    /\ NoLocal
    /\ UNCHANGED <<ledger, stops, eod, lastEquity, daily, blockUntil, clock, toggles,
                   buys, due>>

(* main calls cycle only if it was given symbols; cycle reads the clock    *)
(* once and everything below uses that instant.                            *)
BeginCycle ==
    /\ pc = "sleep" /\ Watchlist # {}
    /\ EnsureDailyState(clock)
    /\ now' = clock
    /\ IF ExitsAllowed(clock)
         THEN pc' = "exits" /\ todo' = Held
         ELSE pc' = "sleep" /\ todo' = {}
    /\ UNCHANGED <<ledger, stops, eod, lastEquity, blockUntil, stopped, equity,
                   sizeFactor, environment>>

-----------------------------------------------------------------------------
(* Exits.                                                                  *)

(* latest_quotes is asked for the watchlist only.                          *)
LatestQuotes(s) ==
    IF s \notin Watchlist THEN {None}
    ELSE IF Today \in GoodDays THEN {q \in Quotes : CheckExitPrice(q)}
    ELSE Quotes \cup {None}

Sell_KeepsEmptyPosition(s, q) ==
    LET p == positions[s]
        proceeds == SellPrice(q) * p.qty - SellFee
    IN  /\ cash' = cash + proceeds
        /\ realised' = realised + proceeds - p.entry * p.qty - p.fee
        /\ netFilled' = [netFilled EXCEPT ![s] = @ - p.qty]
        /\ positions' = [positions EXCEPT ![s].qty = 0]

Sell_ForgetsEntryFee(s, q) ==
    LET p == positions[s]
        proceeds == SellPrice(q) * p.qty - SellFee
    IN  /\ cash' = cash + proceeds
        /\ realised' = realised + proceeds - p.entry * p.qty
        /\ netFilled' = [netFilled EXCEPT ![s] = @ - p.qty]
        /\ positions' = [x \in Held \ {s} |-> positions[x]]

(* PaperBroker.sell: cash, fill, position and closed trade in one          *)
(* transaction.                                                            *)
Sell(s, q) ==
    LET p == positions[s]
        proceeds == SellPrice(q) * p.qty - SellFee
    IN  /\ cash' = cash + proceeds
        /\ realised' = realised + proceeds - p.entry * p.qty - p.fee
        /\ netFilled' = [netFilled EXCEPT ![s] = @ - p.qty]
        /\ positions' = [x \in Held \ {s} |-> positions[x]]

ExitQuotes(s) == {q \in LatestQuotes(s) : q # None /\ CheckExitPrice(q)}

StopExit(s) ==
    /\ pc = "exits" /\ s \in todo
    /\ \E q \in ExitQuotes(s) : StopHit(positions[s], q) /\ Sell(s, q)
    /\ lastStop' = [lastStop EXCEPT ![s] = now]
    /\ pc' = "cooldown" /\ stopped' = s /\ todo' = todo \ {s}
    /\ UNCHANGED <<cooldown, eod, lastEquity, daily, blockUntil, now, equity,
                   sizeFactor, environment>>

StartCooldown_EndsAtOnce ==
    /\ pc = "cooldown"
    /\ cooldown' = [cooldown EXCEPT ![stopped] = now]
    /\ pc' = "exits" /\ stopped' = None
    /\ UNCHANGED <<ledger, lastStop, eod, lastEquity, daily, blockUntil, now, todo,
                   equity, sizeFactor, environment>>

(* The cooldown is a statement of its own, after the sale is committed.    *)
StartCooldown ==
    /\ pc = "cooldown"
    /\ cooldown' = [cooldown EXCEPT ![stopped] = now + StopCooldown]
    /\ pc' = "exits" /\ stopped' = None
    /\ UNCHANGED <<ledger, lastStop, eod, lastEquity, daily, blockUntil, now, todo,
                   equity, sizeFactor, environment>>

(* TARGET, or FORCED once the session is over.                             *)
TargetOrForcedExit(s) ==
    /\ pc = "exits" /\ s \in todo
    /\ \E q \in ExitQuotes(s) :
          /\ ~StopHit(positions[s], q)
          /\ TargetHit(positions[s], q) \/ SessionState(now) = "EOD"
          /\ Sell(s, q)
    /\ todo' = todo \ {s}
    /\ UNCHANGED <<stops, eod, lastEquity, daily, blockUntil, pc, now, stopped,
                   equity, sizeFactor, environment>>

(* No quote, no usable exit price, or no exit rule applies.                *)
KeepPosition(s) ==
    /\ pc = "exits" /\ s \in todo
    /\ \/ ExitQuotes(s) # LatestQuotes(s)
       \/ \E q \in ExitQuotes(s) :
             /\ ~StopHit(positions[s], q) /\ ~TargetHit(positions[s], q)
             /\ SessionState(now) # "EOD"
    /\ todo' = todo \ {s}
    /\ UNCHANGED <<ledger, stops, eod, lastEquity, daily, blockUntil, pc, now,
                   stopped, equity, sizeFactor, environment>>

-----------------------------------------------------------------------------
(* Equity, the end-of-day mark and the entry gate.                         *)

MarkEquity_NoMarkWhileBlocked ==
    /\ pc = "exits" /\ todo = {}
    /\ \E quotes \in [Held -> Quotes \cup {None}] :
          /\ \A s \in Held : quotes[s] \in LatestQuotes(s)
          /\ equity' = Equity(cash, positions, quotes)
    /\ lastEquity' = equity'
    /\ pc' = IF SessionState(now) = "EOD" /\ lastEod # Today /\ blockUntil <= now
               THEN "eod" ELSE "gate"
    /\ UNCHANGED <<ledger, stops, eod, daily, blockUntil, now, todo, stopped,
                   sizeFactor, environment>>

MarkEquity ==
    /\ pc = "exits" /\ todo = {}
    /\ \E quotes \in [Held -> Quotes \cup {None}] :
          /\ \A s \in Held : quotes[s] \in LatestQuotes(s)
          /\ equity' = Equity(cash, positions, quotes)
    /\ lastEquity' = equity'
    /\ pc' = IF SessionState(now) = "EOD" /\ lastEod # Today THEN "eod" ELSE "gate"
    /\ UNCHANGED <<ledger, stops, eod, daily, blockUntil, now, todo, stopped,
                   sizeFactor, environment>>

RecordEodSnapshot_SkipsEquityKey ==
    /\ pc = "eod"
    /\ marks' = [d \in DOMAIN marks \cup {Today} |->
                    IF d = Today THEN equity ELSE marks[d]]
    /\ lastEod' = Today /\ UNCHANGED lastEodEquity
    /\ pc' = "gate"
    /\ UNCHANGED <<ledger, stops, lastEquity, daily, blockUntil, local, environment>>

RecordEodSnapshot_ReplacesRow ==
    /\ pc = "eod"
    /\ marks' = [d \in DOMAIN marks \cup {Today} |->
                    IF d = Today THEN equity ELSE marks[d]]
    /\ lastEodEquity' = <<equity>> /\ UNCHANGED lastEod
    /\ pc' = "gate"
    /\ UNCHANGED <<ledger, stops, lastEquity, daily, blockUntil, local, environment>>

(* Repository.record_eod_snapshot: INSERT OR IGNORE under a unique date,   *)
(* and the three keys only if a row was inserted; one transaction.         *)
RecordEodSnapshot ==
    /\ pc = "eod"
    /\ IF Today \in DOMAIN marks
         THEN UNCHANGED eod
         ELSE /\ marks' = [d \in DOMAIN marks \cup {Today} |->
                             IF d = Today THEN equity ELSE marks[d]]
              /\ lastEod' = Today /\ lastEodEquity' = <<equity>>
    /\ pc' = "gate"
    /\ UNCHANGED <<ledger, stops, lastEquity, daily, blockUntil, local, environment>>

(* Repository.eod_marks: the dates of the n latest marks.                  *)
LatestMarks(n) ==
    {d \in DOMAIN marks : Cardinality({e \in DOMAIN marks : e > d}) < n}

Drawdown ==
    /\ Cardinality(DOMAIN marks) >= RollingDays
    /\ DrawdownReached(marks, LatestMarks(RollingDays))

(* RiskEngine.emergency_killed.                                            *)
Killed == toggles % 2 = 1

(* RiskEngine.can_buy up to the rolling breaker.                           *)
GateReached ==
    /\ pc = "gate" /\ EntriesAllowed(now)
    /\ ~Killed
    /\ Cardinality(Held) < MaxOpenPositions
    /\ ~DailyLossBlocked(equity, dailyStart)
    /\ blockUntil <= now

(* The feed is healthy and the regime RISK_ON or CAUTIOUS.                 *)
OpenGate ==
    /\ GateReached /\ ~Drawdown
    /\ pc' = "entries" /\ todo' = Watchlist
    /\ \E f \in {Whole \div 2, Whole} : sizeFactor' = f
    /\ UNCHANGED <<ledger, stops, eod, lastEquity, daily, blockUntil, now, stopped,
                   equity, environment>>

EndCycle == pc' = "sleep" /\ equity' = None /\ sizeFactor' = 0 /\ UNCHANGED <<now, stopped>>

TripBreaker ==
    /\ GateReached /\ Drawdown
    /\ blockUntil' = now + RollingBlock
    /\ EndCycle
    /\ UNCHANGED <<ledger, stops, eod, lastEquity, daily, todo, environment>>

(* Entries not allowed, feed unhealthy, or can_buy refuses: the session,   *)
(* the feed and the regime alone can always close the gate.                *)
ShutGate ==
    /\ pc = "gate"
    /\ EndCycle
    /\ UNCHANGED <<ledger, stops, eod, lastEquity, daily, blockUntil, todo, environment>>

-----------------------------------------------------------------------------
(* Entries.                                                                *)

Buy_SpendsReserve(s, qty, q) ==
    LET price == BuyPrice(q)
        total == price * qty + BuyFee
    IN  /\ total <= cash
        /\ cash' = cash - total
        /\ netFilled' = [netFilled EXCEPT ![s] = @ + qty]
        /\ positions' = [x \in Held \cup {s} |->
              IF x = s THEN [qty |-> qty, entry |-> price, stop |-> StopPrice(price),
                             target |-> TargetPrice(price), fee |-> BuyFee]
                       ELSE positions[x]]
        /\ UNCHANGED realised

(* PaperBroker.buy, with INSERT OR REPLACE into positions; it raises, and  *)
(* nothing is committed, when the total would cut into the reserve.        *)
Buy(s, qty, q) ==
    LET price == BuyPrice(q)
        total == price * qty + BuyFee
    IN  /\ total <= cash - MinimumCashReserve
        /\ cash' = cash - total
        /\ netFilled' = [netFilled EXCEPT ![s] = @ + qty]
        /\ positions' = [x \in Held \cup {s} |->
              IF x = s THEN [qty |-> qty, entry |-> price, stop |-> StopPrice(price),
                             target |-> TargetPrice(price), fee |-> BuyFee]
                       ELSE positions[x]]
        /\ UNCHANGED realised

MayBeEligible_IgnoresHeld(s) == cooldown[s] <= now

(* What BaselineBreakoutStrategy is told about s; the rest of its rules    *)
(* read bars that the model leaves open.                                   *)
MayBeEligible(s) == s \notin Held /\ cooldown[s] <= now

EntryPrice(q) == IF q.ask # None THEN q.ask ELSE q.last

(* The sentiment policy keeps the size, or halves it.                      *)
Enter(s) ==
    /\ pc = "entries" /\ s \in todo /\ buys < MaxBuys
    /\ MayBeEligible(s)
    /\ \E q \in LatestQuotes(s) \ {None}, f \in {sizeFactor \div 2, sizeFactor},
          qty \in 1 .. MaxGrossPosition :
          /\ CheckQuote(q) /\ HasBuyPrice(q)
          /\ IsQuantity(qty, EntryPrice(q), equity, cash, f)
          /\ Buy(s, qty, q)
    /\ buys' = buys + 1
    /\ todo' = todo \ {s}
    /\ UNCHANGED <<stops, eod, lastEquity, daily, blockUntil, pc, now, stopped,
                   equity, sizeFactor, clock, toggles, crashes, due>>

(* No quote, no signal, no selected strategy, no quantity, or the broker   *)
(* raised: nothing the model keeps has changed.                            *)
PassOver(s) ==
    /\ pc = "entries" /\ s \in todo
    /\ todo' = todo \ {s}
    /\ UNCHANGED <<ledger, stops, eod, lastEquity, daily, blockUntil, pc, now,
                   stopped, equity, sizeFactor, environment>>

FinishCycle ==
    /\ pc = "entries" /\ todo = {}
    /\ EndCycle
    /\ UNCHANGED <<ledger, stops, eod, lastEquity, daily, blockUntil, todo, environment>>

-----------------------------------------------------------------------------
(* The world around the process.                                           *)

(* scripts/daily_maintenance.py: last_equity becomes daily_start_equity.   *)
Maintenance ==
    /\ due
    /\ due' = FALSE
    /\ dailyStart' = IF lastEquity = None THEN StartingCapital ELSE lastEquity
    /\ rebased' = TRUE
    /\ UNCHANGED <<ledger, stops, eod, lastEquity, sessionDate, blockUntil, pc,
                   local, clock, toggles, buys, crashes>>

(* The timer starts the job at its hour.  With Persistent=true a start that*)
(* was missed because the host was down, and the agent with it, is made up *)
(* for when the host is back; a job that has not run by the next tick of a *)
(* running host has failed.                                                *)
DueAtNextTick ==
    TimeOfDay(clock + 1) = MaintenanceTime \/ (due /\ pc = "down")

ToggleKillFile ==
    /\ toggles < MaxToggles
    /\ toggles' = toggles + 1
    /\ UNCHANGED <<ledger, stops, eod, lastEquity, daily, blockUntil, pc, local,
                   clock, buys, crashes, due>>

(* Time passes also inside a cycle, at most one tick of it.  A good day    *)
(* does not end before a cycle that began after its close is over: eight   *)
(* hours of cycles 30 seconds apart.                                       *)
Tick ==
    /\ clock < Horizon
    /\ pc \in {"down", "sleep"} \/ clock = now
    /\ (Date(clock) \in GoodDays /\ SessionState(clock) = "EOD") =>
          /\ pc = "sleep"
          /\ Today = Date(clock) /\ SessionState(now) = "EOD"
    /\ clock' = clock + 1
    /\ due' = DueAtNextTick
    /\ UNCHANGED <<ledger, stops, eod, lastEquity, daily, blockUntil, pc, local,
                   toggles, buys, crashes>>

-----------------------------------------------------------------------------
Exits == StartCooldown \/ \E s \in Symbols : StopExit(s) \/ TargetOrForcedExit(s) \/ KeepPosition(s)
Gate == MarkEquity \/ RecordEodSnapshot \/ OpenGate \/ TripBreaker \/ ShutGate
Entries == FinishCycle \/ \E s \in Symbols : Enter(s) \/ PassOver(s)

Agent == Startup \/ BeginCycle \/ Exits \/ Gate \/ Entries

Next == Agent \/ Crash \/ Maintenance \/ ToggleKillFile \/ Tick

Spec == Init /\ [][Next]_vars

(* The service restarts the process and the loop never stops cycling; time *)
(* passes, however often the loop begins another cycle.  Nothing is owed by*)
(* the operator, the timer or a crash.                                     *)
FairSpec == Spec /\ WF_vars(Agent) /\ SF_vars(Tick)

-----------------------------------------------------------------------------
(* Safety.                                                                 *)

Cost(p) == p.entry * p.qty + p.fee

(* The three tables agree on money: what was paid in plus what closed      *)
(* trades earned is the cash plus the cost of the open positions, whatever *)
(* the order of sales, purchases and crashes (broker.py, both              *)
(* transactions).                                                          *)
LedgerBalances ==
    cash + MapThenSumSet(LAMBDA s : Cost(positions[s]), Held)
        = StartingCapital + realised

(* The open quantity of every symbol is what its fills add up to: no       *)
(* purchase overwrites a position (INSERT OR REPLACE) and no position is   *)
(* sold twice (broker.py buy and sell, agent.py exits and entries).        *)
FillsMatchPositions ==
    \A s \in Symbols : netFilled[s] = IF s \in Held THEN positions[s].qty ELSE 0

(* As long as selling one share covers its fee, no sequence of purchases   *)
(* and sales takes the cash below the reserve (broker.py buy).             *)
SaleCoversFee == \A q \in Quotes : CheckExitPrice(q) => SellPrice(q) >= SellFee
ReserveKept == SaleCoversFee => cash >= MinimumCashReserve

(* The keys that the next day's baseline is read from describe the newest  *)
(* row of the marks table, across crashes and restarts                     *)
(* (repository.py record_eod_snapshot).                                    *)
EodStateIsNewestMark ==
    /\ \A d \in DOMAIN marks : d <= lastEod
    /\ IF DOMAIN marks = {} THEN lastEodEquity = <<>>
       ELSE lastEod \in DOMAIN marks /\ lastEodEquity = <<marks[lastEod]>>

(* A day's mark, once recorded, is never rewritten or removed, by a later  *)
(* cycle of the same evening or after a restart.                           *)
MarksAreFinal ==
    [][\A d \in DOMAIN marks : d \in DOMAIN marks' /\ marks'[d] = marks[d]]_marks

(* The equity the day opened with: the newest mark of an earlier day.      *)
OpeningEquity ==
    LET before == {d \in DOMAIN marks : d < Today}
    IN  IF before = {} THEN StartingCapital
        ELSE marks[CHOOSE d \in before : \A e \in before : e <= d]

(* As long as the maintenance job has not run since the day's first cycle, *)
(* entries are only made in a cycle whose equity is above the daily loss   *)
(* limit counted from the day's opening equity: no restart, missed close,  *)
(* holiday or job of an earlier evening moves the baseline under the       *)
(* breaker (engine.py daily_loss_blocked, session.py ensure_daily_state).  *)
AboveDailyLimit == pc = "entries" => ~DailyLossBlocked(equity, OpeningEquity)
DailyLossHaltsEntries == ~rebased => AboveDailyLimit

(* A symbol sold at its stop is not bought again before its cooldown is    *)
(* over, unless the process stopped in between (agent.py 149-153,          *)
(* baseline.py evaluate).                                                  *)
Bought(s) == s \notin Held /\ s \in DOMAIN positions'
CoolsDown(s) == lastStop[s] # 0 => lastStop[s] + StopCooldown <= now
StopCoolsDown ==
    [][\A s \in Symbols : (Bought(s) /\ crashes = 0) => CoolsDown(s)]_vars

(* Positions are opened only between the open and the earlier of the       *)
(* entry cutoff and the close of that date's session, special or not.      *)
InEntryWindow(t) ==
    /\ Date(t) \in TradingDays
    /\ TimeOfDay(t) >= SessionWindow(Date(t)).open
    /\ TimeOfDay(t) < SessionWindow(Date(t)).close
    /\ TimeOfDay(t) < EntryCutoff
EntriesInWindow == [][\A s \in Symbols : Bought(s) => InEntryWindow(now)]_vars

-----------------------------------------------------------------------------
(* What the documentation says of the program.                             *)

(* README.md:33, "At most five positions."                                 *)
PositionCap == Cardinality(Held) <= MaxOpenPositions

(* README.md:39, "Daily 2% loss circuit breaker.", whenever the            *)
(* maintenance job runs.                                                   *)
DailyLossBreaker == AboveDailyLimit

-----------------------------------------------------------------------------
(* Liveness.                                                               *)

(* Every position on the watchlist is eventually closed, at the latest by  *)
(* the forced exit after the close of a good day, kill file or not         *)
(* (agent.py 140-160).                                                     *)
PositionsAreClosed == \A s \in Watchlist : s \in Held ~> s \notin Held

(* A drawdown does not last for ever: with the account flat and marked, and*)
(* good days left for RollingDays - 1 marks more, those marks are taken    *)
(* although entries are blocked, and there is no drawdown in them          *)
(* (engine.py rolling_drawdown_blocked, agent.py 162-175).                 *)
FlatAndMarked == Held = {} /\ lastEodEquity = <<cash>>
GoodDaysLeft ==
    Cardinality({d \in GoodDays \cap TradingDays :
                    Date(clock) < d /\ (d + 1) * DayLength - 1 <= Horizon})
BreakerReleases ==
    (Drawdown /\ FlatAndMarked /\ GoodDaysLeft >= RollingDays - 1) ~> ~Drawdown
=============================================================================
