-------------------------- MODULE ValidationReplay --------------------------
(***************************************************************************)
(* research/replay_validation.py and challenger.py, called by              *)
(* scripts/run_validation_replay.py and run_challenger_sweep.py: the days  *)
(* of a file are split into development and holdout, and each part is      *)
(* replayed with a challenger of the baseline on a database of its own in  *)
(* the work directory.  The memory of a run ends with it; the databases    *)
(* stay, and are used again by the next run in the same directory.         *)
(*                                                                         *)
(* Of the result the counts of trades by reason are kept.  A refused plan  *)
(* changes nothing, so refusals are not actions.                           *)
(***************************************************************************)
EXTENDS ReplayRules

CONSTANTS
    Plans,           \* the plans run: [version, base, scope, target, risk]
    None,            \* no target; no plan
    Baseline,        \* BASE_VERSION
    CanonicalRisk,   \* hash of the risk configuration of _config()
    MinTradingDays,  \* of the plans
    MiddayStart, AfternoonStart,    \* 11:30 and 13:30, ticks of the day
    MaxRuns, MaxCrashes             \* bounds

Splits == {"development", "holdout"}
SupportedScopes == {"regime_eligibility", "time_of_day_eligibility", "symbol_eligibility"}

ASSUME ValidationAssumption ==
    /\ {MinTradingDays, MaxRuns, MaxCrashes, MiddayStart, AfternoonStart} \subseteq Nat
    /\ MiddayStart <= AfternoonStart

(* proposed_version is a text: never the NULL of a position without one.   *)
ASSUME PlansAssumption == \A p \in Plans : p.version # None

VARIABLES
    work,            \* the database of each split, which outlives the run
    pc,              \* where the run stands
    run,             \* the memory of the run
    result,          \* the output file: what the last run to end found, or None
    runs, crashes    \* counted to bound them

vars == <<work, pc, run, result, runs, crashes>>

Bar == Bars[run.next]
Trade == [version : {p.version : p \in Plans}, symbol : Symbols, entry : BarIds,
          exit : BarIds, reason : {"STOP", "TARGET", "FORCED"}]

-----------------------------------------------------------------------------
(* The split of the days.                                                  *)

Dates == {Date(Bars[b].end) : b \in BarIds}

(* 70% of the days, at least one and not all of them.                      *)
Cut == Max({1, Min({Cardinality(Dates) - 1, (Cardinality(Dates) * 7) \div 10})})
DevDates == {d \in Dates : Cardinality({c \in Dates : c <= d}) <= Cut}
DatesOf(s) == IF s = "development" THEN DevDates ELSE Dates \ DevDates

(* The guards of execute_validation and of BoundedChallenger.              *)
Accepted(p) ==
    /\ p.scope \in SupportedScopes /\ p.target # None
    /\ p.base = Baseline /\ p.risk = CanonicalRisk
    /\ Cardinality(Dates) >= 2
    /\ Cardinality(DevDates) >= MinTradingDays
    /\ Cardinality(Dates \ DevDates) >= Max({1, MinTradingDays \div 2})

-----------------------------------------------------------------------------
(* The challenger.                                                         *)

TimeBuckets == {"MORNING", "MIDDAY", "AFTERNOON"}

(* The bucket of an entry as the evidence sees it (evidence._time_bucket). *)
TimeBucket(t) ==
    CASE TimeOfDay(t) < MiddayStart -> "MORNING"
      [] TimeOfDay(t) >= MiddayStart /\ TimeOfDay(t) < AfternoonStart -> "MIDDAY"
      [] OTHER -> "AFTERNOON"

InBucket_ClosedAtTheEnd(target, t) ==
    \/ target = "MORNING" /\ t < MiddayStart
    \/ target = "MIDDAY" /\ MiddayStart < t /\ t <= AfternoonStart
    \/ target = "AFTERNOON" /\ AfternoonStart < t

InBucket(target, t) ==
    \/ target = "MORNING" /\ t < MiddayStart
    \/ target = "MIDDAY" /\ MiddayStart <= t /\ t < AfternoonStart
    \/ target = "AFTERNOON" /\ AfternoonStart <= t

(* BoundedChallenger._allowed                                              *)
Allowed(p, bar, regime) ==
    CASE p.scope = "regime_eligibility" -> regime # p.target
      [] p.scope = "symbol_eligibility" -> bar.symbol # p.target
      [] OTHER -> ~InBucket(p.target, TimeOfDay(bar.end))

IsUnsupported(p) == p.scope = "time_of_day_eligibility" /\ p.target \notin TimeBuckets

-----------------------------------------------------------------------------
(* A run.                                                                  *)

(* The bars of a symbol before the first day of the split.                 *)
WarmUp_FirstDayToo(s, symbol) ==
    BarsOf(symbol, {b \in RegularBars : Date(Bars[b].end) <= Min(DatesOf(s))})

WarmUp(s, symbol) ==
    BarsOf(symbol, {b \in RegularBars : Date(Bars[b].end) < Min(DatesOf(s))})

Warm(s) == [symbol \in Symbols |-> WarmUp(s, symbol)]

(* The bars of a split, which load_bars_csv and the sort put in the order  *)
(* of their ends and, at one instant, of their symbols.                    *)
FirstBar(s) == Min({b \in BarIds : Date(Bars[b].end) \in DatesOf(s)})
InSplit == run.next \in BarIds /\ Date(Bar.end) \in DatesOf(run.split)

EmptyDatabase ==
    [entered |-> [s \in Symbols |-> 0],          \* positions: bought at which bar
     holder |-> [s \in Symbols |-> None],        \* ... and by which version
     cooldown |-> [s \in Symbols |-> 0],
     trades |-> <<>>,                            \* closed_trades
     regimes |-> <<>>,                           \* market_regimes
     marked |-> {}]                              \* dates of end-of-day marks

NoRun == [plan |-> None, split |-> "development", next |-> 0,
          history |-> [s \in Symbols |-> <<>>],
          summary |-> [s \in Splits |-> None]]

Init ==
    /\ work = [s \in Splits |-> EmptyDatabase]
    /\ pc = "idle" /\ run = NoRun
    /\ result = None /\ runs = 0 /\ crashes = 0

Db == work[run.split]
Write(database) == work' = [work EXCEPT ![run.split] = database]
Goto(label) == pc' = label

(* execute_validation.  initialize keeps what the databases hold.          *)
Start ==
    /\ pc = "idle" /\ runs < MaxRuns
    /\ \E p \in Plans :
          /\ Accepted(p)
          /\ run' = [NoRun EXCEPT !.plan = p, !.next = FirstBar("development"),
                                  !.history = Warm("development")]
    /\ Goto("bar") /\ runs' = runs + 1
    /\ UNCHANGED <<work, result, crashes>>

SkipBar ==
    /\ pc = "bar" /\ InSplit /\ ~IsRegular(Bar)
    /\ run' = [run EXCEPT !.next = @ + 1]
    /\ UNCHANGED <<work, pc, result, runs, crashes>>

ReadBar ==
    /\ pc = "bar" /\ InSplit /\ IsRegular(Bar)
    /\ run' = [run EXCEPT !.history[Bar.symbol] = Append(@, run.next)]
    /\ Goto("exit")
    /\ UNCHANGED <<work, result, runs, crashes>>

Closed_KeepsHolder(database, b, reason) ==
    LET s == Bars[b].symbol
    IN  [database EXCEPT
            !.entered[s] = 0,
            !.trades = Append(@, [version |-> database.holder[s], symbol |-> s,
                                  entry |-> database.entered[s], exit |-> b,
                                  reason |-> reason])]

Closed(database, b, reason) ==
    LET s == Bars[b].symbol
    IN  [database EXCEPT
            !.entered[s] = 0, !.holder[s] = None,
            !.trades = Append(@, [version |-> database.holder[s], symbol |-> s,
                                  entry |-> database.entered[s], exit |-> b,
                                  reason |-> reason])]

(* PaperBroker.sell, one transaction, if an exit rule applies.             *)
Exit ==
    /\ pc = "exit"
    /\ LET reason == ExitReason(Bar, Db.entered[Bar.symbol])
       IN  /\ IF reason = "NONE" THEN UNCHANGED work ELSE Write(Closed(Db, run.next, reason))
           /\ Goto(IF reason = "STOP" THEN "cooldown" ELSE "regime")
    /\ UNCHANGED <<run, result, runs, crashes>>

StartCooldown_FromStart ==
    /\ pc = "cooldown"
    /\ Write([Db EXCEPT !.cooldown[Bar.symbol] = Bar.start + StopCooldown])
    /\ Goto("regime")
    /\ UNCHANGED <<run, result, runs, crashes>>

StartCooldown ==
    /\ pc = "cooldown"
    /\ Write([Db EXCEPT !.cooldown[Bar.symbol] = Bar.end + StopCooldown])
    /\ Goto("regime")
    /\ UNCHANGED <<run, result, runs, crashes>>

(* record_regime, when the strategy is going to be asked.                  *)
RecordRegime ==
    /\ pc = "regime"
    /\ IF IsEvaluated(Bar, run.history[Bar.symbol])
         THEN /\ Write([Db EXCEPT !.regimes =
                          Append(@, [bar |-> run.next, regime |-> RegimeOf(run.history)])])
              /\ Goto("entry")
         ELSE Goto("save") /\ UNCHANGED work
    /\ UNCHANGED <<run, result, runs, crashes>>

Signals ==
    BaseSignals(Bar, run.history[Bar.symbol], RegimeOf(run.history), Db.entered, Db.cooldown)

Bought(database, b, version) ==
    [database EXCEPT !.entered[Bars[b].symbol] = b, !.holder[Bars[b].symbol] = version]

(* The challenger's evaluate, can_buy and PaperBroker.buy.                 *)
Entry ==
    /\ pc = "entry" /\ ~(Signals /\ IsUnsupported(run.plan))
    /\ IF Signals /\ Allowed(run.plan, Bar, RegimeOf(run.history)) /\ HasRoom(Db.entered)
         THEN Write(Bought(Db, run.next, run.plan.version))
         ELSE UNCHANGED work
    /\ Goto("save")
    /\ UNCHANGED <<run, result, runs, crashes>>

(* "unsupported time bucket target", found at the first signal.            *)
EntryRaises ==
    /\ pc = "entry" /\ Signals /\ IsUnsupported(run.plan)
    /\ Goto("idle") /\ run' = NoRun
    /\ UNCHANGED <<work, result, runs, crashes>>

(* The account snapshot; with the last bar of a day also its mark, once.   *)
Save ==
    /\ pc = "save"
    /\ IF SessionState(Bar.end) = "EOD"
         THEN Goto("eod") /\ UNCHANGED run
         ELSE Goto("bar") /\ run' = [run EXCEPT !.next = @ + 1]
    /\ UNCHANGED <<work, result, runs, crashes>>

RecordEod ==
    /\ pc = "eod"
    /\ Write([Db EXCEPT !.marked = @ \cup {Date(Bar.end)}])
    /\ Goto("bar") /\ run' = [run EXCEPT !.next = @ + 1]
    /\ UNCHANGED <<result, runs, crashes>>

Count(database, reason) ==
    Cardinality({k \in DOMAIN database.trades : database.trades[k].reason = reason})

(* ReplayValidationResult: it reads all the trades of the database.        *)
Summary(database) ==
    [stops |-> Count(database, "STOP"), targets |-> Count(database, "TARGET"),
     forced |-> Count(database, "FORCED"), days |-> Cardinality(database.marked)]

Report(p, development, holdout) ==
    [plan |-> p, development |-> development, holdout |-> holdout]

EndDevelopment ==
    /\ pc = "bar" /\ run.split = "development" /\ ~InSplit
    /\ run' = [run EXCEPT !.split = "holdout", !.next = FirstBar("holdout"),
                          !.history = Warm("holdout"),
                          !.summary["development"] = Summary(Db)]
    /\ UNCHANGED <<work, pc, result, runs, crashes>>

(* The result is written when both splits are done.                        *)
EndHoldout ==
    /\ pc = "bar" /\ run.split = "holdout" /\ ~InSplit
    /\ result' = Report(run.plan, run.summary["development"], Summary(Db))
    /\ Goto("idle") /\ run' = NoRun
    /\ UNCHANGED <<work, runs, crashes>>

Crash ==
    /\ pc # "idle" /\ crashes < MaxCrashes
    /\ Goto("idle") /\ run' = NoRun /\ crashes' = crashes + 1
    /\ UNCHANGED <<work, result, runs>>

Next ==
    \/ Start \/ SkipBar \/ ReadBar \/ Exit \/ StartCooldown \/ RecordRegime
    \/ Entry \/ EntryRaises \/ Save \/ RecordEod
    \/ EndDevelopment \/ EndHoldout \/ Crash

Spec == Init /\ [][Next]_vars
-----------------------------------------------------------------------------
TypeOK ==
    /\ \A s \in Splits :
          /\ work[s].entered \in [Symbols -> 0 .. Len(Bars)]
          /\ work[s].cooldown \in [Symbols -> Nat]
          /\ work[s].trades \in Seq(Trade)
          /\ work[s].marked \subseteq DatesOf(s)
          /\ \A y \in Symbols : work[s].entered[y] = 0 <=> work[s].holder[y] = None
    /\ run.history \in [Symbols -> Seq(BarIds)]
    /\ runs \in 0 .. MaxRuns /\ crashes \in 0 .. MaxCrashes

(* No look ahead and no gap: when the strategy is asked, the history of    *)
(* every symbol is the regular bars of the file up to this one, in both    *)
(* splits and whatever earlier runs left (replay_validation.py 211-234).   *)
HistoryIsThePast ==
    pc = "entry" =>
        \A s \in Symbols :
            run.history[s] = BarsOf(s, {b \in RegularBars : b <= run.next})

-----------------------------------------------------------------------------
(* The regime that Repository.strategy_outcomes gives an entry: the latest *)
(* row that is not later.                                                  *)
JoinedRegime(database, b) ==
    LET rows == database.regimes
        upTo(t) == {k \in DOMAIN rows : Bars[rows[k].bar].end <= t}
        latest == Max({Bars[rows[k].bar].end : k \in upTo(Bars[b].end)})
    IN  rows[Max({k \in upTo(latest) : Bars[rows[k].bar].end = latest})].regime

(* Two symbols evaluated at one instant, one before and one after the bar  *)
(* of the index, can see two regimes.                                      *)
TwoRegimesAt(database, t) ==
    \E j, k \in DOMAIN database.regimes :
        /\ Bars[database.regimes[j].bar].end = t /\ Bars[database.regimes[k].bar].end = t
        /\ database.regimes[j].regime # database.regimes[k].regime

(* The entries of a challenger, seen as the evidence engine sees them,     *)
(* are never in what its plan excludes (challenger.py 49-66, evidence.py   *)
(* _time_bucket, repository.py strategy_outcomes), except for the regime   *)
(* at an instant with two.                                                 *)
TargetIsAvoided ==
    \A s \in Splits, p \in Plans :
        LET db == work[s]
            entries == {db.trades[k].entry : k \in {j \in DOMAIN db.trades :
                                                       db.trades[j].version = p.version}}
                       \cup {db.entered[y] : y \in {x \in Symbols : db.holder[x] = p.version}}
        IN  \A b \in entries :
                CASE p.scope = "symbol_eligibility" -> Bars[b].symbol # p.target
                  [] p.scope = "time_of_day_eligibility" -> TimeBucket(Bars[b].end) # p.target
                  [] p.scope = "regime_eligibility" ->
                        JoinedRegime(db, b) # p.target \/ TwoRegimesAt(db, Bars[b].end)
                  [] OTHER -> FALSE

-----------------------------------------------------------------------------
(* A validation in one piece, as a function of the file and the plan.      *)

PastOf(b) == [s \in Symbols |-> BarsOf(s, {c \in RegularBars : c <= b})]

AfterExit(database, b) ==
    LET reason == ExitReason(Bars[b], database.entered[Bars[b].symbol])
    IN  IF reason = "NONE" THEN database
        ELSE [Closed(database, b, reason) EXCEPT
                !.cooldown[Bars[b].symbol] =
                    IF reason = "STOP" THEN Bars[b].end + StopCooldown ELSE @]

AfterEntry(p, database, b) ==
    LET past == PastOf(b)
        own == past[Bars[b].symbol]
    IN  IF /\ IsEvaluated(Bars[b], own)
           /\ BaseSignals(Bars[b], own, RegimeOf(past), database.entered, database.cooldown)
           /\ Allowed(p, Bars[b], RegimeOf(past)) /\ HasRoom(database.entered)
          THEN Bought(database, b, p.version) ELSE database

Processed(p, database, b) ==
    IF database.entered[Bars[b].symbol] = 0 THEN AfterEntry(p, database, b)
    ELSE AfterEntry(p, AfterExit(database, b), b)

(* The bars of a split that are replayed.                                  *)
Replayed(s) == {b \in RegularBars : Date(Bars[b].end) \in DatesOf(s)}

After(p, s) ==
    LET after[b \in 0 .. Len(Bars)] ==
            IF b = 0 THEN EmptyDatabase
            ELSE IF b \in Replayed(s) THEN Processed(p, after[b - 1], b)
            ELSE after[b - 1]
    IN  after

Marks(s, n) == {Date(Bars[b].end) : b \in {c \in Replayed(s) :
                                             c <= n /\ SessionState(Bars[c].end) = "EOD"}}

Reference(p, s) ==
    Summary([After(p, s)[Len(Bars)] EXCEPT !.marked = Marks(s, Len(Bars))])

(* The first run in a work directory, if it is not interrupted, finds what *)
(* the function above says.                                                *)
ValidationIsFunction ==
    (runs = 1 /\ result # None) =>
        result = Report(result.plan, Reference(result.plan, "development"),
                        Reference(result.plan, "holdout"))
=============================================================================
