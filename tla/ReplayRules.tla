---------------------------- MODULE ReplayRules ----------------------------
(***************************************************************************)
(* What scripts/run_replay.py and research/replay_validation.py have in    *)
(* common: the bars of a file, and when the rules of session, risk and     *)
(* baseline strategy sell or buy at a bar.                                 *)
(*                                                                         *)
(* Money and quantities are left out: losses stay below the daily limit    *)
(* and cash suffices, so of can_buy the position cap is left.  The strategy*)
(* is asked with a healthy feed, liquid symbols and a sentiment of 0.5, and*)
(* its own cutoff is no earlier than that of the session in a file that    *)
(* writes its times in IST or to the west of it.                           *)
(***************************************************************************)
EXTENDS Session, FiniteSets, SequencesExt

CONSTANTS
    Symbols,
    Benchmark,       \* the index symbol: one that is not traded, or none of them
    RegimeOf(_),     \* MarketIntelligence and RegimeEngine, of the histories
    Bars,            \* sequence of [symbol, start, end, close], sorted by end
    SmaPeriod, RsiPeriod,           \* of the baseline strategy
    MinHistory,      \* bars needed before an entry
    StopDistance, TargetDistance,   \* from the entry price
    StopCooldown, MaxOpenPositions

BarIds == 1 .. Len(Bars)

ASSUME BarsAssumption ==
    /\ Bars \in Seq([symbol : Symbols, start : Nat, end : Nat, close : Nat])
    /\ \A b \in BarIds : Bars[b].start < Bars[b].end
    /\ \A b \in BarIds : \A c \in 1 .. b : Bars[c].end <= Bars[b].end

ASSUME RulesAssumption ==
    /\ {StopDistance, TargetDistance, SmaPeriod, RsiPeriod} \subseteq Nat \ {0}
    /\ {MinHistory, StopCooldown, MaxOpenPositions} \subseteq Nat

(* Those of some bars that are of a symbol, in the order of the file.      *)
BarsUpTo(s, ids) ==
    LET upTo[b \in 0 .. Len(Bars)] ==
            IF b = 0 THEN <<>>
            ELSE IF b \in ids /\ Bars[b].symbol = s THEN Append(upTo[b - 1], b)
            ELSE upTo[b - 1]
    IN  upTo
BarsOf(s, ids) == BarsUpTo(s, ids)[Len(Bars)]

(* SessionGuard.regular_bar_start                                          *)
IsRegular(bar) ==
    /\ Date(bar.start) \in TradingDays
    /\ SessionWindow(Date(bar.start)).open <= TimeOfDay(bar.start)
    /\ TimeOfDay(bar.start) < SessionWindow(Date(bar.start)).close

RegularBars == {b \in BarIds : IsRegular(Bars[b])}

(* The exit of a position entered at bar e; the spread of 0.2% that the    *)
(* replay puts around a close is less than either distance.                *)
ExitReason(bar, e) ==
    CASE e = 0 \/ ~ExitsAllowed(bar.end) -> "NONE"
      [] e # 0 /\ ExitsAllowed(bar.end) ->
            IF bar.close <= Bars[e].close - StopDistance THEN "STOP"
            ELSE IF bar.close >= Bars[e].close + TargetDistance THEN "TARGET"
            ELSE IF SessionState(bar.end) = "EOD" THEN "FORCED"
            ELSE "NONE"

Sum(prices) == FoldSeq(LAMBDA x, y : x + y, 0, prices)
LastOf(prices) == SubSeq(prices, Len(prices) - SmaPeriod + 1, Len(prices))
AboveSma(prices) == Last(prices) * SmaPeriod > Sum(LastOf(prices))

(* The close crosses its moving average upwards.                           *)
CrossesSma(closes) ==
    Len(closes) > SmaPeriod /\ AboveSma(closes) /\ ~AboveSma(Front(closes))

(* The change of the close over each of the last bars.                     *)
Changes(closes) ==
    LET n == Len(closes) - RsiPeriod
    IN  [k \in 1 .. RsiPeriod |-> closes[n + k] - closes[n + k - 1]]
Gains(closes) == Sum(SelectSeq(Changes(closes), LAMBDA c : c > 0))
Losses(closes) == -Sum(SelectSeq(Changes(closes), LAMBDA c : c < 0))

(* 50 < RSI < 70, where RSI = 100 - 100 / (1 + Gains / Losses), and 100    *)
(* without losses.                                                         *)
RsiInRange(closes) ==
    /\ Len(closes) > RsiPeriod
    /\ Losses(closes) < Gains(closes) /\ 3 * Gains(closes) < 7 * Losses(closes)

NoEntryRegimes == {"RISK_OFF", "DATA_DEGRADED", "RANGE_BOUND"}

(* BaselineBreakoutStrategy.evaluate: held are the bars that positions were*)
(* bought at, until the ends of cooldowns, of all symbols.                 *)
BaseSignals(bar, h, regime, held, until) ==
    LET closes == [k \in DOMAIN h |-> Bars[h[k]].close]
    IN  /\ held[bar.symbol] = 0 /\ until[bar.symbol] <= bar.end
        /\ regime \notin NoEntryRegimes
        /\ CrossesSma(closes) /\ RsiInRange(closes)

(* When the strategy is asked.                                             *)
IsEvaluated(bar, h) ==
    bar.symbol # Benchmark /\ EntriesAllowed(bar.end) /\ Len(h) >= MinHistory

(* can_buy: there is a position to spare.                                  *)
HasRoom(held) == Cardinality({s \in Symbols : held[s] # 0}) < MaxOpenPositions
=============================================================================
