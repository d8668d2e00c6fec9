---------------------------- MODULE MarketRegime ----------------------------
(***************************************************************************)
(* regime/intelligence.py and regime/engine.py: bars become daily bars,    *)
(* daily bars become measures of the market, and these a regime.  The      *)
(* daily bars are cached by id(), the address of the list of bars.  The    *)
(* agent asks with lists its provider has just made, a replay with lists   *)
(* that grow; an address that is free again can be that of any list.       *)
(*                                                                         *)
(* Volumes are left out, prices are integers and averages are kept as      *)
(* sums.  The volatility of a window is an operator.                       *)
(***************************************************************************)
EXTENDS RegimeRules, Sequences, FiniteSets, SequencesExt

CONSTANTS
    Symbols, Benchmark,
    Market,          \* of each symbol: its bars [day, end, open, high, low, close]
    Addresses,
    MinBars,         \* benchmark_min_bars
    Fast, Slow,      \* windows of the moving averages (20 and 50)
    VolWindow, VolHistory,
    BreadthWindow, BreadthMinSymbols,
    Volatility(_),   \* of a window of closes
    Missing

MarketBar == [day : Nat, end : Nat, open : Int, high : Int, low : Int, close : Int]

(* Bars are sorted by their ends, and the day of a bar is that of its end. *)
ASSUME MarketAssumption ==
    /\ Benchmark \in Symbols
    /\ \A s \in Symbols :
          /\ Market[s] \in Seq(MarketBar)
          /\ \A k \in 2 .. Len(Market[s]) :
                /\ Market[s][k - 1].end <= Market[s][k].end
                /\ Market[s][k - 1].day <= Market[s][k].day
    /\ {MinBars, Fast, Slow, VolWindow, VolHistory, BreadthWindow,
        BreadthMinSymbols} \subseteq Nat \ {0}

VARIABLES
    now,             \* bars up to here are complete
    dailyCache,      \* of each address [length, lastEnd, daily], or Missing
    users,           \* the symbols whose lists were at an address in a calculation
    regime           \* the last one classified

marketVars == <<now, dailyCache, users, regime>>

-----------------------------------------------------------------------------
(* Daily bars.                                                             *)

(* The days of the first k bars, in the order in which they come: the keys *)
(* of groups.                                                              *)
DaysUpTo(bars) ==
    LET days[k \in 0 .. Len(bars)] ==
            IF k = 0 THEN <<>>
            ELSE IF bars[k].day \in Range(days[k - 1]) THEN days[k - 1]
            ELSE Append(days[k - 1], bars[k].day)
    IN  days

(* The bars of day d as one.                                               *)
OfDay(bars, d) == {k \in DOMAIN bars : bars[k].day = d}
Whole(bars, d) ==
    LET group == OfDay(bars, d)
    IN  [day |-> d, end |-> bars[Max(group)].end, open |-> bars[Min(group)].open,
         high |-> Max({bars[k].high : k \in group}),
         low |-> Min({bars[k].low : k \in group}), close |-> bars[Max(group)].close]

(* MarketIntelligence.daily_bars, of bars sorted by their ends.            *)
DailyBars(bars) ==
    LET days == DaysUpTo(bars)[Len(bars)]
    IN  [k \in DOMAIN days |-> Whole(bars, days[k])]

(* One more bar of the last day, or the first of the next.                 *)
Joined_KeepsHigh(d, b) ==
    [d EXCEPT !.end = b.end, !.close = b.close, !.low = Min({@, b.low})]

Joined(d, b) ==
    [d EXCEPT !.end = b.end, !.close = b.close, !.low = Min({@, b.low}),
              !.high = Max({@, b.high})]

AddBar(days, b) ==
    IF days = <<>> \/ Last(days).day # b.day THEN Append(days, b)
    ELSE Append(Front(days), Joined(Last(days), b))

(* A bar that is not later than what is already in the daily bars.         *)
Overlaps(entry, bars) ==
    \E k \in entry.length + 1 .. Len(bars) :
        bars[k].end <= IF k = entry.length + 1 THEN Last(entry.daily).end
                       ELSE bars[k - 1].end

(* The daily bars of the entry with those that the list has besides.       *)
Extended(entry, bars) ==
    LET daily[k \in 0 .. Len(bars)] ==
            IF k <= entry.length THEN entry.daily ELSE AddBar(daily[k - 1], bars[k])
    IN  daily[Len(bars)]

(* The list does not begin with the bars that the entry was made of, as    *)
(* far as their number and the last end tell.                              *)
Differs(entry, bars) ==
    Len(bars) < entry.length \/ bars[entry.length].end # entry.lastEnd

(* _cached_daily_bars                                                      *)
CachedDaily(entry, bars) ==
    IF bars = <<>> THEN <<>>
    ELSE IF entry = Missing THEN DailyBars(bars)
    ELSE IF Differs(entry, bars) \/ Overlaps(entry, bars) THEN DailyBars(bars)
    ELSE Extended(entry, bars)

EntryAfter(entry, bars) ==
    IF bars = <<>> THEN entry
    ELSE [length |-> Len(bars), lastEnd |-> Last(bars).end, daily |-> CachedDaily(entry, bars)]

-----------------------------------------------------------------------------
(* Measures.                                                               *)

Closes(days) == [k \in DOMAIN days |-> days[k].close]
SumOf(values) == FoldSeq(LAMBDA x, y : x + y, 0, values)
LastN(values, n) == SubSeq(values, Len(values) - n + 1, Len(values))

IsValid(close) == close > 0

(* The realized volatilities: of every window of VolWindow returns.        *)
Realized(closes) ==
    [k \in 1 .. Len(closes) - VolWindow |-> Volatility(SubSeq(closes, k, k + VolWindow))]

(* The place of the last volatility among the recent ones, in halves.      *)
VolRank(realized) ==
    LET recent == LastN(realized, VolHistory)
    IN  2 * Cardinality({k \in DOMAIN recent : recent[k] < Last(recent)})
        + Cardinality({k \in DOMAIN recent : recent[k] = Last(recent)})

IsShock(realized) ==
    LET previous == realized[Len(realized) - 1]
    IN  previous > 0 /\ 2 * Last(realized) >= 3 * previous

(* _benchmark_from_daily finds every measure it needs.                     *)
BenchmarkMeasured(days) ==
    LET n == Len(days)
    IN  /\ n >= MinBars /\ n >= Fast /\ n >= Slow
        /\ \A k \in 1 .. n : IsValid(days[k].close)
        /\ n - VolWindow >= VolHistory /\ n - VolWindow >= 2

(* _breadth_from_daily                                                     *)
Eligible(dailyOf) ==
    {s \in Symbols \ {Benchmark} :
        LET closes == Closes(dailyOf[s])
        IN  /\ closes # <<>> /\ IsValid(Last(closes))
            /\ Len(SelectSeq(closes, IsValid)) >= BreadthWindow}

Above(dailyOf) ==
    {s \in Eligible(dailyOf) :
        LET valid == SelectSeq(Closes(dailyOf[s]), IsValid)
        IN  Last(valid) * BreadthWindow > SumOf(LastN(valid, BreadthWindow))}

Measured(dailyOf) ==
    /\ BenchmarkMeasured(dailyOf[Benchmark])
    /\ Cardinality(Eligible(dailyOf)) >= BreadthMinSymbols

(* Prices times Fast and Slow, the breadth as above of eligible, and the   *)
(* percentile as rank of 2 * VolHistory.                                   *)
Measures(dailyOf) ==
    LET closes == Closes(dailyOf[Benchmark])
        realized == Realized(closes)
    IN  [close |-> Last(closes) * Fast * Slow,
         fast |-> SumOf(LastN(closes, Fast)) * Slow,
         slow |-> SumOf(LastN(closes, Slow)) * Fast,
         above |-> Cardinality(Above(dailyOf)), eligible |-> Cardinality(Eligible(dailyOf)),
         rank |-> VolRank(realized), of |-> 2 * VolHistory, shock |-> IsShock(realized)]

-----------------------------------------------------------------------------
(* RegimeEngine.classify, of measures that are there or not.               *)

Regime(dailyOf, healthy) ==
    IF healthy /\ Measured(dailyOf) THEN Classify(Measures(dailyOf)) ELSE "DATA_DEGRADED"

-----------------------------------------------------------------------------
Ends == UNION {{Market[s][k].end : k \in DOMAIN Market[s]} : s \in Symbols}

(* The provider's completed_bars, or the history of a replay.              *)
CompleteUpTo(s, t) == Max({0} \cup {k \in DOMAIN Market[s] : Market[s][k].end <= t})
Complete(s, t) == SubSeq(Market[s], 1, CompleteUpTo(s, t))

(* Where the lists of one calculation are: all of them exist at once.      *)
Placements == {place \in [Symbols -> Addresses] :
                  \A s, y \in Symbols : place[s] = place[y] => s = y}

MarketInit ==
    /\ now = 0
    /\ dailyCache = [a \in Addresses |-> Missing]
    /\ users = [a \in Addresses |-> {}]
    /\ regime = Missing

Wait ==
    /\ \E t \in Ends : t > now /\ now' = t
    /\ UNCHANGED <<dailyCache, users, regime>>

(* The daily bars that a calculation uses.                                 *)
DailyOf(place) == [s \in Symbols |-> CachedDaily(dailyCache[place[s]], Complete(s, now))]

(* MarketIntelligence.calculate and RegimeEngine.classify, as the agent's  *)
(* _market_intelligence and the replays call them.                         *)
Calculate(place, healthy) ==
    /\ dailyCache' = [a \in Addresses |->
                   IF \E s \in Symbols : place[s] = a
                     THEN EntryAfter(dailyCache[a],
                                     Complete(CHOOSE s \in Symbols : place[s] = a, now))
                     ELSE dailyCache[a]]
    /\ users' = [a \in Addresses |-> users[a] \cup {s \in Symbols : place[s] = a}]
    /\ regime' = Regime(DailyOf(place), healthy)
    /\ UNCHANGED now

MarketNext ==
    \/ Wait
    \/ \E place \in Placements, healthy \in BOOLEAN : Calculate(place, healthy)

MarketSpec == MarketInit /\ [][MarketNext]_marketVars

-----------------------------------------------------------------------------
(* Whatever was cached before, at whichever address a list is and however  *)
(* much longer it has become, a calculation uses the daily bars of its own *)
(* list: a symbol that meets only its own lists at an address gets what    *)
(* daily_bars would compute from scratch (intelligence.py 65-109).         *)
DailyBarsAreOfTheList ==
    \A place \in Placements, s \in Symbols :
        users[place[s]] \subseteq {s} => DailyOf(place)[s] = DailyBars(Complete(s, now))
=============================================================================
