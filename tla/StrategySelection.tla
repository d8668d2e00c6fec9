-------------------------- MODULE StrategySelection --------------------------
(***************************************************************************)
(* Which strategy may trade: the StrategyPool of the agent                 *)
(* (strategy/portfolio.py) with the evidence drawn from closed trades      *)
(* (strategy/evidence.py), the health derived from it (strategy/health.py) *)
(* and the cycle that sells, computes health and buys (agent.py).  The     *)
(* service may be restarted with other strategies on the same database.    *)
(*                                                                         *)
(* Profits are integers and no float is rounded; a rate is an integer over *)
(* 100.  Quotes, sizing and the gate before the entry loop are in          *)
(* TradingAgent: here a held symbol may be sold with any result, and the   *)
(* loop may be skipped.  The loops visit symbols in any order.             *)
(***************************************************************************)
EXTENDS Integers, Sequences, FiniteSets, Functions

CONSTANTS
    Versions,            \* strategy versions: texts, ordered as these numbers
    Symbols,
    Regimes,             \* the regimes in which can_buy lets entries through
    AllowedRegimes,      \* of each registration; the empty set allows all
    Priority,            \* of each registration
    Deployments,         \* [active, bootstrap] the service may be started with
    Results,             \* net_pnl of a trade
    StartingEquity,      \* the baseline of the drawdown
    MinSamples, MinRegimeSamples, RecentWindow,
    DegradationFactor, MaxDrawdownLimit,    \* of StrategyHealthPolicy
    None,
    MaxTrades            \* bound: trades in a behaviour

(* What StrategyHealthEngine accepts as its policy.                        *)
PolicyIsValid ==
    /\ {MinSamples, MinRegimeSamples, RecentWindow} \subseteq Nat \ {0}
    /\ DegradationFactor \in 1 .. 100 /\ MaxDrawdownLimit \in 1 .. 99

ASSUME SelectionAssumption ==
    /\ Versions \subseteq Nat /\ IsFiniteSet(Versions)
    /\ AllowedRegimes \in [Versions -> SUBSET Regimes]
    /\ Priority \in [Versions -> Int]
    /\ Deployments \subseteq [active : SUBSET Versions, bootstrap : BOOLEAN]
    /\ Results \subseteq Int
    /\ PolicyIsValid /\ StartingEquity \in Nat \ {0}
    /\ None \notin Deployments /\ None \notin Regimes
    /\ MaxTrades \in Nat

VARIABLES
    trades,          \* table closed_trades, with the regime of the entry
    open,            \* table positions: from the symbols held
    pc,              \* "down", "exits" or "entries"
    deployed,        \* what the running service was started with
    regime,          \* of the current cycle
    seen             \* how many trades the cycle's health was computed from

vars == <<trades, open, pc, deployed, regime, seen>>

Held == DOMAIN open
Trade == [version : Versions, regime : Regimes, result : Results]

TypeOK ==
    /\ trades \in Seq(Trade)
    /\ Held \subseteq Symbols
    /\ open \in [Held -> [version : Versions, regime : Regimes]]
    /\ pc \in {"down", "exits", "entries"}
    /\ deployed \in Deployments \cup {None}
    /\ pc # "down" => deployed # None
    /\ regime \in Regimes \cup {None}
    /\ pc = "entries" => regime # None
    /\ seen \in Nat

Init ==
    /\ trades = <<>> /\ open = [s \in {} |-> None]
    /\ pc = "down" /\ deployed = None /\ regime = None /\ seen = 0

-----------------------------------------------------------------------------
(* Evidence (strategy/evidence.py).  Trades are known by their numbers, in *)
(* the order of their exits; rows is a set of them.                        *)

RowsOf(v, n) == {k \in 1 .. n : trades[k].version = v}
InRegime(r, rows) == {k \in rows : trades[k].regime = r}
Upto(k, rows) == {j \in rows : j <= k}
Recent(rows) == {k \in rows : Cardinality({j \in rows : j > k}) < RecentWindow}

NetPnl(rows) == SumFunction([k \in rows |-> trades[k].result])
SquaredPnl(rows) == SumFunction([k \in rows |-> trades[k].result * trades[k].result])

(* The variance of the results, times the square of their number.          *)
Spread(rows) == Cardinality(rows) * SquaredPnl(rows) - NetPnl(rows) * NetPnl(rows)

(* confidence > 0, with 1.96 standard errors.                              *)
Confident(rows) ==
    /\ Cardinality(rows) >= 2 /\ NetPnl(rows) > 0
    /\ 10000 * Cardinality(rows) * NetPnl(rows) * NetPnl(rows) > 38416 * Spread(rows)

Equity(k, rows) == StartingEquity + NetPnl(Upto(k, rows))

(* The falls in equity that the maximal drawdown is taken from.            *)
Falls(rows) ==
    LET pairs == {p \in (rows \cup {0}) \X (rows \cup {0}) :
                     p[1] <= p[2] /\ Equity(p[1], rows) > 0}
    IN  {[from |-> Equity(p[1], rows), to |-> Equity(p[2], rows)] : p \in pairs}

(* Whether fall f is a larger part of where it began than fall g.          *)
Deeper(f, g) == (f.from - f.to) * g.from > (g.from - g.to) * f.from

LessDrawdown(rows, others) ==
    \E g \in Falls(others) : \A f \in Falls(rows) : Deeper(g, f)

-----------------------------------------------------------------------------
(* Health (strategy/health.py _health_from_evidence, portfolio.py          *)
(* eligible_for_selection).                                                *)

DrawdownExceeded(rows) ==
    \E f \in Falls(rows) : 100 * (f.from - f.to) > MaxDrawdownLimit * f.from

(* Both expectancies multiplied by the product of the two sample sizes.    *)
Degraded(rows) ==
    /\ Cardinality(rows) >= MinSamples /\ NetPnl(rows) > 0
    /\ 100 * NetPnl(Recent(rows)) * Cardinality(rows)
         < DegradationFactor * NetPnl(rows) * Cardinality(Recent(rows))

Paused(rows) == DrawdownExceeded(rows) \/ Degraded(rows)

SelectionReady(rows) == Cardinality(rows) >= MinSamples /\ ~Paused(rows)

GoodIn(r, rows) ==
    Cardinality(InRegime(r, rows)) >= MinRegimeSamples => NetPnl(InRegime(r, rows)) > 0

(* max_drawdown < 1 follows from not being paused.                         *)
EligibleForSelection(rows, r) ==
    /\ SelectionReady(rows)
    /\ NetPnl(rows) > 0 /\ Confident(rows)
    /\ GoodIn(r, rows)

-----------------------------------------------------------------------------
(* Selection (strategy/portfolio.py select), on the health that was        *)
(* computed for this cycle.                                                *)

Known(v) == RowsOf(v, seen)

Sign(less, more) == IF more THEN 1 ELSE IF less THEN -1 ELSE 0
Cube(n) == n * n * n

Comparison_WithoutVersion(v, w) ==
    LET a == Known(v)
        b == Known(w)
    IN  << NetPnl(a) * Cardinality(b) - NetPnl(b) * Cardinality(a),
           Sign(LessDrawdown(b, a), LessDrawdown(a, b)),
           Spread(b) * Cube(Cardinality(a)) - Spread(a) * Cube(Cardinality(b)),
           Cardinality(a) - Cardinality(b),
           Priority[v] - Priority[w] >>

(* The criteria in their order, positive where v is ahead: expectancy,     *)
(* drawdown, confidence (of equal expectancies, the smaller error is the   *)
(* more confident), sample size, priority, version.                        *)
Comparison(v, w) ==
    LET a == Known(v)
        b == Known(w)
    IN  << NetPnl(a) * Cardinality(b) - NetPnl(b) * Cardinality(a),
           Sign(LessDrawdown(b, a), LessDrawdown(a, b)),
           Spread(b) * Cube(Cardinality(a)) - Spread(a) * Cube(Cardinality(b)),
           Cardinality(a) - Cardinality(b),
           Priority[v] - Priority[w],
           w - v >>

Outranks(v, w) ==
    LET c == Comparison(v, w)
    IN  \E k \in DOMAIN c : c[k] > 0 /\ \A j \in 1 .. k - 1 : c[j] = 0

ActiveSignals(signals) ==
    {v \in signals : AllowedRegimes[v] # {} => regime \in AllowedRegimes[v]}

Ranked(signals) ==
    {v \in ActiveSignals(signals) : EligibleForSelection(Known(v), regime)}

Best(vs) == {v \in vs : \A w \in vs \ {v} : Outranks(v, w)}

BootstrapCandidates(signals) ==
    {v \in ActiveSignals(signals) :
        Cardinality(Known(v)) < MinSamples /\ ~Paused(Known(v))}

MayBootstrap_AnyPool == deployed.bootstrap

(* TradingAgent.__init__: the option, in a pool of one active strategy.    *)
MayBootstrap == deployed.bootstrap /\ Cardinality(deployed.active) = 1

(* The strategy selected among those whose signal is eligible, if any.     *)
Select(signals) ==
    IF Ranked(signals) # {}
      THEN Best(Ranked(signals))
      ELSE {v \in BootstrapCandidates(signals) :
               MayBootstrap /\ ActiveSignals(signals) = {v}}

-----------------------------------------------------------------------------
(* The service.                                                            *)

Deploy(d) ==
    /\ pc = "down"
    /\ pc' = "exits" /\ deployed' = d
    /\ UNCHANGED <<trades, open, regime, seen>>

(* Deliberately, or by a crash at any commit.                              *)
Stop ==
    /\ pc # "down"
    /\ pc' = "down" /\ deployed' = None /\ regime' = None /\ seen' = 0
    /\ UNCHANGED <<trades, open>>

Sell_JoinsNoRegime(s, result) ==
    /\ pc = "exits" /\ s \in Held
    /\ trades' = Append(trades, [version |-> open[s].version, regime |-> None,
                                 result |-> result])
    /\ open' = [x \in Held \ {s} |-> open[x]]
    /\ UNCHANGED <<pc, deployed, regime, seen>>

(* A position is closed under the version that opened it, deployed or not. *)
(* The regime of a trade is the latest recorded by the time of its entry,  *)
(* which is the regime of the cycle that opened it.                        *)
Sell(s, result) ==
    /\ pc = "exits" /\ s \in Held
    /\ trades' = Append(trades, [version |-> open[s].version, regime |-> open[s].regime,
                                 result |-> result])
    /\ open' = [x \in Held \ {s} |-> open[x]]
    /\ UNCHANGED <<pc, deployed, regime, seen>>

AssessHealth_BeforeExits(r) ==
    /\ pc = "exits"
    /\ pc' = "entries" /\ regime' = r
    /\ seen' \in {Len(trades) - 1, Len(trades)} \cap Nat
    /\ UNCHANGED <<trades, open, deployed>>

(* The exits are done: the regime is classified and the health of every    *)
(* active strategy computed, once for the entry loop.                      *)
AssessHealth(r) ==
    /\ pc = "exits"
    /\ pc' = "entries" /\ regime' = r /\ seen' = Len(trades)
    /\ UNCHANGED <<trades, open, deployed>>

Enter(s, v) ==
    /\ pc = "entries" /\ s \notin Held
    /\ Len(trades) + Cardinality(Held) < MaxTrades
    /\ \E signals \in SUBSET deployed.active : v \in Select(signals)
    /\ open' = [x \in Held \cup {s} |->
                   IF x = s THEN [version |-> v, regime |-> regime] ELSE open[x]]
    /\ UNCHANGED <<trades, pc, deployed, regime, seen>>

FinishCycle ==
    /\ pc = "entries"
    /\ pc' = "exits" /\ regime' = None /\ seen' = 0
    /\ UNCHANGED <<trades, open, deployed>>

Exits == \E s \in Symbols, result \in Results : Sell(s, result)
Entries == \E s \in Symbols, v \in Versions : Enter(s, v)

Next ==
    \/ \E d \in Deployments : Deploy(d)
    \/ Stop \/ Exits
    \/ \E r \in Regimes : AssessHealth(r)
    \/ Entries \/ FinishCycle

Spec == Init /\ [][Next]_vars

-----------------------------------------------------------------------------
Bought(s) == s \notin Held /\ s \in DOMAIN open'
Rows(v) == RowsOf(v, Len(trades))

(* No position is opened for a strategy that the trades closed by then     *)
(* pause, also those that this cycle's exits closed and those closed under *)
(* another deployment (agent.py _strategy_health, health.py).              *)
PausedNeverBuys ==
    [][\A s \in Symbols : Bought(s) => ~Paused(Rows(open'[s].version))]_vars

(* A strategy trades on enough evidence that is positive, over all and, if *)
(* there is enough, in the regime of the moment; or else as the only       *)
(* active strategy of a deployment that asks for the bootstrap             *)
(* (portfolio.py select, agent.py __init__).                               *)
HasEarned(v) ==
    /\ Cardinality(Rows(v)) >= MinSamples /\ NetPnl(Rows(v)) > 0
    /\ GoodIn(regime, Rows(v))
EntriesAreEarned ==
    [][\A s \in Symbols : Bought(s) =>
          LET v == open'[s].version
          IN  HasEarned(v) \/ deployed = [active |-> {v}, bootstrap |-> TRUE]]_vars

(* Whatever the evidence, one of the ranked strategies is ahead of all     *)
(* others: the choice does not depend on the order of registrations        *)
(* (portfolio.py, the sort key of ranked).                                 *)
OneIsBest ==
    pc = "entries" => \A signals \in SUBSET deployed.active :
        Ranked(signals) # {} => Cardinality(Best(Ranked(signals))) = 1
=============================================================================
