-------------------------- MODULE StrategyEvidence --------------------------
(***************************************************************************)
(* What the diagnosis of a strategy is made from: Repository               *)
(* .strategy_outcomes joins the closed trades with the market regimes, and *)
(* strategy/evidence.py groups them.  Only the sizes and the means of the  *)
(* groups are kept here; drawdown and confidence are in StrategySelection. *)
(***************************************************************************)
EXTENDS Integers, Sequences, FiniteSetsExt

CONSTANTS
    RecentWindow,
    Scale,           \* a mean is in units of one part in Scale, rounded down
    Unknown          \* no regime was recorded before the entry

ASSUME EvidenceAssumption == {RecentWindow, Scale} \subseteq Nat \ {0}

Minutes == Nat       \* from a midnight in IST

(* A row of closed_trades, and of market_regimes.                          *)
ClosedTrade(Versions, Symbols, Reasons) ==
    [version : Versions, symbol : Symbols, reason : Reasons,
     entry : Minutes, exit : Minutes, net : Int]

(* The regime of an entry is the latest recorded by then, the later row of *)
(* two of the same instant.                                                *)
RegimeAt(regimes, t) ==
    LET rows == {i \in DOMAIN regimes : regimes[i].at <= t}
        Latest(i) == \A j \in rows : \/ regimes[j].at < regimes[i].at
                                     \/ regimes[j].at = regimes[i].at /\ j <= i
    IN  IF rows = {} THEN Unknown ELSE regimes[CHOOSE i \in rows : Latest(i)].regime

Outcomes(trades, regimes) ==
    [k \in DOMAIN trades |->
        [version |-> trades[k].version, symbol |-> trades[k].symbol,
         reason |-> trades[k].reason, entry |-> trades[k].entry,
         exit |-> trades[k].exit, net |-> trades[k].net,
         regime |-> RegimeAt(regimes, trades[k].entry)]]

TimeBucket(t) ==
    LET m == t % 1440
    IN  IF m < 11 * 60 + 30 THEN "MORNING"
        ELSE IF m < 13 * 60 + 30 THEN "MIDDAY" ELSE "AFTERNOON"

-----------------------------------------------------------------------------
(* Groups are sets of the numbers of outcomes.                             *)

RowsOf(outcomes, v) == {k \in DOMAIN outcomes : outcomes[k].version = v}

ExitedAfter(outcomes, j, k) ==
    \/ outcomes[j].exit > outcomes[k].exit
    \/ outcomes[j].exit = outcomes[k].exit /\ j > k

Recent(outcomes, rows) ==
    {k \in rows : Cardinality({j \in rows : ExitedAfter(outcomes, j, k)}) < RecentWindow}

(* The mean of no trades is None in the code and never read: every use     *)
(* asks for the number of samples first.                                   *)
Aggregate(outcomes, rows) ==
    [samples |-> Cardinality(rows),
     expectancy |->
        IF rows = {} THEN 0
        ELSE (Scale * MapThenSumSet(LAMBDA k : outcomes[k].net, rows)) \div Cardinality(rows)]

IsIn(outcome, bucket) ==
    CASE bucket.code = "REGIME_WEAKNESS" -> outcome.regime = bucket.target
      [] bucket.code = "TIME_BUCKET_WEAKNESS" -> TimeBucket(outcome.entry) = bucket.target
      [] bucket.code = "SYMBOL_WEAKNESS" -> outcome.symbol = bucket.target

(* StrategyEvidenceEngine.compute for an active version: what a diagnosis  *)
(* reads, with the buckets in the order it visits them.                    *)
EvidenceOf(v, outcomes, buckets) ==
    LET rows == RowsOf(outcomes, v)
        In(bucket) == {k \in rows : IsIn(outcomes[k], bucket)}
    IN  [version |-> v,
         overall |-> Aggregate(outcomes, rows),
         recent |-> Aggregate(outcomes, Recent(outcomes, rows)),
         forced |-> Aggregate(outcomes, {k \in rows : outcomes[k].reason = "FORCED"}),
         in |-> [i \in DOMAIN buckets |-> Aggregate(outcomes, In(buckets[i]))]]
=============================================================================
