---------------------------- MODULE RegimeRules ----------------------------
(***************************************************************************)
(* regime/engine.py: the regime that measures of the market stand for.     *)
(* RegimeEngine.classify, of measures that are there and in range: prices  *)
(* on one scale, above of eligible shares, rank of of volatilities.        *)
(***************************************************************************)
EXTENDS Integers

Regimes == {"RISK_ON", "RANGE_BOUND", "CAUTIOUS", "RISK_OFF", "DATA_DEGRADED"}

BreadthBelow(m, percent) == 100 * m.above < percent * m.eligible
VolatilityBelow(m, percent) == 100 * m.rank < percent * m.of

Classify(m) ==
    IF m.shock \/ ~VolatilityBelow(m, 95) THEN "RISK_OFF"
    ELSE IF m.close < m.fast /\ m.close < m.slow /\ BreadthBelow(m, 35) THEN "RISK_OFF"
    ELSE IF /\ m.close >= m.fast /\ m.fast >= m.slow
            /\ ~BreadthBelow(m, 55) /\ VolatilityBelow(m, 80) THEN "RISK_ON"
    ELSE IF BreadthBelow(m, 45) \/ ~VolatilityBelow(m, 80) THEN "CAUTIOUS"
    ELSE "RANGE_BOUND"
=============================================================================
