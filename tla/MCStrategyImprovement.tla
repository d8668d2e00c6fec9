----------------------- MODULE MCStrategyImprovement -----------------------
(* One version that goes on trading, and three moments at which it is      *)
(* diagnosed.  Of its first two trades there is nothing to say; after four *)
(* the weakness in RISK_OFF ranks before that in the morning; after eight  *)
(* the recent trades have degraded, which moves the regime down a rank,    *)
(* the morning out of the proposals and the symbol out of the findings.    *)
EXTENDS StrategyImprovement, StrategyEvidence

CONSTANTS v1, v2, symbolA, symbolB, canonical, other

MCBuckets ==
    <<[code |-> "REGIME_WEAKNESS", target |-> "RISK_OFF"],
      [code |-> "TIME_BUCKET_WEAKNESS", target |-> "MORNING"],
      [code |-> "SYMBOL_WEAKNESS", target |-> symbolA]>>

At(day, hour) == day * 1440 + hour * 60

RegimeRows ==
    <<[at |-> At(0, 9), regime |-> "RISK_OFF"], [at |-> At(0, 12), regime |-> "RISK_OFF"],
      [at |-> At(0, 12), regime |-> "RISK_ON"], [at |-> At(3, 9), regime |-> "RANGE_BOUND"]>>

Trade(v, s, reason, day, hour, net) ==
    [version |-> v, symbol |-> s, reason |-> reason, entry |-> At(day, hour),
     exit |-> At(day, hour) + 60, net |-> net]

History ==
    <<Trade(v1, symbolA, "STOP", 0, 10, -4), Trade(v1, symbolB, "FORCED", 0, 11, -2),
      Trade(v2, symbolA, "STOP", 0, 11, -9),
      Trade(v1, symbolA, "TARGET", 0, 12, 12), Trade(v1, symbolB, "TARGET", 0, 13, 10),
      Trade(v1, symbolA, "STOP", 1, 10, -16), Trade(v1, symbolB, "TARGET", 2, 12, 20),
      Trade(v1, symbolB, "FORCED", 3, 14, -10), Trade(v1, symbolB, "FORCED", 3, 15, -2)>>

ASSUME HistoryAssumption ==
    History \in Seq(ClosedTrade({v1, v2}, {symbolA, symbolB}, {"STOP", "TARGET", "FORCED"}))

MCEvidences ==
    {EvidenceOf(v1, Outcomes(SubSeq(History, 1, n), RegimeRows), MCBuckets) :
        n \in {3, 5, 9}}
=============================================================================
