------------------------- MODULE MCProductionIdentity -------------------------
(* Two candidates that meet the gate, one with too few trades and no       *)
(* expectancy, and one whose drawdown is NaN.                              *)
EXTENDS ProductionIdentity

CONSTANTS sound, better, unproven, degenerate

Good == [trades |-> 50, oosTrades |-> 20, oosDrawdown |-> 4, oosExpectancy |-> 1,
         shadowTrades |-> 20, humanApproved |-> TRUE]

MCIdentities == {sound, better, unproven, degenerate}

MCEvidenceOf ==
    [i \in MCIdentities |->
        CASE i = unproven -> [Good EXCEPT !.oosTrades = 19, !.oosExpectancy = Missing]
          [] i = degenerate -> [Good EXCEPT !.oosDrawdown = NaN]
          [] i = better -> [Good EXCEPT !.oosDrawdown = 0]
          [] OTHER -> Good]

MCGate == [minClosedTrades |-> 50, minOosTrades |-> 20, maxDrawdown |-> 4,
           minExpectancy |-> 0, requireShadow |-> TRUE, requireHumanApproval |-> TRUE]
=============================================================================
