------------------------- MODULE MCStrategySelection -------------------------
(* Two strategies, deployed one at a time with the bootstrap or both with   *)
(* it, which then does not apply.  A loss of 6 is more than a tenth of the  *)
(* equity of 50; two gains of 8 are evidence enough, also with a loss of 1  *)
(* among three, which may be the only trade in its regime.                  *)
EXTENDS StrategySelection

MCDeployments ==
    {[active |-> {1}, bootstrap |-> TRUE],
     [active |-> {2}, bootstrap |-> TRUE],
     [active |-> {1, 2}, bootstrap |-> TRUE]}

SecondOnlyInRiskOn == [v \in {1, 2} |-> IF v = 2 THEN {"RISK_ON"} ELSE {}]
SamePriority == [v \in {1, 2} |-> 100]
MCResults == {-6, -1, 8}
=============================================================================
