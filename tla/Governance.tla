----------------------------- MODULE Governance -----------------------------
(***************************************************************************)
(* From the evidence about a candidate strategy to a promotion decision:   *)
(* research/governance.py, lifecycle.py and promotion.py.  Drawdown and    *)
(* expectancy are floats, so they may be NaN, and every comparison with    *)
(* NaN is false; a key may be missing from the metrics, and then a default *)
(* stands for it.                                                          *)
(***************************************************************************)
EXTENDS Integers, Sequences

CONSTANTS NaN, Missing

Number == Int \cup {NaN, Missing}

Evidence ==
    [trades : Nat, oosTrades : Nat, oosDrawdown : Number, oosExpectancy : Number,
     shadowTrades : Nat, humanApproved : BOOLEAN]

(* Limits that the defaults below do not meet, as the shipped ones are.    *)
PromotionGate ==
    [minClosedTrades : Nat, minOosTrades : Nat, maxDrawdown : 0 .. 99,
     minExpectancy : Nat, requireShadow : BOOLEAN, requireHumanApproval : BOOLEAN]

(* dict.get with its default: all of the equity, and a loss of one.        *)
OosDrawdown(e) == IF e.oosDrawdown = Missing THEN 100 ELSE e.oosDrawdown
OosExpectancy(e) == IF e.oosExpectancy = Missing THEN -1 ELSE e.oosExpectancy

Greater(x, limit) == x # NaN /\ x > limit
AtMost(x, limit) == x # NaN /\ x <= limit

Reasons_WithoutIsFinite(e, gate) ==
    {r \in {"total", "oos", "drawdown", "expectancy", "shadow", "human"} :
        \/ r = "total" /\ e.trades < gate.minClosedTrades
        \/ r = "oos" /\ e.oosTrades < gate.minOosTrades
        \/ r = "drawdown" /\ Greater(OosDrawdown(e), gate.maxDrawdown)
        \/ r = "expectancy" /\ AtMost(OosExpectancy(e), gate.minExpectancy)
        \/ r = "shadow" /\ gate.requireShadow /\ e.shadowTrades < gate.minOosTrades
        \/ r = "human" /\ gate.requireHumanApproval /\ ~e.humanApproved}

(* evaluate_candidate: why the candidate is turned down.                   *)
Reasons(e, gate) ==
    {r \in {"total", "oos", "drawdown", "expectancy", "shadow", "human"} :
        \/ r = "total" /\ e.trades < gate.minClosedTrades
        \/ r = "oos" /\ e.oosTrades < gate.minOosTrades
        \/ r = "drawdown" /\ (OosDrawdown(e) = NaN \/ Greater(OosDrawdown(e), gate.maxDrawdown))
        \/ r = "expectancy" /\ (OosExpectancy(e) = NaN \/ AtMost(OosExpectancy(e), gate.minExpectancy))
        \/ r = "shadow" /\ gate.requireShadow /\ e.shadowTrades < gate.minOosTrades
        \/ r = "human" /\ gate.requireHumanApproval /\ ~e.humanApproved}

Promotions == <<"VALIDATED", "SHADOW", "APPROVED", "PRODUCTION">>

Allowed(state) ==
    CASE state = "CANDIDATE" -> {"VALIDATED"}
      [] state = "VALIDATED" -> {"SHADOW"}
      [] state = "SHADOW" -> {"APPROVED"}
      [] state = "APPROVED" -> {"PRODUCTION"}
      [] state = "PRODUCTION" -> {}

(* evaluate_promotion walks the whole lifecycle at once; a step that is    *)
(* not allowed would raise.                                                *)
EvaluatePromotion(e, gate) ==
    LET path == <<"CANDIDATE">> \o Promotions
        ok == Reasons(e, gate) = {}
    IN  IF ok /\ \A i \in 1 .. Len(Promotions) : path[i + 1] \in Allowed(path[i])
          THEN [approved |-> TRUE, state |-> path[Len(path)]]
          ELSE [approved |-> FALSE, state |-> "CANDIDATE"]
=============================================================================
