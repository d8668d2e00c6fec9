------------------------ MODULE MCValidationReplay ------------------------
(* Three days, two of them the development split.  The bar of the index     *)
(* comes between those of the two shares.  Eight ticks a day: a bar before  *)
(* the open and six from tick 1 to 7, with the entry cutoff at 6.           *)
EXTENDS ValidationReplay

CONSTANTS share, index, tail, v1, other, canonical, unsafe

Prices(s, d) ==
    CASE s = share /\ d = 1 -> <<50, 50, 48, 51, 50, 55, 55>>
      [] s = share /\ d = 2 -> <<55, 52, 56, 53, 58, 58, 57>>
      [] s = share /\ d = 3 -> <<57, 59, 63, 60, 64, 64, 64>>
      [] s = tail  /\ d = 1 -> <<50, 50, 51, 49, 52, 52, 50>>
      [] s = tail  /\ d = 2 -> <<50, 52, 52, 50, 53, 54, 57>>
      [] s = tail  /\ d = 3 -> <<57, 55, 58, 57, 57, 55, 56>>
      [] s = index         -> <<9, 9, 9, 9, 9, 9, 9>>

BarAt(s, n) ==
    LET day == 1 + (n - 1) \div 7
        tick == (n - 1) % 7
    IN  [symbol |-> s, start |-> 8 * day + tick, end |-> 8 * day + tick + 1,
         close |-> Prices(s, day)[tick + 1]]

Order == <<share, index, tail>>
MCBars == [k \in 1 .. 63 |-> BarAt(Order[1 + ((k - 1) % 3)], 1 + (k - 1) \div 3)]

(* The regime changes with a bar of the index.                              *)
MCRegimeOf(h) ==
    CASE Len(h[index]) \in {2, 13} -> "CAUTIOUS"
      [] Len(h[index]) = 15 -> "RISK_OFF"
      [] OTHER -> "RISK_ON"

PlanOf(version, scope, target) ==
    [version |-> version, base |-> v1, scope |-> scope, target |-> target, risk |-> canonical]

MCPlans ==
    {PlanOf("no tail", "symbol_eligibility", tail),
     PlanOf("no caution", "regime_eligibility", "CAUTIOUS"),
     PlanOf("not at noon", "time_of_day_eligibility", "MIDDAY"),
     PlanOf("not at night", "time_of_day_eligibility", "NIGHT"),
     PlanOf("forgotten", "symbol_eligibility", None),
     PlanOf("other scope", "entry_timing_or_signal_quality", tail),
     [PlanOf("other base", "symbol_eligibility", share) EXCEPT !.base = other],
     [PlanOf("unsafe", "symbol_eligibility", share) EXCEPT !.risk = unsafe]}

EveryDay == {1, 2, 3}
NoSpecials == [d \in {} |-> 0]
=============================================================================
