------------------------------ MODULE MCReplay ------------------------------
(* Two days of two shares and the index, nine ticks a day: a bar before the *)
(* open, seven bars from tick 1 to 8 with the entry cutoff at 7, and one    *)
(* after the close.  There are crossings of the average with an RSI of 50   *)
(* and of 100, in a bad regime, without room and in a cooldown, and trades  *)
(* that end at the target, at the stop and at the close.                    *)
EXTENDS Replay

CONSTANTS up, down, index

Prices(s, d) ==
    CASE s = up   /\ d = 1 -> <<50, 50, 51, 49, 52, 56, 57, 58, 58>>
      [] s = up   /\ d = 2 -> <<58, 56, 59, 58, 55, 59, 60, 59, 59>>
      [] s = down /\ d = 1 -> <<50, 50, 48, 50, 50, 51, 55, 53, 53>>
      [] s = down /\ d = 2 -> <<53, 56, 54, 57, 55, 58, 58, 59, 59>>
      [] s = index         -> <<9, 9, 9, 9, 9, 9, 9, 9, 9>>

(* The n-th bars of the three are those of tick n - 1 of the two days.      *)
BarAt(s, n) ==
    LET day == 1 + (n - 1) \div 9
        tick == (n - 1) % 9
    IN  [symbol |-> s, start |-> 9 * day + tick, end |-> 9 * day + tick + 1,
         close |-> Prices(s, day)[tick + 1]]

Order == <<up, down, index>>
MCBars == [k \in 1 .. 54 |-> BarAt(Order[1 + ((k - 1) % 3)], 1 + (k - 1) \div 3)]

(* The regime is bad at the first bars of the second day.                   *)
MCRegimeOf(h) ==
    CASE Len(h[index]) = 7 -> "RISK_OFF"
      [] Len(h[index]) = 10 -> "CAUTIOUS"
      [] OTHER -> "RISK_ON"

EveryDay == {1, 2}
NoSpecials == [d \in {} |-> 0]
=============================================================================
