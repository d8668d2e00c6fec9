--------------------------- MODULE MCTradingAgent ---------------------------
(* Small instances of TradingAgent: a share is quoted around 10, money is   *)
(* counted in tenths, and a day has five ticks: before the open, two while  *)
(* entries are allowed, one after the cutoff and one after the close.       *)
EXTENDS TradingAgent, TLC

Quote(b, a, l, f) == [bid |-> b, ask |-> a, last |-> l, fresh |-> f]

(* Bought at 10: 7 is below the stop, 16 above the target.                *)
Flat == Quote(10, 10, 10, TRUE)
Fallen == Quote(7, 7, 7, TRUE)
Risen == Quote(16, 16, 16, TRUE)
LastOnly == Quote(None, None, 10, TRUE)
Stale == Quote(10, 10, 10, FALSE)
NoBid == Quote(0, 10, 10, TRUE)

TrendQuotes == {Flat, Fallen}
DayQuotes == {Flat, Fallen, Stale}
CoreQuotes == {LastOnly, Fallen, Risen, NoBid}

EveryDay == 1 .. 9
WeekWithHoliday == {1, 3, 4, 5}
NoSpecials == [d \in {} |-> None]
(* A special session that ends before the regular entry cutoff.             *)
ShortSession == [d \in {1} |-> [open |-> 1, close |-> 2]]

SymbolSymmetry == Permutations(Symbols)
=============================================================================
