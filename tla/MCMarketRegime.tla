--------------------------- MODULE MCMarketRegime ---------------------------
(* Four days of an index and a share, one or two bars a day and one that    *)
(* the file has twice.  The address of a list may change with every         *)
(* calculation.                                                             *)
EXTENDS MarketRegime

CONSTANTS nifty, infy

B(d, end, low, high, close) ==
    [day |-> d, end |-> end, open |-> low, high |-> high, low |-> low, close |-> close]

MCMarket ==
    [s \in {nifty, infy} |->
        IF s = nifty
          THEN <<B(1, 1, 9, 10, 10), B(1, 2, 8, 11, 9), B(2, 3, 9, 12, 12),
                 B(3, 5, 11, 13, 13), B(3, 6, 6, 12, 7), B(4, 7, 5, 8, 8)>>
          ELSE <<B(1, 1, 4, 5, 5), B(2, 3, 5, 9, 6), B(2, 3, 5, 9, 7),
                 B(3, 5, 4, 6, 6), B(4, 7, 2, 6, 3)>>]

MCVolatility(closes) == (closes[2] - closes[1]) * (closes[2] - closes[1])
=============================================================================
