---------------------------- MODULE RiskEngine -----------------------------
(***************************************************************************)
(* The arithmetic of the account: fill prices (paper_broker/broker.py),    *)
(* quote checks (risk/health.py), position sizing, marked equity and the   *)
(* two circuit breakers (risk/engine.py).                                  *)
(*                                                                         *)
(* Quoted prices are integers.  Every amount of money (cash, equity, fees, *)
(* entry prices) is an integer number of units of 1/Base of a quoted       *)
(* price, so that price * (1 + slippage) is exact, as it is in the code's  *)
(* Decimal arithmetic; rates are integers over Base and size factors are   *)
(* integers over Whole.  The round trip of cash through a SQLite REAL is   *)
(* not modelled.                                                           *)
(***************************************************************************)
EXTENDS Integers, FiniteSetsExt

CONSTANTS
    None,           \* an absent price, equity or quote
    Quotes,         \* the quotes the feed can return
    Base,           \* what one whole (100%) is in the rates below
    SlippageBps,    \* risk.slippage_bps
    LastSlippageBps,\* execution.last_price_slippage_bps
    MaxSpreadBps,   \* risk.max_spread_bps
    HardStopPct, TakeProfitPct, DailyLossLimitPct, RollingDrawdownPct,
    RiskPerTrade,   \* account.risk_per_trade
    BuyFee, SellFee,
    MinimumCashReserve, MaxGrossPosition

Whole == 4          \* a size factor of 1.0; cautious sizing halves it, twice

Price == Int \cup {None}

ASSUME RiskAssumption ==
    /\ None \notin Int
    /\ Quotes \subseteq [bid : Price, ask : Price, last : Price, fresh : BOOLEAN]
    /\ Base \in Nat \ {0}
    /\ {SlippageBps, LastSlippageBps, MaxSpreadBps, HardStopPct, TakeProfitPct,
        DailyLossLimitPct, RollingDrawdownPct, RiskPerTrade, BuyFee, SellFee,
        MinimumCashReserve, MaxGrossPosition} \subseteq Nat

-----------------------------------------------------------------------------
(* Quote checks and fill prices.                                           *)

Usable(price) == price # None => price > 0

(* DataHealth.check_exit_price.                                            *)
CheckExitPrice(q) ==
    /\ Usable(q.bid) /\ Usable(q.last)
    /\ q.bid # None \/ q.last # None

(* DataHealth.check_quote; "fresh" stands for now - q.ts <= max_age.       *)
CheckQuote(q) ==
    /\ q.fresh
    /\ Usable(q.bid) /\ Usable(q.ask) /\ Usable(q.last)
    /\ (q.bid # None /\ q.ask # None) =>
          /\ q.bid <= q.ask
          /\ 2 * Base * (q.ask - q.bid) <= MaxSpreadBps * (q.ask + q.bid)
    /\ q.bid # None \/ q.ask # None \/ q.last # None

(* The price an exit rule compares with the stop and the target.           *)
ExitBid(q) == IF q.bid # None THEN q.bid ELSE q.last

HasBuyPrice(q) == q.ask # None \/ q.last # None

(* PaperBroker._price, in money units.                                     *)
BuyPrice(q) ==
    IF q.ask # None THEN q.ask * (Base + SlippageBps)
                    ELSE q.last * (Base + LastSlippageBps)
SellPrice(q) ==
    IF q.bid # None THEN q.bid * (Base - SlippageBps)
                    ELSE q.last * (Base - LastSlippageBps)

(* The stop and target columns of a position, in 1/Base of a money unit,   *)
(* and the exit rules of TradingAgent.cycle that compare a bid with them.  *)
StopPrice(entry) == entry * (Base - HardStopPct)
TargetPrice(entry) == entry * (Base + TakeProfitPct)
StopHit(p, q) == ExitBid(q) * Base * Base <= p.stop
TargetHit(p, q) == ExitBid(q) * Base * Base >= p.target

-----------------------------------------------------------------------------
(* Marked equity, sizing and circuit breakers.                             *)

(* RiskEngine.equity: a position without a bid is marked at last_mark,     *)
(* which no code path moves from the entry price.                          *)
MarkPrice(p, q) == IF q # None /\ q.bid # None THEN q.bid * Base ELSE p.entry
Equity(cash, positions, quotes) ==
    cash + MapThenSumSet(
              LAMBDA s : positions[s].qty * MarkPrice(positions[s], quotes[s]),
              DOMAIN positions)

(* RiskEngine.quantity sizes on the quoted price, without slippage.        *)
Lots(price) ==
    LET n == MaxGrossPosition \div (price * Base) IN IF n > 1 THEN n ELSE 1

Fits(n, price, equity, cash, factor) ==
    /\ n * price * Base <= cash - MinimumCashReserve - BuyFee
    /\ n * price * Base * Whole <= MaxGrossPosition * factor
    /\ n * (price * HardStopPct * Lots(price) + BuyFee) * Base * Whole
          <= equity * RiskPerTrade * factor * Lots(price)

(* n is min(q_risk, q_cash, q_cap), each of them rounded down.             *)
IsQuantity(n, price, equity, cash, factor) ==
    /\ Fits(n, price, equity, cash, factor)
    /\ ~Fits(n + 1, price, equity, cash, factor)

(* RiskEngine.daily_loss_blocked.                                          *)
DailyLossBlocked(equity, dailyStart) ==
    equity * Base <= dailyStart * (Base - DailyLossLimitPct)

(* The largest fall from a running peak in marks, a function from dates to *)
(* equities, reaches the limit: the loop of rolling_drawdown_blocked.      *)
DrawdownReached(marks, dates) ==
    \E d, e \in dates :
        /\ d <= e
        /\ marks[d] > 0
        /\ (marks[d] - marks[e]) * Base >= RollingDrawdownPct * marks[d]
=============================================================================
