------------------------- MODULE TradingAgentProofs -------------------------
(***************************************************************************)
(* What TradingAgent guarantees for every watchlist, calendar, set of      *)
(* quotes, configuration and number of crashes.                            *)
(***************************************************************************)
EXTENDS TradingAgent, FiniteSetTheorems, WellFoundedInduction, TLAPS

(* The date of an instant is a number and never goes back.                 *)
LEMMA DateType ==
    ASSUME NEW t \in Nat
    PROVE  Date(t) \in Nat
  BY SessionAssumption DEF Date

LEMMA DateMonotone ==
    ASSUME NEW t \in Nat, NEW u \in Nat, t <= u
    PROVE  Date(t) <= Date(u)
  BY SessionAssumption DEF Date

(* What an entry pays for a share is a positive amount of money.           *)
LEMMA BuyPriceType ==
    ASSUME NEW q \in Quotes, CheckQuote(q), HasBuyPrice(q)
    PROVE  BuyPrice(q) \in Nat \ {0}
  <1>1. CASE q.ask # None
    <2>1. q.ask \in Nat \ {0}
      BY <1>1, RiskAssumption DEF CheckQuote, Usable, Price
    <2>2. Base + SlippageBps \in Nat \ {0}
      BY RiskAssumption
    <2> QED BY <1>1, <2>1, <2>2 DEF BuyPrice
  <1>2. CASE q.ask = None
    <2>1. q.last \in Nat \ {0}
      BY <1>2, RiskAssumption DEF CheckQuote, HasBuyPrice, Usable, Price
    <2>2. Base + LastSlippageBps \in Nat \ {0}
      BY RiskAssumption
    <2> QED BY <1>2, <2>1, <2>2 DEF BuyPrice
  <1> QED BY <1>1, <1>2

(* What an exit is paid for a share is an amount of money.                 *)
LEMMA SellPriceType ==
    ASSUME NEW q \in Quotes, CheckExitPrice(q)
    PROVE  SellPrice(q) \in Int
  <1>1. CASE q.bid # None
    <2>1. q.bid \in Int
      BY <1>1, RiskAssumption DEF Price
    <2> QED BY <1>1, <2>1, RiskAssumption DEF SellPrice
  <1>2. CASE q.bid = None
    <2>1. q.last \in Int
      BY <1>2, RiskAssumption DEF CheckExitPrice, Price
    <2> QED BY <1>2, <2>1, RiskAssumption DEF SellPrice
  <1> QED BY <1>1, <1>2

-----------------------------------------------------------------------------
(* Types.  A step of the exit loop sells a position the loop's snapshot    *)
(* named, so typing needs that the snapshot is still held.                 *)

LoopOK ==
    /\ pc \in {"exits", "cooldown"} => todo \subseteq Held
    /\ pc = "cooldown" => stopped \in Symbols

TypeInv == TypeOK /\ LoopOK

(* A sale keeps the tables typed and the other symbols held.               *)
LEMMA SellTypes ==
    ASSUME TypeInv, NEW s \in Held, NEW q \in Quotes, CheckExitPrice(q), Sell(s, q)
    PROVE  /\ cash' \in Int /\ realised' \in Int
           /\ netFilled' \in [Symbols -> Int]
           /\ Held' = Held \ {s}
           /\ positions' \in [Held' -> Position]
  <1>1. s \in Symbols /\ positions[s] \in Position
    BY DEF TypeInv, TypeOK
  <1>2. SellPrice(q) * positions[s].qty - SellFee \in Int
    BY <1>1, SellPriceType, RiskAssumption DEF Position
  <1>3. positions[s].entry * positions[s].qty \in Int /\ positions[s].fee \in Int
    BY <1>1 DEF Position
  <1>4. cash' \in Int /\ realised' \in Int
    BY <1>2, <1>3 DEF Sell, TypeInv, TypeOK
  <1>5. netFilled' \in [Symbols -> Int]
    BY <1>1 DEF Sell, TypeInv, TypeOK, Position
  <1>6. Held' = Held \ {s}
    BY DEF Sell, Held
  <1>7. positions' \in [Held' -> Position]
    BY <1>6 DEF Sell, TypeInv, TypeOK, Held
  <1> QED BY <1>4, <1>5, <1>6, <1>7

(* A purchase keeps the tables typed and adds the symbol to those held.    *)
LEMMA BuyTypes ==
    ASSUME TypeInv, NEW s \in Symbols, NEW q \in Quotes, NEW qty \in Nat \ {0},
           CheckQuote(q), HasBuyPrice(q), Buy(s, qty, q)
    PROVE  /\ cash' \in Int /\ realised' \in Int
           /\ netFilled' \in [Symbols -> Int]
           /\ Held' = Held \cup {s}
           /\ positions' \in [Held' -> Position]
           /\ positions'[s].qty = qty
  <1> DEFINE price == BuyPrice(q)
             bought == [qty |-> qty, entry |-> price, stop |-> StopPrice(price),
                        target |-> TargetPrice(price), fee |-> BuyFee]
  <1>1. price \in Nat \ {0}
    BY BuyPriceType
  <1>2. bought \in Position
    <2>1. StopPrice(price) \in Int /\ TargetPrice(price) \in Int
      BY <1>1, RiskAssumption DEF StopPrice, TargetPrice
    <2> QED BY <1>1, <2>1, RiskAssumption DEF Position
  <1>3. cash' \in Int /\ realised' \in Int
    BY <1>1, RiskAssumption DEF Buy, TypeInv, TypeOK
  <1>4. netFilled' \in [Symbols -> Int]
    BY DEF Buy, TypeInv, TypeOK
  <1>5. positions' = [x \in Held \cup {s} |-> IF x = s THEN bought ELSE positions[x]]
    BY DEF Buy
  <1>6. Held' = Held \cup {s}
    BY <1>5 DEF Held
  <1>7. positions' \in [Held' -> Position] /\ positions'[s].qty = qty
    BY <1>2, <1>5, <1>6 DEF TypeInv, TypeOK, Held
  <1> QED BY <1>3, <1>4, <1>6, <1>7

(* Every step keeps the types.                                             *)
LEMMA TypeStep ==
    ASSUME TypeInv, [Next]_vars
    PROVE  TypeInv'
  <1> USE AgentAssumption
  <1> USE DEF TypeInv, TypeOK, LoopOK, Steps
  <1>1. CASE Startup
    <2>1. sessionDate' \in Nat /\ rebased' \in BOOLEAN
      BY <1>1, DateType DEF Startup, EnsureDailyState, daily
    <2> QED BY <1>1, <2>1 DEF Startup, ledger, stops, eod, local, environment, Held
  <1>2. CASE Crash
    BY <1>2 DEF Crash, NoLocal, Whole, ledger, stops, eod, daily, Held
  <1>3. CASE BeginCycle
    <2>1. sessionDate' \in Nat /\ rebased' \in BOOLEAN
      BY <1>3, DateType DEF BeginCycle, EnsureDailyState, daily
    <2> QED BY <1>3, <2>1 DEF BeginCycle, ledger, stops, eod, environment, Held
  <1>4. ASSUME NEW s \in Symbols, StopExit(s) PROVE TypeInv'
    <2>1. PICK q \in Quotes : CheckExitPrice(q) /\ Sell(s, q)
      BY <1>4 DEF StopExit, ExitQuotes, LatestQuotes
    <2>2. s \in Held
      BY <1>4 DEF StopExit
    <2>3. /\ cash' \in Int /\ realised' \in Int
          /\ netFilled' \in [Symbols -> Int]
          /\ Held' = Held \ {s}
          /\ positions' \in [Held' -> Position]
      BY <2>1, <2>2, SellTypes
    <2>4. lastStop' \in [Symbols -> Nat] /\ pc' = "cooldown" /\ stopped' = s
          /\ todo' = todo \ {s}
      BY <1>4 DEF StopExit
    <2> QED BY <1>4, <2>3, <2>4 DEF StopExit, eod, daily, environment
  <1>5. CASE StartCooldown
    BY <1>5 DEF StartCooldown, ledger, eod, daily, environment, Held
  <1>6. ASSUME NEW s \in Symbols, TargetOrForcedExit(s) PROVE TypeInv'
    <2>1. PICK q \in Quotes : CheckExitPrice(q) /\ Sell(s, q)
      BY <1>6 DEF TargetOrForcedExit, ExitQuotes, LatestQuotes
    <2>2. s \in Held
      BY <1>6 DEF TargetOrForcedExit
    <2>3. /\ cash' \in Int /\ realised' \in Int
          /\ netFilled' \in [Symbols -> Int]
          /\ Held' = Held \ {s}
          /\ positions' \in [Held' -> Position]
      BY <2>1, <2>2, SellTypes
    <2> QED BY <1>6, <2>3 DEF TargetOrForcedExit, stops, eod, daily, environment
  <1>7. ASSUME NEW s \in Symbols, KeepPosition(s) PROVE TypeInv'
    BY <1>7 DEF KeepPosition, ledger, stops, eod, daily, environment, Held
  <1>8. CASE MarkEquity
    BY <1>8 DEF MarkEquity, ledger, stops, eod, daily, environment, Held
  <1>9. CASE RecordEodSnapshot
    <2>1. Today \in Nat
      BY DateType DEF Today
    <2>2. DOMAIN marks' \subseteq Nat /\ lastEod' \in Nat
      BY <1>9, <2>1 DEF RecordEodSnapshot, eod
    <2> QED BY <1>9, <2>2 DEF RecordEodSnapshot, ledger, stops, daily, local, environment, Held
  <1>10. CASE OpenGate
    <2>1. sizeFactor' \in 0 .. Whole
      BY <1>10 DEF OpenGate, Whole
    <2> QED BY <1>10, <2>1 DEF OpenGate, ledger, stops, eod, daily, environment, Held
  <1>11. CASE TripBreaker
    BY <1>11 DEF TripBreaker, EndCycle, Whole, ledger, stops, eod, daily, environment, Held
  <1>12. CASE ShutGate
    BY <1>12 DEF ShutGate, EndCycle, Whole, ledger, stops, eod, daily, environment, Held
  <1>13. ASSUME NEW s \in Symbols, Enter(s) PROVE TypeInv'
    <2>1. PICK q \in Quotes, qty \in Nat \ {0} :
             CheckQuote(q) /\ HasBuyPrice(q) /\ Buy(s, qty, q)
      <3>1. \A qty \in 1 .. MaxGrossPosition : qty \in Nat \ {0}
        BY RiskAssumption
      <3> QED BY <1>13, <3>1 DEF Enter, LatestQuotes
    <2>2. /\ cash' \in Int /\ realised' \in Int
          /\ netFilled' \in [Symbols -> Int]
          /\ Held' = Held \cup {s}
          /\ positions' \in [Held' -> Position]
      BY <2>1, BuyTypes
    <2>3. buys' \in 0 .. MaxBuys
      BY <1>13 DEF Enter
    <2> QED BY <1>13, <2>2, <2>3 DEF Enter, stops, eod, daily
  <1>14. ASSUME NEW s \in Symbols, PassOver(s) PROVE TypeInv'
    BY <1>14 DEF PassOver, ledger, stops, eod, daily, environment, Held
  <1>15. CASE FinishCycle
    BY <1>15 DEF FinishCycle, EndCycle, Whole, ledger, stops, eod, daily, environment, Held
  <1>16. CASE Maintenance
    BY <1>16 DEF Maintenance, ledger, stops, eod, local, Held
  <1>17. CASE ToggleKillFile
    BY <1>17 DEF ToggleKillFile, ledger, stops, eod, daily, local, Held
  <1>18. CASE Tick
    BY <1>18 DEF Tick, DueAtNextTick, ledger, stops, eod, daily, local, Held
  <1>19. CASE UNCHANGED vars
    BY <1>19 DEF vars, ledger, stops, eod, daily, local, environment, Held
  <1> QED
    BY <1>1, <1>2, <1>3, <1>4, <1>5, <1>6, <1>7, <1>8, <1>9, <1>10, <1>11, <1>12,
       <1>13, <1>14, <1>15, <1>16, <1>17, <1>18, <1>19
       DEF Next, Agent, Exits, Gate, Entries

LEMMA InitTypes == Init => TypeInv
  <1> SUFFICES ASSUME Init PROVE TypeInv
    OBVIOUS
  <1>1. /\ clock \in Nat /\ cash \in Int /\ dailyStart = StartingCapital
        /\ {MaxToggles, MaxBuys, MaxCrashes} \subseteq Nat
    BY AgentAssumption DEF Init
  <1>2. due \in BOOLEAN /\ rebased \in BOOLEAN
    BY DEF Init
  <1> QED BY <1>1, <1>2 DEF Init, TypeInv, TypeOK, LoopOK, Steps, Held, Whole

LEMMA TypeInvariant == Spec => []TypeInv
  <1>1. TypeInv /\ [Next]_vars => TypeInv'
    BY TypeStep
  <1> QED BY <1>1, InitTypes, PTL DEF Spec

(* The state is well typed whatever the feed, the operator and the crashes *)
(* do: in particular no position of zero or negative quantity is stored    *)
(* (broker.py, both transactions).                                         *)
THEOREM Typing == Spec => []TypeOK
  <1>1. TypeInv => TypeOK
    BY DEF TypeInv
  <1> QED BY <1>1, TypeInvariant, PTL

-----------------------------------------------------------------------------
(* The ledger moves only by whole sales of held symbols and whole          *)
(* purchases of symbols that are not held.                                 *)

LEMMA LedgerStep ==
    ASSUME TypeInv, [Next]_vars
    PROVE  \/ UNCHANGED ledger
           \/ \E s \in Held, q \in Quotes : CheckExitPrice(q) /\ Sell(s, q)
           \/ \E s \in Symbols \ Held, q \in Quotes, qty \in Nat \ {0} :
                 CheckQuote(q) /\ HasBuyPrice(q) /\ Buy(s, qty, q)
  <1>1. ASSUME NEW s \in Symbols, StopExit(s) \/ TargetOrForcedExit(s)
        PROVE  s \in Held /\ \E q \in Quotes : CheckExitPrice(q) /\ Sell(s, q)
    <2>1. s \in Held
      BY <1>1 DEF StopExit, TargetOrForcedExit, TypeInv, LoopOK
    <2>2. \E q \in Quotes : CheckExitPrice(q) /\ Sell(s, q)
      BY <1>1 DEF StopExit, TargetOrForcedExit, ExitQuotes, LatestQuotes
    <2> QED BY <2>1, <2>2
  <1>2. ASSUME NEW s \in Symbols, Enter(s)
        PROVE  s \notin Held /\ \E q \in Quotes, qty \in Nat \ {0} :
                  CheckQuote(q) /\ HasBuyPrice(q) /\ Buy(s, qty, q)
    <2>1. s \notin Held
      BY <1>2 DEF Enter, MayBeEligible
    <2>2. \A qty \in 1 .. MaxGrossPosition : qty \in Nat \ {0}
      BY RiskAssumption
    <2> QED BY <1>2, <2>1, <2>2 DEF Enter, LatestQuotes
  <1>3. ASSUME NEW s \in Symbols, KeepPosition(s) \/ PassOver(s)
        PROVE  UNCHANGED ledger
    BY <1>3 DEF KeepPosition, PassOver
  <1>4. CASE Startup \/ Crash \/ BeginCycle \/ StartCooldown \/ FinishCycle
    BY <1>4 DEF Startup, Crash, BeginCycle, StartCooldown, FinishCycle
  <1>5. CASE Gate
    BY <1>5 DEF Gate, MarkEquity, RecordEodSnapshot, OpenGate, TripBreaker, ShutGate
  <1>6. CASE Maintenance \/ ToggleKillFile \/ Tick
    BY <1>6 DEF Maintenance, ToggleKillFile, Tick
  <1>7. CASE UNCHANGED vars
    BY <1>7 DEF vars
  <1> QED
    BY <1>1, <1>2, <1>3, <1>4, <1>5, <1>6, <1>7 DEF Next, Agent, Exits, Entries

(* The fills of a symbol always add up to its open position: nothing is    *)
(* sold twice, and no purchase replaces a position (broker.py).            *)
THEOREM FillsMatch == Spec => []FillsMatchPositions
  <1>1. Init => FillsMatchPositions
    BY DEF Init, FillsMatchPositions, Held
  <1>2. ASSUME TypeInv, FillsMatchPositions, [Next]_vars
        PROVE  FillsMatchPositions'
    <2>1. CASE UNCHANGED ledger
      BY <1>2, <2>1 DEF ledger, FillsMatchPositions, Held
    <2>2. ASSUME NEW s \in Held, NEW q \in Quotes, CheckExitPrice(q), Sell(s, q)
          PROVE  FillsMatchPositions'
      <3>1. s \in Symbols /\ positions[s].qty \in Nat
        BY <1>2 DEF TypeInv, TypeOK, Position
      <3>2. Held' = Held \ {s}
        BY <1>2, <2>2, SellTypes
      <3>3. netFilled'[s] = 0
        BY <1>2, <2>2, <3>1 DEF Sell, FillsMatchPositions, TypeInv, TypeOK
      <3>4. ASSUME NEW x \in Symbols, x # s
            PROVE  /\ netFilled'[x] = netFilled[x]
                   /\ x \in Held => positions'[x] = positions[x]
        BY <1>2, <2>2, <3>4 DEF Sell, TypeInv, TypeOK
      <3> QED BY <1>2, <3>2, <3>3, <3>4 DEF FillsMatchPositions
    <2>3. ASSUME NEW s \in Symbols \ Held, NEW q \in Quotes, NEW qty \in Nat \ {0},
                 CheckQuote(q), HasBuyPrice(q), Buy(s, qty, q)
          PROVE  FillsMatchPositions'
      <3>1. Held' = Held \cup {s} /\ positions'[s].qty = qty
        BY <1>2, <2>3, BuyTypes
      <3>2. netFilled'[s] = qty
        BY <1>2, <2>3 DEF Buy, FillsMatchPositions, TypeInv, TypeOK
      <3>3. ASSUME NEW x \in Symbols, x # s
            PROVE  /\ netFilled'[x] = netFilled[x]
                   /\ x \in Held => positions'[x] = positions[x]
        BY <1>2, <2>3, <3>3 DEF Buy, TypeInv, TypeOK
      <3> QED BY <1>2, <3>1, <3>2, <3>3 DEF FillsMatchPositions
    <2> QED BY <1>2, <2>1, <2>2, <2>3, LedgerStep
  <1>3. TypeInv /\ FillsMatchPositions /\ [Next]_vars => FillsMatchPositions'
    BY <1>2
  <1> QED BY <1>1, <1>3, TypeInvariant, PTL DEF Spec

(* When one share always sells for at least the fee, cash never falls      *)
(* below the reserve, whatever is bought and sold (broker.py buy).         *)
THEOREM CashAboveReserve == Spec => []ReserveKept
  <1>1. Init => ReserveKept
    BY AgentAssumption DEF Init, ReserveKept
  <1>2. ASSUME TypeInv, ReserveKept, [Next]_vars
        PROVE  ReserveKept'
    <2>1. SaleCoversFee' = SaleCoversFee
      BY DEF SaleCoversFee, CheckExitPrice, Usable, SellPrice
    <2>2. SUFFICES ASSUME SaleCoversFee PROVE cash' >= MinimumCashReserve
      BY <2>1 DEF ReserveKept
    <2>3. cash >= MinimumCashReserve /\ cash \in Int /\ MinimumCashReserve \in Int
      BY <1>2, <2>2, RiskAssumption DEF ReserveKept, TypeInv, TypeOK
    <2>4. CASE UNCHANGED ledger
      BY <2>3, <2>4 DEF ledger
    <2>5. ASSUME NEW s \in Held, NEW q \in Quotes, CheckExitPrice(q), Sell(s, q)
          PROVE  cash' >= MinimumCashReserve
      <3> DEFINE price == SellPrice(q)
                 qty == positions[s].qty
      <3>1. price \in Int /\ SellFee \in Nat /\ price >= SellFee
        BY <2>2, <2>5, SellPriceType, RiskAssumption DEF SaleCoversFee
      <3>2. qty \in Nat \ {0}
        BY <1>2 DEF TypeInv, TypeOK, Position
      <3>3. cash' = cash + (price * qty - SellFee)
        BY <2>5 DEF Sell
      <3> HIDE DEF price, qty
      <3>4. price * qty >= price
        BY <3>1, <3>2
      <3>5. price * qty \in Int
        BY <3>1, <3>2
      <3> QED BY <2>3, <3>1, <3>3, <3>4, <3>5
    <2>6. ASSUME NEW s \in Symbols \ Held, NEW q \in Quotes, NEW qty \in Nat \ {0},
                 CheckQuote(q), HasBuyPrice(q), Buy(s, qty, q)
          PROVE  cash' >= MinimumCashReserve
      <3>1. BuyPrice(q) * qty + BuyFee \in Int
        BY <2>6, BuyPriceType, RiskAssumption
      <3> QED BY <2>3, <2>6, <3>1 DEF Buy
    <2> QED BY <1>2, <2>4, <2>5, <2>6, LedgerStep
  <1>3. TypeInv /\ ReserveKept /\ [Next]_vars => ReserveKept'
    BY <1>2
  <1> QED BY <1>1, <1>3, TypeInvariant, PTL DEF Spec

-----------------------------------------------------------------------------
(* Induction, and the sums over finite sets that it tells of.              *)

(* A set of naturals has a least member.                                   *)
LEMMA Least ==
    ASSUME NEW T, T \subseteq Nat, T # {}
    PROVE  \E n \in T : \A m \in T : n <= m
  <1>1. PICK x \in T : \A y \in T : ~(<<y, x>> \in OpToRel(<, Nat))
    BY NatLessThanWellFounded, WFMin, Zenon
  <1>2. \A y \in T : ~(y < x)
    BY <1>1 DEF OpToRel
  <1> QED BY <1>2

(* What holds at 0 and is handed on up to N holds up to N.                 *)
LEMMA Induction ==
    ASSUME NEW N \in Nat, NEW S, 0 \in S,
           \A n \in 0 .. N - 1 : n \in S => n + 1 \in S
    PROVE  0 .. N \subseteq S
  <1> SUFFICES ASSUME ~(0 .. N \subseteq S) PROVE FALSE
    OBVIOUS
  <1> DEFINE T == (0 .. N) \ S
  <1>1. PICK n \in T : \A m \in T : n <= m
    <2>1. T \subseteq Nat /\ T # {}
      OBVIOUS
    <2> HIDE DEF T
    <2> QED BY <2>1, Least
  <1>2. n - 1 \in 0 .. N - 1 /\ n - 1 \in S
    BY <1>1
  <1> QED BY <1>1, <1>2

(* Sums over finite sets, as the folds of the community modules define     *)
(* them: an element that CHOOSE takes, and the sum of the others.          *)

First(s) == CHOOSE x \in s : TRUE

AddsUp(g, f, D) ==
    g = [s \in SUBSET D |-> IF s = {} THEN 0 ELSE f[First(s)] + g[s \ {First(s)}]]

Total(f, D) == (CHOOSE g : AddsUp(g, f, D))[D]

Summable(f, D) == IsFiniteSet(D) /\ \A x \in D : f[x] \in Int

(* The subsets of a finite set by their number of elements.                *)
OfSize(n, D) == {s \in SUBSET D : Cardinality(s) = n}
UpToSize(n, D) == {s \in SUBSET D : Cardinality(s) <= n}

LEMMA Sizes ==
    ASSUME NEW D, IsFiniteSet(D)
    PROVE  /\ Cardinality(D) \in Nat /\ OfSize(0, D) = {{}}
           /\ \A s \in SUBSET D : IsFiniteSet(s) /\ Cardinality(s) \in 0 .. Cardinality(D)
  BY FS_CardinalityType, FS_EmptySet, FS_Subset DEF OfSize

LEMMA WithoutFirst ==
    ASSUME NEW D, IsFiniteSet(D), NEW n \in Nat, NEW s \in OfSize(n + 1, D)
    PROVE  s # {} /\ First(s) \in s /\ s \ {First(s)} \in OfSize(n, D)
  <1>1. IsFiniteSet(s) /\ Cardinality(s) = n + 1
    BY Sizes DEF OfSize
  <1>2. s # {}
    BY <1>1, FS_EmptySet
  <1>3. First(s) \in s
    BY <1>2 DEF First
  <1>4. Cardinality(s \ {First(s)}) = Cardinality(s) - 1
    BY <1>1, <1>3, FS_RemoveElement
  <1>5. Cardinality(s \ {First(s)}) = n
    BY <1>1, <1>4
  <1> QED BY <1>2, <1>3, <1>5 DEF OfSize

(* The sums over the subsets of a finite set exist.                        *)
LEMMA SumsExist ==
    ASSUME NEW D, NEW f, Summable(f, D)
    PROVE  \E g \in [SUBSET D -> Int] : AddsUp(g, f, D)
  <1> DEFINE Sums(g, n) == \A s \in UpToSize(n, D) :
                g[s] = IF s = {} THEN 0 ELSE f[First(s)] + g[s \ {First(s)}]
             T == {n \in 0 .. Cardinality(D) : \E g \in [UpToSize(n, D) -> Int] : Sums(g, n)}
  <1> USE DEF Summable
  <1>1. 0 \in T
    <2>1. \A s \in UpToSize(0, D) : s = {}
      BY Sizes, FS_EmptySet DEF UpToSize
    <2>2. Sums([s \in UpToSize(0, D) |-> 0], 0)
      BY <2>1
    <2>3. [s \in UpToSize(0, D) |-> 0] \in [UpToSize(0, D) -> Int]
      OBVIOUS
    <2> HIDE DEF Sums
    <2> QED BY <2>2, <2>3, Sizes
  <1>2. ASSUME NEW n \in 0 .. Cardinality(D) - 1, n \in T
        PROVE  n + 1 \in T
    <2>1. PICK g \in [UpToSize(n, D) -> Int] : Sums(g, n)
      BY <1>2
    <2> DEFINE h == [s \in UpToSize(n + 1, D) |->
                        IF s = {} THEN 0 ELSE f[First(s)] + g[s \ {First(s)}]]
    <2>2. ASSUME NEW s \in UpToSize(n + 1, D), s # {}
          PROVE  f[First(s)] \in Int /\ s \ {First(s)} \in UpToSize(n, D)
      <3>1. IsFiniteSet(s) /\ Cardinality(s) \in Nat /\ Cardinality(s) <= n + 1 /\ s \in SUBSET D
        BY Sizes DEF UpToSize
      <3>2. First(s) \in s
        BY <2>2 DEF First
      <3>3. Cardinality(s \ {First(s)}) = Cardinality(s) - 1
        BY <3>1, <3>2, FS_RemoveElement
      <3> QED BY <3>1, <3>2, <3>3, Sizes DEF UpToSize
    <2>3. h \in [UpToSize(n + 1, D) -> Int]
      BY <2>1, <2>2
    <2>4. \A s \in UpToSize(n, D) : s \in UpToSize(n + 1, D) /\ h[s] = g[s]
      <3>1. UpToSize(n, D) \subseteq UpToSize(n + 1, D)
        BY Sizes DEF UpToSize
      <3> QED BY <2>1, <3>1
    <2>5. Sums(h, n + 1)
      BY <2>2, <2>4
    <2> HIDE DEF Sums, h
    <2> QED BY <2>3, <2>5, Sizes
  <1>3. Cardinality(D) \in T
    <2> HIDE DEF T
    <2> QED BY <1>1, <1>2, Sizes, Induction
  <1>4. PICK g \in [UpToSize(Cardinality(D), D) -> Int] : Sums(g, Cardinality(D))
    BY <1>3
  <1>5. UpToSize(Cardinality(D), D) = SUBSET D
    BY Sizes DEF UpToSize
  <1> QED BY <1>4, <1>5 DEF AddsUp

(* They depend only on the values of the members, and not on the set that  *)
(* the subsets are taken from.                                             *)
LEMMA SumsAgree ==
    ASSUME NEW D, IsFiniteSet(D), NEW E \in SUBSET D, NEW g, NEW h, NEW f, NEW e,
           AddsUp(g, f, D), AddsUp(h, e, E), \A x \in E : f[x] = e[x]
    PROVE  g[E] = h[E]
  <1> DEFINE T == {n \in 0 .. Cardinality(E) : \A s \in OfSize(n, E) : g[s] = h[s]}
  <1>1. IsFiniteSet(E) /\ Cardinality(E) \in Nat /\ E \in OfSize(Cardinality(E), E)
    BY Sizes DEF OfSize
  <1>2. \A s \in SUBSET E :
           /\ g[s] = IF s = {} THEN 0 ELSE f[First(s)] + g[s \ {First(s)}]
           /\ h[s] = IF s = {} THEN 0 ELSE e[First(s)] + h[s \ {First(s)}]
    BY DEF AddsUp
  <1>3. 0 \in T
    <2>1. g[{}] = 0 /\ h[{}] = 0
      BY <1>2
    <2>2. OfSize(0, E) = {{}}
      BY <1>1, Sizes
    <2>3. \A s \in OfSize(0, E) : g[s] = h[s]
      BY <2>1, <2>2, Zenon
    <2> QED BY <1>1, <2>3
  <1>4. ASSUME NEW n \in 0 .. Cardinality(E) - 1, n \in T PROVE n + 1 \in T
    <2>1. ASSUME NEW s \in OfSize(n + 1, E) PROVE g[s] = h[s]
      <3>1. s # {} /\ First(s) \in s /\ s \ {First(s)} \in OfSize(n, E) /\ s \in SUBSET E
        BY <1>1, WithoutFirst DEF OfSize
      <3> QED BY <1>2, <1>4, <3>1
    <2> QED BY <1>1, <2>1
  <1>5. Cardinality(E) \in T
    <2> HIDE DEF T
    <2> QED BY <1>1, <1>3, <1>4, Induction
  <1> QED BY <1>1, <1>5

(* All sums over the subsets of a finite set at once.                      *)
AreTotals(g, f, D) ==
    g \in [SUBSET D -> Int] /\ AddsUp(g, f, D) /\ \A E \in SUBSET D : Total(f, E) = g[E]

LEMMA Totals ==
    ASSUME NEW D, NEW f, Summable(f, D)
    PROVE  \E g : AreTotals(g, f, D)
  <1>1. PICK g \in [SUBSET D -> Int] : AddsUp(g, f, D)
    BY SumsExist
  <1>2. ASSUME NEW E \in SUBSET D PROVE Total(f, E) = g[E]
    <2>1. \E h : AddsUp(h, f, E)
      <3>1. Summable(f, E)
        BY Sizes DEF Summable
      <3> QED BY <3>1, SumsExist
    <2>2. AddsUp(CHOOSE h : AddsUp(h, f, E), f, E)
      BY <2>1
    <2> QED BY <1>1, <2>2, SumsAgree DEF Total, Summable
  <1> QED BY <1>1, <1>2 DEF AreTotals

LEMMA TotalType ==
    ASSUME NEW D, NEW f, Summable(f, D)
    PROVE  Total(f, D) \in Int
  <1>1. PICK g : AreTotals(g, f, D)
    BY Totals
  <1> QED BY <1>1 DEF AreTotals

LEMMA TotalOfNone == ASSUME NEW f PROVE Total(f, {}) = 0
  <1>1. Summable(f, {})
    BY FS_EmptySet DEF Summable
  <1>2. PICK g : AreTotals(g, f, {})
    BY <1>1, Totals
  <1> QED BY <1>2 DEF AreTotals, AddsUp

LEMMA TotalAgrees ==
    ASSUME NEW D, NEW f, NEW e, Summable(f, D), \A x \in D : f[x] = e[x]
    PROVE  Total(f, D) = Total(e, D)
  <1>1. PICK g : AreTotals(g, f, D)
    BY Totals
  <1>2. Summable(e, D)
    BY DEF Summable
  <1>3. PICK h : AreTotals(h, e, D)
    BY <1>2, Totals
  <1>4. g[D] = h[D]
    BY <1>1, <1>3, SumsAgree DEF Summable, AreTotals
  <1> QED BY <1>1, <1>3, <1>4 DEF AreTotals

(* Any member may be the one that is added last.                           *)
LEMMA TotalWithout ==
    ASSUME NEW D, NEW f, Summable(f, D), NEW y \in D
    PROVE  Total(f, D) = f[y] + Total(f, D \ {y})
  <1>1. PICK g : AreTotals(g, f, D)
    BY Totals
  <1> DEFINE T == {n \in 0 .. Cardinality(D) :
                      \A s \in OfSize(n, D) : \A x \in s : g[s] = f[x] + g[s \ {x}]}
  <1> USE DEF Summable
  <1>2. \A s \in SUBSET D :
           g[s] = IF s = {} THEN 0 ELSE f[First(s)] + g[s \ {First(s)}]
    BY <1>1 DEF AreTotals, AddsUp
  <1>3. 0 \in T
    BY Sizes
  <1>4. ASSUME NEW n \in 0 .. Cardinality(D) - 1, n \in T PROVE n + 1 \in T
    <2>1. n \in Nat /\ n + 1 \in 0 .. Cardinality(D)
      BY Sizes
    <2>2. ASSUME NEW s \in OfSize(n + 1, D), NEW x \in s PROVE g[s] = f[x] + g[s \ {x}]
      <3> DEFINE first == First(s)
      <3>1. s # {} /\ first \in s /\ s \ {first} \in OfSize(n, D) /\ s \in SUBSET D
        BY <2>1, WithoutFirst DEF OfSize
      <3>2. g[s] = f[first] + g[s \ {first}]
        BY <1>2, <3>1
      <3>3. CASE x = first
        BY <3>2, <3>3
      <3>4. CASE x # first
        <4>1. g[s \ {first}] = f[x] + g[(s \ {first}) \ {x}]
          BY <1>4, <3>1, <3>4
        <4>2. s \ {x} \in OfSize(n, D)
          <5>1. IsFiniteSet(s) /\ Cardinality(s) = n + 1
            BY <3>1, Sizes DEF OfSize
          <5> QED BY <2>1, <3>1, <5>1, FS_RemoveElement DEF OfSize
        <4>3. g[s \ {x}] = f[first] + g[(s \ {x}) \ {first}]
          BY <1>4, <3>1, <3>4, <4>2
        <4>4. (s \ {first}) \ {x} = (s \ {x}) \ {first}
          OBVIOUS
        <4>5. /\ f[x] \in Int /\ f[first] \in Int
              /\ g[(s \ {x}) \ {first}] \in Int
          BY <1>1, <3>1 DEF AreTotals
        <4>6. g[s] = f[first] + (f[x] + g[(s \ {x}) \ {first}])
          BY <3>2, <4>1, <4>4
        <4> HIDE DEF first
        <4> QED BY <4>3, <4>5, <4>6
      <3> QED BY <3>3, <3>4
    <2> QED BY <2>1, <2>2
  <1>5. Cardinality(D) \in T
    <2> HIDE DEF T
    <2> QED BY <1>3, <1>4, Sizes, Induction
  <1>6. D \in OfSize(Cardinality(D), D)
    BY DEF OfSize
  <1>7. g[D] = f[y] + g[D \ {y}]
    BY <1>5, <1>6
  <1> QED BY <1>1, <1>7 DEF AreTotals

-----------------------------------------------------------------------------
(* What was paid for the open positions.                                   *)
Costs == [s \in Held |-> Cost(positions[s])]

LEMMA CostsType ==
    ASSUME TypeInv, IsFiniteSet(Held)
    PROVE  Summable(Costs, Held)
  <1>1. \A s \in Held : positions[s] \in Position
    BY DEF TypeInv, TypeOK
  <1>2. \A p \in Position : Cost(p) \in Int
    BY DEF Position, Cost
  <1> QED BY <1>1, <1>2 DEF Summable, Costs

LEMMA CostIsTotal ==
    ASSUME TypeInv, IsFiniteSet(Held)
    PROVE  MapThenSumSet(LAMBDA s : Cost(positions[s]), Held) = Total(Costs, Held)
  <1> DEFINE Def(g) == g = [s \in SUBSET Held |->
                IF s = {} THEN 0 ELSE Cost(positions[First(s)]) + g[s \ {First(s)}]]
  <1>1. MapThenSumSet(LAMBDA s : Cost(positions[s]), Held) = (CHOOSE g : Def(g))[Held]
    BY DEF MapThenSumSet, MapThenFoldSet, First
  <1>2. \A s \in SUBSET Held : s # {} => Cost(positions[First(s)]) = Costs[First(s)]
    <2>1. \A s \in SUBSET Held : s # {} => First(s) \in Held
      BY DEF First
    <2> QED BY <2>1 DEF Costs
  <1>3. \A g : Def(g) <=> AddsUp(g, Costs, Held)
    <2> SUFFICES ASSUME NEW g PROVE Def(g) <=> AddsUp(g, Costs, Held)
      OBVIOUS
    <2>1. [s \in SUBSET Held |->
              IF s = {} THEN 0 ELSE Cost(positions[First(s)]) + g[s \ {First(s)}]]
          = [s \in SUBSET Held |->
              IF s = {} THEN 0 ELSE Costs[First(s)] + g[s \ {First(s)}]]
      BY <1>2
    <2> QED BY <2>1 DEF AddsUp
  <1> HIDE DEF Def
  <1>4. PICK h : AreTotals(h, Costs, Held)
    BY CostsType, Totals
  <1>5. AddsUp(CHOOSE g : Def(g), Costs, Held)
    BY <1>3, <1>4 DEF AreTotals
  <1>6. h[Held] = (CHOOSE g : Def(g))[Held]
    BY <1>4, <1>5, SumsAgree DEF AreTotals
  <1> QED BY <1>1, <1>4, <1>6 DEF AreTotals

Balanced == IsFiniteSet(Held) /\ LedgerBalances

LEMMA BalanceStep ==
    ASSUME TypeInv, Balanced, [Next]_vars
    PROVE  Balanced'
  <1>1. cash + Total(Costs, Held) = StartingCapital + realised
    BY CostIsTotal DEF Balanced, LedgerBalances
  <1>2. TypeInv'
    BY TypeStep
  <1>3. Summable(Costs, Held)
    BY CostsType DEF Balanced
  <1>4. /\ StartingCapital \in Int /\ cash \in Int /\ realised \in Int
        /\ Total(Costs, Held) \in Int
    BY <1>3, TotalType, AgentAssumption DEF TypeInv, TypeOK
  <1>5. ASSUME IsFiniteSet(Held'),
               cash' + Total(Costs', Held') = StartingCapital + realised'
        PROVE  Balanced'
    <2>1. (TypeInv /\ IsFiniteSet(Held) =>
              MapThenSumSet(LAMBDA s : Cost(positions[s]), Held) = Total(Costs, Held))'
      BY CostIsTotal, PTL
    <2> QED BY <1>2, <1>5, <2>1 DEF Balanced, LedgerBalances
  <1>6. CASE UNCHANGED ledger
    BY <1>1, <1>5, <1>6 DEF ledger, Balanced, Held, Costs
  <1>7. ASSUME NEW s \in Held, NEW q \in Quotes, CheckExitPrice(q), Sell(s, q)
        PROVE  Balanced'
    <2> DEFINE p == positions[s]
               proceeds == SellPrice(q) * p.qty - SellFee
    <2>1. p \in Position /\ p.qty \in Int /\ p.entry * p.qty \in Int /\ p.fee \in Int
      BY DEF TypeInv, TypeOK, Position
    <2>2. proceeds \in Int
      BY <1>7, <2>1, SellPriceType, RiskAssumption
    <2>3. Costs[s] = p.entry * p.qty + p.fee
      BY DEF Costs, Cost
    <2>4. Held' = Held \ {s} /\ IsFiniteSet(Held')
      BY <1>7, SellTypes, FS_RemoveElement DEF Balanced
    <2>5. Total(Costs, Held) = Costs[s] + Total(Costs, Held')
      BY <1>3, <2>4, TotalWithout
    <2>6. Summable(Costs, Held')
      BY <1>3, <2>4 DEF Summable
    <2>7. \A x \in Held' : Costs[x] = Costs'[x]
      <3>1. \A x \in Held' : x \in Held /\ positions'[x] = positions[x]
        BY <1>7, <2>4 DEF Sell
      <3> QED BY <3>1 DEF Costs, Cost
    <2>8. Total(Costs', Held') = Total(Costs, Held') /\ Total(Costs, Held') \in Int
      BY <2>6, <2>7, TotalAgrees, TotalType
    <2>9. /\ cash' = cash + proceeds
          /\ realised' = realised + proceeds - p.entry * p.qty - p.fee
      BY <1>7 DEF Sell
    <2>10. cash' + Total(Costs', Held') = StartingCapital + realised'
      <3> HIDE DEF p, proceeds
      <3> QED BY <1>1, <1>4, <2>1, <2>2, <2>3, <2>5, <2>8, <2>9
    <2> QED BY <1>5, <2>4, <2>10
  <1>8. ASSUME NEW s \in Symbols \ Held, NEW q \in Quotes, NEW qty \in Nat \ {0},
               CheckQuote(q), HasBuyPrice(q), Buy(s, qty, q)
        PROVE  Balanced'
    <2> DEFINE total == BuyPrice(q) * qty + BuyFee
    <2>1. total \in Int
      BY <1>8, BuyPriceType, RiskAssumption
    <2>2. Held' = Held \cup {s} /\ IsFiniteSet(Held')
      BY <1>8, BuyTypes, FS_AddElement DEF Balanced
    <2>3. Costs'[s] = total /\ \A x \in Held : Costs'[x] = Costs[x]
      BY <1>8, <2>2 DEF Buy, Costs, Cost
    <2>4. Summable(Costs', Held')
      BY <1>3, <2>1, <2>2, <2>3 DEF Summable
    <2>5. Total(Costs', Held') = Costs'[s] + Total(Costs', Held' \ {s})
      BY <2>2, <2>4, TotalWithout
    <2>6. Held' \ {s} = Held /\ Total(Costs', Held) = Total(Costs, Held)
      BY <1>3, <2>2, <2>3, TotalAgrees
    <2>7. cash' = cash - total /\ realised' = realised
      BY <1>8 DEF Buy
    <2>8. cash' + Total(Costs', Held') = StartingCapital + realised'
      <3> HIDE DEF total
      <3>1. Total(Costs', Held') = total + Total(Costs, Held)
        BY <2>3, <2>5, <2>6
      <3> QED BY <1>1, <1>4, <2>1, <2>7, <3>1
    <2> QED BY <1>5, <2>2, <2>8
  <1> QED BY <1>6, <1>7, <1>8, LedgerStep

(* The tables always agree on money: what was paid in and what the closed  *)
(* trades earned is the cash and the cost of the open positions, through   *)
(* every sale, purchase and crash (broker.py, both transactions).          *)
THEOREM LedgerBalance == Spec => []LedgerBalances
  <1>1. Init => Balanced
    <2> SUFFICES ASSUME Init PROVE Balanced
      OBVIOUS
    <2>1. Held = {} /\ IsFiniteSet(Held)
      BY FS_EmptySet DEF Init, Held
    <2>2. TypeInv
      BY InitTypes
    <2>3. Total(Costs, Held) = 0
      BY <2>1, TotalOfNone
    <2> QED BY <2>1, <2>2, <2>3, CostIsTotal, AgentAssumption DEF Init, Balanced, LedgerBalances
  <1>2. TypeInv /\ Balanced /\ [Next]_vars => Balanced'
    BY BalanceStep
  <1>3. Balanced => LedgerBalances
    BY DEF Balanced
  <1> QED BY <1>1, <1>2, <1>3, TypeInvariant, PTL DEF Spec

-----------------------------------------------------------------------------
(* The end-of-day marks.  A cycle writes the mark of the date it began on, *)
(* which is why the newest mark is never newer than that date.             *)

MarkInv ==
    /\ EodStateIsNewestMark
    /\ now <= clock /\ lastEod <= Date(clock)
    /\ pc \notin {"down", "sleep"} => lastEod <= Date(now)

(* Outside RecordEodSnapshot no step touches the marks or their keys.      *)
LEMMA EodFrame ==
    ASSUME [Next]_vars, ~RecordEodSnapshot
    PROVE  UNCHANGED eod
  <1>1. CASE Startup \/ Crash \/ BeginCycle \/ Exits
    BY <1>1 DEF Startup, Crash, BeginCycle, Exits, StartCooldown, StopExit,
                TargetOrForcedExit, KeepPosition
  <1>2. CASE MarkEquity \/ OpenGate \/ TripBreaker \/ ShutGate \/ Entries
    BY <1>2 DEF MarkEquity, OpenGate, TripBreaker, ShutGate, Entries, FinishCycle,
                Enter, PassOver
  <1>3. CASE Maintenance \/ ToggleKillFile \/ Tick \/ UNCHANGED vars
    BY <1>3 DEF Maintenance, ToggleKillFile, Tick, vars
  <1> QED BY <1>1, <1>2, <1>3 DEF Next, Agent, Gate

(* The instant a cycle works with is taken when it begins.                 *)
LEMMA ClockFrame ==
    ASSUME [Next]_vars
    PROVE  /\ clock' = clock \/ (clock' = clock + 1 /\ UNCHANGED <<now, pc>>)
           /\ \/ now' = now /\ (pc' \notin {"down", "sleep"} => pc \notin {"down", "sleep"})
              \/ now' = clock /\ clock' = clock
              \/ now' = 0 /\ pc' = "down" /\ clock' = clock
  <1>1. CASE Startup \/ Crash \/ BeginCycle \/ Exits
    BY <1>1 DEF Startup, Crash, NoLocal, BeginCycle, Exits, StartCooldown, StopExit,
                TargetOrForcedExit, KeepPosition, environment, local
  <1>2. CASE Gate \/ Entries
    BY <1>2 DEF Gate, MarkEquity, RecordEodSnapshot, OpenGate, TripBreaker, ShutGate,
                EndCycle, GateReached, Entries, FinishCycle, Enter, PassOver,
                environment, local
  <1>3. CASE Maintenance \/ ToggleKillFile \/ Tick \/ UNCHANGED vars
    BY <1>3 DEF Maintenance, ToggleKillFile, Tick, vars, environment, local
  <1> QED BY <1>1, <1>2, <1>3 DEF Next, Agent

LEMMA MarkStep ==
    ASSUME TypeInv, MarkInv, [Next]_vars
    PROVE  MarkInv'
  <1>1. /\ now \in Nat /\ clock \in Nat /\ lastEod \in Nat /\ now <= clock
        /\ DOMAIN marks \subseteq Nat
    BY DEF TypeInv, TypeOK, MarkInv
  <1>2. /\ Date(now) \in Nat /\ Date(clock) \in Nat /\ Date(clock + 1) \in Nat
        /\ Date(now) <= Date(clock) /\ Date(clock) <= Date(clock + 1)
    BY <1>1, DateType, DateMonotone
  <1>3. CASE RecordEodSnapshot
    <2>1. /\ pc = "eod" /\ pc' = "gate" /\ now' = now /\ clock' = clock
          /\ lastEod <= Today /\ Today \in Nat
      BY <1>2, <1>3 DEF RecordEodSnapshot, local, environment, MarkInv, Today
    <2>2. CASE Today \in DOMAIN marks
      BY <1>3, <2>1, <2>2 DEF RecordEodSnapshot, eod, MarkInv, EodStateIsNewestMark
    <2>3. CASE Today \notin DOMAIN marks
      <3>1. /\ DOMAIN marks' = DOMAIN marks \cup {Today}
            /\ marks'[Today] = equity /\ lastEod' = Today /\ lastEodEquity' = <<equity>>
        BY <1>3, <2>3 DEF RecordEodSnapshot
      <3>2. \A d \in DOMAIN marks' : d <= lastEod'
        BY <1>1, <2>1, <3>1 DEF MarkInv, EodStateIsNewestMark
      <3>3. EodStateIsNewestMark'
        BY <3>1, <3>2 DEF EodStateIsNewestMark
      <3> QED BY <1>1, <1>2, <2>1, <3>1, <3>3 DEF MarkInv, Today
    <2> QED BY <2>2, <2>3
  <1>4. CASE ~RecordEodSnapshot
    <2>1. UNCHANGED <<marks, lastEod, lastEodEquity>>
      BY <1>4, EodFrame DEF eod
    <2>2. EodStateIsNewestMark'
      BY <2>1 DEF MarkInv, EodStateIsNewestMark
    <2>3. now' <= clock' /\ lastEod' <= Date(clock')
      BY <1>1, <1>2, <2>1, ClockFrame DEF MarkInv
    <2>4. pc' \notin {"down", "sleep"} => lastEod' <= Date(now')
      BY <1>1, <1>2, <2>1, ClockFrame DEF MarkInv
    <2> QED BY <2>2, <2>3, <2>4 DEF MarkInv
  <1> QED BY <1>3, <1>4

(* Whatever crashes and whenever days are missed, the keys the next day's  *)
(* baseline is read from describe the newest mark (record_eod_snapshot).   *)
THEOREM KeysFollowMarks == Spec => []EodStateIsNewestMark
  <1>1. Init => MarkInv
    <2> SUFFICES ASSUME Init PROVE MarkInv
      OBVIOUS
    <2>1. StartTime \in Nat /\ Date(StartTime) \in Nat
      BY AgentAssumption, DateType
    <2> QED BY <2>1 DEF Init, MarkInv, EodStateIsNewestMark
  <1>2. TypeInv /\ MarkInv /\ [Next]_vars => MarkInv'
    BY MarkStep
  <1>3. MarkInv => EodStateIsNewestMark
    BY DEF MarkInv
  <1> QED BY <1>1, <1>2, <1>3, TypeInvariant, PTL DEF Spec

(* No step of the agent or of anything around it rewrites a recorded mark. *)
THEOREM FinalMarks == Spec => MarksAreFinal
  <1> DEFINE Kept == \A d \in DOMAIN marks : d \in DOMAIN marks' /\ marks'[d] = marks[d]
  <1>1. [Next]_vars => [Kept]_marks
    <2> SUFFICES ASSUME [Next]_vars PROVE [Kept]_marks
      OBVIOUS
    <2>1. CASE RecordEodSnapshot
      BY <2>1 DEF RecordEodSnapshot, eod
    <2>2. CASE ~RecordEodSnapshot
      BY <2>2, EodFrame DEF eod
    <2> QED BY <2>1, <2>2
  <1> QED BY <1>1, PTL DEF Spec, MarksAreFinal

-----------------------------------------------------------------------------
(* Entries.  The gate is decided once and used in later steps of the cycle *)
(* while other processes run: what it saw must still hold then.            *)

EntryInv == pc = "entries" => EntriesAllowed(now)

(* Only OpenGate leads to the entry loop, and the loop keeps what the gate *)
(* looked at.                                                              *)
LEMMA EntryFrame ==
    ASSUME [Next]_vars, pc' = "entries"
    PROVE  \/ OpenGate
           \/ /\ pc = "entries" /\ UNCHANGED <<marks, now, equity>>
              /\ rebased' = rebased \/ rebased'
  <1>1. CASE Startup \/ Crash \/ BeginCycle
    BY <1>1 DEF Startup, Crash, BeginCycle
  <1>2. CASE Exits
    BY <1>2 DEF Exits, StartCooldown, StopExit, TargetOrForcedExit, KeepPosition
  <1>3. CASE MarkEquity \/ RecordEodSnapshot \/ TripBreaker \/ ShutGate
    BY <1>3 DEF MarkEquity, RecordEodSnapshot, TripBreaker, ShutGate, EndCycle
  <1>4. CASE Entries
    BY <1>4 DEF Entries, FinishCycle, EndCycle, Enter, PassOver, eod, daily
  <1>5. CASE Maintenance \/ ToggleKillFile \/ Tick \/ UNCHANGED vars
    BY <1>5 DEF Maintenance, ToggleKillFile, Tick, vars, local, eod, daily
  <1> QED BY <1>1, <1>2, <1>3, <1>4, <1>5 DEF Next, Agent, Gate

LEMMA EntryStep ==
    ASSUME EntryInv, [Next]_vars
    PROVE  EntryInv'
  <1> SUFFICES ASSUME pc' = "entries"
               PROVE  EntriesAllowed(now)'
    BY DEF EntryInv
  <1>1. CASE OpenGate
    BY <1>1 DEF OpenGate, GateReached
  <1>2. CASE pc = "entries" /\ UNCHANGED <<marks, now, equity>>
    BY <1>2 DEF EntryInv
  <1> QED BY <1>1, <1>2, EntryFrame

LEMMA EntryInvariant == Spec => []EntryInv
  <1>1. Init => EntryInv
    BY DEF Init, EntryInv
  <1>2. EntryInv /\ [Next]_vars => EntryInv'
    BY EntryStep
  <1> QED BY <1>1, <1>2, PTL DEF Spec

(* A position appears only by an entry.                                    *)
LEMMA BoughtByEntry ==
    ASSUME TypeInv, [Next]_vars, NEW s \in Symbols, Bought(s)
    PROVE  Enter(s)
  <1>1. CASE UNCHANGED positions
    BY <1>1 DEF Bought, Held
  <1>2. ASSUME NEW x \in Symbols, StopExit(x) \/ TargetOrForcedExit(x) PROVE FALSE
    BY <1>2 DEF StopExit, TargetOrForcedExit, Sell, Bought, Held
  <1>3. ASSUME NEW x \in Symbols, Enter(x) PROVE Enter(s)
    <2>1. DOMAIN positions' = Held \cup {x}
      BY <1>3 DEF Enter, Buy
    <2> QED BY <1>3, <2>1 DEF Bought
  <1>4. CASE Startup \/ Crash \/ BeginCycle \/ StartCooldown \/ Gate \/ FinishCycle
    BY <1>1, <1>4 DEF Startup, Crash, BeginCycle, StartCooldown, Gate, MarkEquity,
                RecordEodSnapshot, OpenGate, TripBreaker, ShutGate, FinishCycle, ledger
  <1>5. ASSUME NEW x \in Symbols, KeepPosition(x) \/ PassOver(x) PROVE Enter(s)
    BY <1>1, <1>5 DEF KeepPosition, PassOver, ledger
  <1>6. CASE Maintenance \/ ToggleKillFile \/ Tick \/ UNCHANGED vars
    BY <1>1, <1>6 DEF Maintenance, ToggleKillFile, Tick, vars, ledger
  <1> QED BY <1>2, <1>3, <1>4, <1>5, <1>6 DEF Next, Agent, Exits, Entries

(* Entries are allowed inside the entry window only.                       *)
LEMMA AllowedInWindow ==
    ASSUME NEW t \in Nat, EntriesAllowed(t)
    PROVE  InEntryWindow(t)
<1> DEFINE w == SessionWindow(Date(t))
           u == TimeOfDay(t)
<1>1. Date(t) \in TradingDays /\ StateIn(w, u) = "OPEN"
  BY DEF EntriesAllowed, SessionState
<1>2. u \in Int /\ EntryCutoff \in Int /\ PreOpen \in Int
  BY SessionAssumption DEF TimeOfDay, TimesAreInOrder
<1>3. w.open \in Int /\ w.close \in Int
  BY SessionAssumption DEF SessionWindow, TimesAreInOrder
<1> HIDE DEF w, u
<1>4. u >= w.open /\ u < Earlier(EntryCutoff, w.close)
  BY <1>1, <1>2, <1>3 DEF StateIn
<1>5. u < w.close /\ u < EntryCutoff
  BY <1>2, <1>3, <1>4 DEF Earlier
<1> QED BY <1>1, <1>4, <1>5 DEF InEntryWindow, w, u

(* Purchases carry an instant of the entry window of their own date, on    *)
(* special sessions too (session.py state).                                *)
THEOREM EntryWindow == Spec => EntriesInWindow
  <1> DEFINE Inside == \A s \in Symbols : Bought(s) => InEntryWindow(now)
  <1>1. TypeInv /\ EntryInv /\ [Next]_vars => [Inside]_vars
    <2> SUFFICES ASSUME TypeInv, EntryInv, [Next]_vars, NEW s \in Symbols, Bought(s)
                 PROVE  InEntryWindow(now)
      OBVIOUS
    <2>1. pc = "entries" /\ now \in Nat
      BY BoughtByEntry DEF Enter, TypeInv, TypeOK
    <2> QED BY <2>1, AllowedInWindow DEF EntryInv
  <1> QED BY <1>1, TypeInvariant, EntryInvariant, PTL DEF Spec, EntriesInWindow

-----------------------------------------------------------------------------
(* Cooldowns.  Between the sale at the stop and the cooldown that follows  *)
(* it the symbol is in "stopped"; only a crash there loses the cooldown.   *)

CoolInv ==
    /\ pc = "cooldown" => lastStop[stopped] = now
    /\ crashes = 0 => \A s \in Symbols :
          \/ lastStop[s] = 0
          \/ lastStop[s] + StopCooldown <= cooldown[s]
          \/ pc = "cooldown" /\ stopped = s

(* The other steps leave stops and cooldowns alone, and none of them but a *)
(* crash leaves the step between the two.                                  *)
LEMMA CoolFrame ==
    ASSUME [Next]_vars, ~StartCooldown, \A s \in Symbols : ~StopExit(s)
    PROVE  /\ UNCHANGED stops
           /\ crashes' \in {crashes, crashes + 1}
           /\ \/ pc # "cooldown" /\ pc' # "cooldown"
              \/ UNCHANGED <<pc, stopped, now, crashes>>
              \/ pc' = "down" /\ crashes' = crashes + 1
  <1>1. CASE Startup \/ Crash \/ BeginCycle
    BY <1>1 DEF Startup, Crash, BeginCycle, environment
  <1>2. ASSUME NEW s \in Symbols, TargetOrForcedExit(s) \/ KeepPosition(s)
        PROVE  /\ UNCHANGED <<stops, crashes>> /\ pc # "cooldown" /\ pc' # "cooldown"
    BY <1>2 DEF TargetOrForcedExit, KeepPosition, environment
  <1>3. CASE Gate
    BY <1>3 DEF Gate, MarkEquity, RecordEodSnapshot, OpenGate, TripBreaker, ShutGate,
                GateReached, EndCycle, environment
  <1>4. CASE Entries
    BY <1>4 DEF Entries, FinishCycle, EndCycle, Enter, PassOver, environment
  <1>5. CASE Maintenance \/ ToggleKillFile \/ Tick \/ UNCHANGED vars
    BY <1>5 DEF Maintenance, ToggleKillFile, Tick, vars, local, environment
  <1> QED BY <1>1, <1>2, <1>3, <1>4, <1>5 DEF Next, Agent, Exits

LEMMA CoolStep ==
    ASSUME TypeInv, CoolInv, [Next]_vars
    PROVE  CoolInv'
  <1> USE AgentAssumption DEF TypeInv, TypeOK, LoopOK, CoolInv
  <1>1. CASE StartCooldown
    <2>1. /\ pc = "cooldown" /\ stopped \in Symbols /\ lastStop[stopped] = now
          /\ now \in Nat /\ StopCooldown \in Nat
      BY <1>1 DEF StartCooldown
    <2>2. /\ lastStop' = lastStop /\ pc' = "exits" /\ crashes' = crashes
          /\ cooldown' = [cooldown EXCEPT ![stopped] = now + StopCooldown]
      BY <1>1 DEF StartCooldown, environment
    <2> QED BY <2>1, <2>2
  <1>2. ASSUME NEW s \in Symbols, StopExit(s) PROVE CoolInv'
    <2>1. /\ lastStop' = [lastStop EXCEPT ![s] = now] /\ cooldown' = cooldown
          /\ pc = "exits" /\ pc' = "cooldown" /\ stopped' = s /\ now' = now
          /\ crashes' = crashes
      BY <1>2 DEF StopExit, environment
    <2> QED BY <2>1
  <1>3. CASE ~StartCooldown /\ \A s \in Symbols : ~StopExit(s)
    <2>1. /\ lastStop' = lastStop /\ cooldown' = cooldown
          /\ crashes \in Nat
      BY <1>3, CoolFrame DEF stops
    <2>2. CASE pc # "cooldown" /\ pc' # "cooldown"
      BY <1>3, <2>1, <2>2, CoolFrame
    <2>3. CASE UNCHANGED <<pc, stopped, now, crashes>>
      BY <2>1, <2>3
    <2>4. CASE pc' = "down" /\ crashes' = crashes + 1
      BY <2>1, <2>4
    <2> QED BY <1>3, <2>2, <2>3, <2>4, CoolFrame
  <1> QED BY <1>1, <1>2, <1>3

(* As long as the process never stopped, a symbol sold at its stop is not  *)
(* bought again before its cooldown is over (agent.py 149-153,             *)
(* baseline.py evaluate).                                                  *)
THEOREM CooldownKept == Spec => StopCoolsDown
  <1> DEFINE Cooled == \A s \in Symbols : (Bought(s) /\ crashes = 0) => CoolsDown(s)
  <1>1. Init => CoolInv
    BY DEF Init, CoolInv
  <1>2. TypeInv /\ CoolInv /\ [Next]_vars => CoolInv'
    BY CoolStep
  <1>3. TypeInv /\ CoolInv /\ [Next]_vars => [Cooled]_vars
    <2> SUFFICES ASSUME TypeInv, CoolInv, [Next]_vars,
                        NEW s \in Symbols, Bought(s), crashes = 0
                 PROVE  CoolsDown(s)
      OBVIOUS
    <2>1. pc = "entries" /\ cooldown[s] <= now
      BY BoughtByEntry DEF Enter, MayBeEligible
    <2>2. /\ lastStop[s] \in Nat /\ cooldown[s] \in Nat /\ now \in Nat
          /\ StopCooldown \in Nat
      BY AgentAssumption DEF TypeInv, TypeOK
    <2> QED BY <2>1, <2>2 DEF CoolInv, CoolsDown
  <1> QED BY <1>1, <1>2, <1>3, TypeInvariant, PTL DEF Spec, StopCoolsDown

-----------------------------------------------------------------------------
(* The daily loss.  What the gate compares equity with is what the day     *)
(* opened with, as long as the maintenance job has not overwritten it.     *)

(* The newest mark before day d, if there is one, is x.                    *)
OpensWith(d, x) ==
    \/ x = StartingCapital /\ \A e \in DOMAIN marks : ~(e < d)
    \/ \E e \in DOMAIN marks : /\ e < d /\ x = marks[e]
                              /\ \A f \in DOMAIN marks : f < d => f <= e

DayInv ==
    /\ sessionDate <= Date(clock) /\ lastEod <= sessionDate
    /\ pc \notin {"down", "sleep"} => sessionDate = Date(now)
    /\ ~rebased => OpensWith(sessionDate, dailyStart)

(* The newest mark is what the next day opens with.                        *)
LEMMA NewestMarkOpens ==
    ASSUME TypeInv, EodStateIsNewestMark, NEW d \in Nat, lastEod < d
    PROVE  OpensWith(d, IF lastEodEquity = <<>> THEN StartingCapital ELSE lastEodEquity[1])
<1>1. \A e \in DOMAIN marks : e <= lastEod
  BY DEF EodStateIsNewestMark
<1>2. CASE DOMAIN marks = {}
  BY <1>2 DEF OpensWith, EodStateIsNewestMark
<1>3. CASE DOMAIN marks # {}
  <2>1. lastEod \in DOMAIN marks /\ lastEodEquity = <<marks[lastEod]>>
    BY <1>3 DEF EodStateIsNewestMark
  <2> QED BY <1>1, <2>1 DEF OpensWith
<1> QED BY <1>2, <1>3

LEMMA OpensWithOpening ==
    ASSUME TypeInv, NEW x, OpensWith(Today, x)
    PROVE  x = OpeningEquity
<1> DEFINE before == {d \in DOMAIN marks : d < Today}
           newest == CHOOSE d \in before : \A f \in before : f <= d
<1>1. DOMAIN marks \subseteq Nat
  BY DEF TypeInv, TypeOK
<1>2. CASE x = StartingCapital /\ \A e \in DOMAIN marks : ~(e < Today)
  BY <1>2 DEF OpeningEquity
<1>3. ASSUME NEW e \in DOMAIN marks, e < Today, x = marks[e],
             \A f \in DOMAIN marks : f < Today => f <= e
      PROVE  x = OpeningEquity
  <2>1. e \in before /\ \A f \in before : f <= e
    BY <1>3
  <2>2. \A d \in before : (\A f \in before : f <= d) => d = e
    BY <1>1, <2>1
  <2>3. newest = e
    BY <2>1, <2>2
  <2>4. OpeningEquity = IF before = {} THEN StartingCapital ELSE marks[newest]
    BY DEF OpeningEquity
  <2>5. before # {}
    BY <2>1
  <2> HIDE DEF before, newest
  <2> QED BY <1>3, <2>3, <2>4, <2>5
<1> QED BY <1>2, <1>3 DEF OpensWith

(* The baseline as it is set when a day is begun.                          *)
LEMMA EnsureStep ==
    ASSUME TypeInv, MarkInv, DayInv, EnsureDailyState(clock), UNCHANGED marks
    PROVE  /\ sessionDate' \in Nat /\ sessionDate <= sessionDate'
           /\ sessionDate' <= Date(clock)
           /\ Date(clock) \in TradingDays => sessionDate' = Date(clock)
           /\ \/ UNCHANGED daily
              \/ OpensWith(sessionDate, dailyStart)'
<1>1. clock \in Nat /\ Date(clock) \in Nat /\ sessionDate \in Nat /\ lastEod \in Nat
  BY DateType DEF TypeInv, TypeOK
<1>2. CASE Date(clock) \in TradingDays /\ sessionDate # Date(clock)
  <2>1. sessionDate' = Date(clock) /\ lastEod < Date(clock)
    BY <1>1, <1>2 DEF EnsureDailyState, DayInv
  <2>2. OpensWith(Date(clock), dailyStart')
    BY <1>1, <1>2, <2>1, NewestMarkOpens DEF EnsureDailyState, MarkInv
  <2>3. OpensWith(sessionDate, dailyStart)'
    BY <2>1, <2>2 DEF OpensWith
  <2> QED BY <1>1, <1>2, <2>1, <2>2, <2>3 DEF DayInv
<1>3. CASE ~(Date(clock) \in TradingDays /\ sessionDate # Date(clock))
  BY <1>1, <1>3 DEF EnsureDailyState, DayInv, daily
<1> QED BY <1>2, <1>3

(* The rest of the steps leave the baseline alone.                         *)
LEMMA DayFrame ==
    ASSUME [Next]_vars, ~Startup, ~BeginCycle, ~RecordEodSnapshot, ~Maintenance, ~Tick
    PROVE  /\ UNCHANGED <<sessionDate, dailyStart, rebased, clock, eod>>
           /\ pc' \notin {"down", "sleep"} => pc \notin {"down", "sleep"} /\ now' = now
<1>1. CASE Crash \/ Exits
  BY <1>1 DEF Crash, Exits, StartCooldown, StopExit, TargetOrForcedExit, KeepPosition,
              daily, environment
<1>2. CASE MarkEquity \/ OpenGate \/ TripBreaker \/ ShutGate
  BY <1>2 DEF MarkEquity, OpenGate, TripBreaker, ShutGate, GateReached, EndCycle, daily,
              environment
<1>3. CASE Entries
  BY <1>3 DEF Entries, FinishCycle, Enter, PassOver, EndCycle, daily, environment
<1>4. CASE ToggleKillFile \/ UNCHANGED vars
  BY <1>4 DEF ToggleKillFile, vars, daily, local, environment
<1> QED BY <1>1, <1>2, <1>3, <1>4 DEF Next, Agent, Gate

LEMMA DayStep ==
    ASSUME TypeInv, MarkInv, DayInv, [Next]_vars
    PROVE  DayInv'
<1>1. /\ now \in Nat /\ clock \in Nat /\ lastEod \in Nat /\ sessionDate \in Nat
      /\ Date(clock) \in Nat /\ Date(now) \in Nat
  BY DateType DEF TypeInv, TypeOK
<1>2. ASSUME EnsureDailyState(clock), UNCHANGED <<eod, clock>>
      PROVE  /\ sessionDate' <= Date(clock)' /\ lastEod' <= sessionDate'
             /\ ~rebased' => OpensWith(sessionDate, dailyStart)'
  <2>1. UNCHANGED marks /\ UNCHANGED lastEod
    BY <1>2 DEF eod
  <2>2. /\ sessionDate' \in Nat /\ sessionDate <= sessionDate'
        /\ sessionDate' <= Date(clock)
        /\ UNCHANGED daily \/ OpensWith(sessionDate, dailyStart)'
    BY <1>2, <2>1, EnsureStep
  <2>3. Date(clock)' = Date(clock)
    BY <1>2
  <2>4. CASE UNCHANGED daily
    BY <1>1, <1>2, <2>1, <2>2, <2>3, <2>4 DEF DayInv, daily, OpensWith
  <2>5. CASE OpensWith(sessionDate, dailyStart)'
    BY <1>1, <1>2, <2>1, <2>2, <2>3, <2>5 DEF DayInv
  <2> QED BY <2>2, <2>4, <2>5
<1>3. CASE Startup
  <2>1. EnsureDailyState(clock) /\ UNCHANGED <<eod, clock>> /\ pc' = "sleep"
    BY <1>3 DEF Startup, environment
  <2> QED BY <1>2, <2>1 DEF DayInv
<1>4. CASE BeginCycle
  <2>1. EnsureDailyState(clock) /\ UNCHANGED <<eod, clock>> /\ now' = clock
    BY <1>4 DEF BeginCycle, environment
  <2>2. ASSUME pc' \notin {"down", "sleep"} PROVE (sessionDate = Date(now))'
    <3>1. ExitsAllowed(clock)
      BY <1>4, <2>2 DEF BeginCycle
    <3>2. Date(clock) \in TradingDays
      BY <3>1 DEF ExitsAllowed, SessionState
    <3> QED BY <2>1, <3>2, EnsureStep DEF eod
  <2> QED BY <1>2, <2>1, <2>2 DEF DayInv
<1>5. CASE RecordEodSnapshot
  <2>1. /\ UNCHANGED <<sessionDate, dailyStart, rebased, clock, now>>
        /\ pc = "eod" /\ sessionDate = Today
    BY <1>5 DEF RecordEodSnapshot, daily, local, environment, DayInv, Today
  <2>2. lastEod' <= sessionDate
    BY <1>1, <1>5, <2>1 DEF RecordEodSnapshot, eod, DayInv
  <2>3. /\ \A e \in DOMAIN marks : e \in DOMAIN marks' /\ (e < Today => marks'[e] = marks[e])
        /\ \A e \in DOMAIN marks' : e < Today => e \in DOMAIN marks
    BY <1>1, <1>5 DEF RecordEodSnapshot, eod, Today
  <2>4. OpensWith(sessionDate, dailyStart) => OpensWith(sessionDate, dailyStart)'
    BY <2>1, <2>3 DEF OpensWith
  <2> QED BY <1>1, <2>1, <2>2, <2>4 DEF DayInv
<1>6. CASE Maintenance
  <2>1. UNCHANGED <<eod, sessionDate, clock, pc, now>> /\ rebased' = TRUE
    BY <1>6 DEF Maintenance, local
  <2> QED BY <2>1 DEF DayInv, eod
<1>7. CASE Tick
  <2>1. /\ UNCHANGED <<eod, sessionDate, dailyStart, rebased, pc, now>>
        /\ clock' = clock + 1
    BY <1>7 DEF Tick, daily, local
  <2>2. /\ Date(clock)' = Date(clock + 1) /\ Date(clock) <= Date(clock + 1)
        /\ Date(clock + 1) \in Nat
    BY <1>1, <2>1, DateType, DateMonotone
  <2> QED BY <1>1, <2>1, <2>2 DEF DayInv, eod, OpensWith
<1>8. CASE ~Startup /\ ~BeginCycle /\ ~RecordEodSnapshot /\ ~Maintenance /\ ~Tick
  <2>1. /\ UNCHANGED <<sessionDate, dailyStart, rebased, clock, marks, lastEod>>
        /\ pc' \notin {"down", "sleep"} => pc \notin {"down", "sleep"} /\ now' = now
    BY <1>8, DayFrame DEF eod
  <2> QED BY <1>1, <2>1 DEF DayInv, OpensWith
<1> QED BY <1>3, <1>4, <1>5, <1>6, <1>7, <1>8

LEMMA LossStep ==
    ASSUME TypeInv, DayInv, DailyLossHaltsEntries, [Next]_vars
    PROVE  DailyLossHaltsEntries'
<1> SUFFICES ASSUME pc' = "entries", ~rebased'
             PROVE  (~DailyLossBlocked(equity, OpeningEquity))'
  BY DEF DailyLossHaltsEntries, AboveDailyLimit
<1>1. CASE OpenGate
  <2>1. /\ pc = "gate" /\ ~DailyLossBlocked(equity, dailyStart)
        /\ UNCHANGED <<marks, now, equity, rebased>>
    BY <1>1 DEF OpenGate, GateReached, eod, daily
  <2>2. OpensWith(Today, dailyStart)
    BY <2>1 DEF DayInv, Today
  <2>3. dailyStart = OpeningEquity
    BY <2>2, OpensWithOpening
  <2> QED BY <2>1, <2>3 DEF OpeningEquity, DailyLossBlocked, Today
<1>2. CASE pc = "entries" /\ ~rebased /\ UNCHANGED <<marks, now, equity>>
  BY <1>2 DEF DailyLossHaltsEntries, AboveDailyLimit, OpeningEquity, DailyLossBlocked, Today
<1> QED BY <1>1, <1>2, EntryFrame

(* Until the maintenance job overwrites the baseline of the day, no cycle  *)
(* makes entries whose equity is at the daily loss limit counted from what *)
(* the day opened with, whatever crashes, restarts, holidays and missed    *)
(* closes there are, and whatever the job wrote on earlier days            *)
(* (engine.py daily_loss_blocked, session.py ensure_daily_state).          *)
THEOREM DailyLoss == Spec => []DailyLossHaltsEntries
<1>1. Init => MarkInv /\ DayInv /\ DailyLossHaltsEntries
  <2> SUFFICES ASSUME Init PROVE MarkInv /\ DayInv /\ DailyLossHaltsEntries
    OBVIOUS
  <2>1. StartTime \in Nat /\ Date(StartTime) \in Nat
    BY AgentAssumption, DateType
  <2>2. MarkInv
    BY <2>1 DEF Init, MarkInv, EodStateIsNewestMark
  <2>3. DayInv
    <3>1. OpensWith(0, StartingCapital)
      BY DEF Init, OpensWith
    <3> QED BY <2>1, <3>1 DEF Init, DayInv
  <2> QED BY <2>2, <2>3 DEF Init, DailyLossHaltsEntries, AboveDailyLimit
<1>2. TypeInv /\ MarkInv /\ [Next]_vars => MarkInv'
  BY MarkStep
<1>3. TypeInv /\ MarkInv /\ DayInv /\ [Next]_vars => DayInv'
  BY DayStep
<1>4. TypeInv /\ DayInv /\ DailyLossHaltsEntries /\ [Next]_vars => DailyLossHaltsEntries'
  BY LossStep
<1> QED BY <1>1, <1>2, <1>3, <1>4, TypeInvariant, PTL DEF Spec
=============================================================================
