----------------------- MODULE StrategySelectionProofs -----------------------
(***************************************************************************)
(* Proofs about the selection of strategies, for any strategies, symbols,  *)
(* deployments, results and health policy.                                 *)
(***************************************************************************)
EXTENDS StrategySelection, FiniteSetTheorems, WellFoundedInduction, TLAPS

USE SelectionAssumption DEF PolicyIsValid

(* What an entry is made on: the health of this cycle is that of all       *)
(* trades closed so far.                                                   *)
IInv == TypeOK /\ (pc = "entries" => seen = Len(trades))

LEMMA InvStep == IInv /\ [Next]_vars => IInv'
<1> SUFFICES ASSUME IInv, [Next]_vars PROVE IInv'
  OBVIOUS
<1> USE DEF IInv, TypeOK, Held
<1>1. ASSUME NEW d \in Deployments, Deploy(d) PROVE IInv'
  BY <1>1 DEF Deploy
<1>2. CASE Stop
  BY <1>2 DEF Stop
<1>3. ASSUME NEW s \in Symbols, NEW result \in Results, Sell(s, result) PROVE IInv'
  <2>1. s \in DOMAIN open
    BY <1>3 DEF Sell
  <2>2. open[s].version \in Versions /\ open[s].regime \in Regimes
    BY <2>1
  <2>3. trades' \in Seq(Trade)
    BY <1>3, <2>2 DEF Sell, Trade
  <2>4. DOMAIN open' \subseteq Symbols
        /\ open' \in [DOMAIN open' -> [version : Versions, regime : Regimes]]
    BY <1>3 DEF Sell
  <2> QED BY <1>3, <2>3, <2>4 DEF Sell
<1>4. ASSUME NEW r \in Regimes, AssessHealth(r) PROVE IInv'
  BY <1>4 DEF AssessHealth
<1>5. ASSUME NEW s \in Symbols, NEW v \in Versions, Enter(s, v) PROVE IInv'
  BY <1>5 DEF Enter
<1>6. CASE FinishCycle
  BY <1>6 DEF FinishCycle
<1>7. CASE UNCHANGED vars
  BY <1>7 DEF vars
<1> QED BY <1>1, <1>2, <1>3, <1>4, <1>5, <1>6, <1>7 DEF Next, Exits, Entries

LEMMA Invariant == Spec => []IInv
<1>1. Init => IInv
  BY DEF Init, IInv, TypeOK, Held
<1> QED BY <1>1, InvStep, PTL DEF Spec

(* The state is well typed in every reachable state, whatever strategies   *)
(* follow each other on the same database.                                 *)
THEOREM Typing == Spec => []TypeOK
<1>1. IInv => TypeOK
  BY DEF IInv
<1> QED BY <1>1, Invariant, PTL

-----------------------------------------------------------------------------
(* Only the entry loop opens a position, and only for what was selected    *)
(* among the active strategies.                                            *)
LEMMA BoughtBySelection ==
    ASSUME IInv, [Next]_vars, NEW s \in Symbols, Bought(s)
    PROVE  /\ pc = "entries" /\ deployed \in Deployments /\ regime \in Regimes
           /\ seen = Len(trades)
           /\ open'[s].version \in Versions
           /\ \E signals \in SUBSET deployed.active : open'[s].version \in Select(signals)
<1> USE DEF Bought, Held
<1>1. ~ \E d \in Deployments : Deploy(d)
  BY DEF Deploy
<1>2. ~Stop
  BY DEF Stop
<1>3. ~Exits
  BY DEF Exits, Sell
<1>4. ~ \E r \in Regimes : AssessHealth(r)
  BY DEF AssessHealth
<1>5. ~FinishCycle /\ ~ UNCHANGED vars
  BY DEF FinishCycle, vars
<1>6. PICK x \in Symbols, v \in Versions : Enter(x, v)
  BY <1>1, <1>2, <1>3, <1>4, <1>5 DEF Next, Entries
<1>7. x = s /\ open'[s].version = v
  BY <1>6 DEF Enter
<1>8. pc = "entries" /\ \E signals \in SUBSET deployed.active : v \in Select(signals)
  BY <1>6 DEF Enter
<1> QED BY <1>7, <1>8 DEF IInv, TypeOK

(* A selected strategy is not paused, and is either eligible on its health *)
(* or the only active one of a deployment that bootstraps.                 *)
LEMMA SelectedIsSound ==
    ASSUME deployed \in Deployments, NEW signals \in SUBSET deployed.active,
           NEW v \in Select(signals)
    PROVE  /\ ~Paused(Known(v))
           /\ \/ EligibleForSelection(Known(v), regime)
              \/ deployed = [active |-> {v}, bootstrap |-> TRUE]
<1>1. CASE Ranked(signals) # {}
  <2>1. v \in Ranked(signals)
    BY <1>1 DEF Select, Best
  <2>2. EligibleForSelection(Known(v), regime)
    BY <2>1 DEF Ranked
  <2> QED BY <2>2 DEF EligibleForSelection, SelectionReady
<1>2. CASE Ranked(signals) = {}
  <2>1. v \in BootstrapCandidates(signals) /\ MayBootstrap
    BY <1>2 DEF Select
  <2>2. ~Paused(Known(v)) /\ v \in deployed.active
    BY <2>1 DEF BootstrapCandidates, ActiveSignals
  <2>3. deployed \in [active : SUBSET Versions, bootstrap : BOOLEAN]
    OBVIOUS
  <2>4. IsFiniteSet(deployed.active)
    BY <2>3, FS_Subset
  <2>5. Cardinality(deployed.active) = 1 /\ deployed.bootstrap = TRUE
    BY <2>1, <2>3 DEF MayBootstrap
  <2>6. deployed.active = {v}
    BY <2>2, <2>4, <2>5, FS_Singleton
  <2>7. deployed = [active |-> {v}, bootstrap |-> TRUE]
    BY <2>3, <2>5, <2>6
  <2> QED BY <2>2, <2>7
<1> QED BY <1>1, <1>2

(* No position is ever opened for a strategy that the trades closed by     *)
(* then pause, under any deployment.                                       *)
THEOREM PausedStaysOut == Spec => PausedNeverBuys
<1>1. ASSUME IInv, [Next]_vars, NEW s \in Symbols, Bought(s)
      PROVE  ~Paused(Rows(open'[s].version))
  <2>1. PICK signals \in SUBSET deployed.active : open'[s].version \in Select(signals)
    BY <1>1, BoughtBySelection
  <2>2. ~Paused(Known(open'[s].version))
    BY <1>1, <2>1, BoughtBySelection, SelectedIsSound
  <2> QED BY <1>1, <2>2, BoughtBySelection DEF Known, Rows
<1>2. IInv /\ [Next]_vars =>
        [\A s \in Symbols : Bought(s) => ~Paused(Rows(open'[s].version))]_vars
  BY <1>1
<1> QED BY <1>2, Invariant, PTL DEF Spec, PausedNeverBuys

(* Every strategy that opens a position has earned it by closed trades, or *)
(* is alone in a deployment that asks for the bootstrap.                   *)
THEOREM EarnedEntries == Spec => EntriesAreEarned
<1> DEFINE Earned(s) ==
        LET v == open'[s].version
        IN  HasEarned(v) \/ deployed = [active |-> {v}, bootstrap |-> TRUE]
<1>1. ASSUME IInv, [Next]_vars, NEW s \in Symbols, Bought(s) PROVE Earned(s)
  <2>1. PICK signals \in SUBSET deployed.active : open'[s].version \in Select(signals)
    BY <1>1, BoughtBySelection
  <2>2. EligibleForSelection(Known(open'[s].version), regime)
        \/ deployed = [active |-> {open'[s].version}, bootstrap |-> TRUE]
    BY <1>1, <2>1, BoughtBySelection, SelectedIsSound
  <2>3. Known(open'[s].version) = Rows(open'[s].version)
    BY <1>1, BoughtBySelection DEF Known, Rows
  <2> QED BY <2>2, <2>3 DEF EligibleForSelection, SelectionReady, HasEarned
<1>2. IInv /\ [Next]_vars => [\A s \in Symbols : Bought(s) => Earned(s)]_vars
  BY <1>1
<1> QED BY <1>2, Invariant, PTL DEF Spec, EntriesAreEarned

-----------------------------------------------------------------------------
(* A service whose deployments never bootstrap, as the shipped             *)
(* configuration asks for none, opens no position on a database without    *)
(* trades: without evidence nothing is selected, and without trades there  *)
(* is no evidence.                                                         *)
NoneBootstraps == \A d \in Deployments : d.bootstrap => Cardinality(d.active) # 1

THEOREM FailsClosed ==
    ASSUME NoneBootstraps PROVE Spec => [](trades = <<>> /\ Held = {})
<1> DEFINE Untouched == trades = <<>> /\ Held = {}
<1>1. ASSUME IInv, Untouched, [Next]_vars PROVE Untouched'
  <2>1. \A v \in Versions : Cardinality(Rows(v)) = 0
    <3>1. \A v \in Versions : Rows(v) = {}
      BY <1>1 DEF Rows, RowsOf
    <3> QED BY <3>1, FS_EmptySet
  <2>2. ASSUME NEW s \in Symbols, Bought(s) PROVE FALSE
    <3>1. PICK signals \in SUBSET deployed.active : open'[s].version \in Select(signals)
      BY <1>1, <2>2, BoughtBySelection
    <3>2. EligibleForSelection(Known(open'[s].version), regime)
          \/ deployed = [active |-> {open'[s].version}, bootstrap |-> TRUE]
      BY <1>1, <2>2, <3>1, BoughtBySelection, SelectedIsSound
    <3>3. Cardinality(Known(open'[s].version)) = 0
      BY <1>1, <2>1, <2>2, BoughtBySelection DEF Known, Rows
    <3>4. ~EligibleForSelection(Known(open'[s].version), regime)
      BY <3>3 DEF EligibleForSelection, SelectionReady
    <3>5. deployed = [active |-> {open'[s].version}, bootstrap |-> TRUE]
      BY <3>2, <3>4
    <3>6. deployed.active = {open'[s].version} /\ deployed.bootstrap
      BY <3>5
    <3>7. Cardinality(deployed.active) = 1
      BY <3>6, FS_Singleton
    <3> QED BY <1>1, <2>2, <3>6, <3>7, BoughtBySelection, NoneBootstraps DEF NoneBootstraps
  <2>3. Held' \subseteq Held \/ \E s \in Symbols : Bought(s)
    BY <1>1 DEF Next, Deploy, Stop, Exits, Sell, AssessHealth, Entries, Enter, FinishCycle,
                vars, Held, Bought
  <2>4. trades' = trades
    BY <1>1 DEF Next, Deploy, Stop, Exits, Sell, AssessHealth, Entries, Enter, FinishCycle, vars
  <2> QED BY <1>1, <2>2, <2>3, <2>4
<1>2. Init => Untouched
  BY DEF Init, Held
<1> QED BY <1>1, <1>2, Invariant, PTL DEF Spec
-----------------------------------------------------------------------------
(* Induction, and the sums over finite sets that it tells of.              *)

(* A set of naturals has a least member.                                   *)
LEMMA Least ==
    ASSUME NEW T, T \subseteq Nat, T # {}
    PROVE  \E n \in T : \A m \in T : n <= m
  <1>1. PICK x \in T : \A y \in T : ~(<<y, x>> \in OpToRel(<, Nat))
    BY NatLessThanWellFounded, WFMin, Zenon
  <1>2. \A y \in T : ~(y < x)
    BY <1>1 DEF OpToRel
  <1> QED BY <1>2

(* What holds at 0 and is handed on up to N holds up to N.                 *)
LEMMA Induction ==
    ASSUME NEW N \in Nat, NEW S, 0 \in S,
           \A n \in 0 .. N - 1 : n \in S => n + 1 \in S
    PROVE  0 .. N \subseteq S
  <1> SUFFICES ASSUME ~(0 .. N \subseteq S) PROVE FALSE
    OBVIOUS
  <1> DEFINE T == (0 .. N) \ S
  <1>1. PICK n \in T : \A m \in T : n <= m
    <2>1. T \subseteq Nat /\ T # {}
      OBVIOUS
    <2> HIDE DEF T
    <2> QED BY <2>1, Least
  <1>2. n - 1 \in 0 .. N - 1 /\ n - 1 \in S
    BY <1>1
  <1> QED BY <1>1, <1>2

(* Sums over finite sets, as the folds of the community modules define     *)
(* them: an element that CHOOSE takes, and the sum of the others.          *)

First(s) == CHOOSE x \in s : TRUE

AddsUp(g, f, D) ==
    g = [s \in SUBSET D |-> IF s = {} THEN 0 ELSE f[First(s)] + g[s \ {First(s)}]]

Total(f, D) == (CHOOSE g : AddsUp(g, f, D))[D]

Summable(f, D) == IsFiniteSet(D) /\ \A x \in D : f[x] \in Int

(* The subsets of a finite set by their number of elements.                *)
OfSize(n, D) == {s \in SUBSET D : Cardinality(s) = n}
UpToSize(n, D) == {s \in SUBSET D : Cardinality(s) <= n}

LEMMA Sizes ==
    ASSUME NEW D, IsFiniteSet(D)
    PROVE  /\ Cardinality(D) \in Nat /\ OfSize(0, D) = {{}}
           /\ \A s \in SUBSET D : IsFiniteSet(s) /\ Cardinality(s) \in 0 .. Cardinality(D)
  BY FS_CardinalityType, FS_EmptySet, FS_Subset DEF OfSize

LEMMA WithoutFirst ==
    ASSUME NEW D, IsFiniteSet(D), NEW n \in Nat, NEW s \in OfSize(n + 1, D)
    PROVE  s # {} /\ First(s) \in s /\ s \ {First(s)} \in OfSize(n, D)
  <1>1. IsFiniteSet(s) /\ Cardinality(s) = n + 1
    BY Sizes DEF OfSize
  <1>2. s # {}
    BY <1>1, FS_EmptySet
  <1>3. First(s) \in s
    BY <1>2 DEF First
  <1>4. Cardinality(s \ {First(s)}) = Cardinality(s) - 1
    BY <1>1, <1>3, FS_RemoveElement
  <1>5. Cardinality(s \ {First(s)}) = n
    BY <1>1, <1>4
  <1> QED BY <1>2, <1>3, <1>5 DEF OfSize

(* The sums over the subsets of a finite set exist.                        *)
LEMMA SumsExist ==
    ASSUME NEW D, NEW f, Summable(f, D)
    PROVE  \E g \in [SUBSET D -> Int] : AddsUp(g, f, D)
  <1> DEFINE Sums(g, n) == \A s \in UpToSize(n, D) :
                g[s] = IF s = {} THEN 0 ELSE f[First(s)] + g[s \ {First(s)}]
             T == {n \in 0 .. Cardinality(D) : \E g \in [UpToSize(n, D) -> Int] : Sums(g, n)}
  <1> USE DEF Summable
  <1>1. 0 \in T
    <2>1. \A s \in UpToSize(0, D) : s = {}
      BY Sizes, FS_EmptySet DEF UpToSize
    <2>2. Sums([s \in UpToSize(0, D) |-> 0], 0)
      BY <2>1
    <2>3. [s \in UpToSize(0, D) |-> 0] \in [UpToSize(0, D) -> Int]
      OBVIOUS
    <2> HIDE DEF Sums
    <2> QED BY <2>2, <2>3, Sizes
  <1>2. ASSUME NEW n \in 0 .. Cardinality(D) - 1, n \in T
        PROVE  n + 1 \in T
    <2>1. PICK g \in [UpToSize(n, D) -> Int] : Sums(g, n)
      BY <1>2
    <2> DEFINE h == [s \in UpToSize(n + 1, D) |->
                        IF s = {} THEN 0 ELSE f[First(s)] + g[s \ {First(s)}]]
    <2>2. ASSUME NEW s \in UpToSize(n + 1, D), s # {}
          PROVE  f[First(s)] \in Int /\ s \ {First(s)} \in UpToSize(n, D)
      <3>1. IsFiniteSet(s) /\ Cardinality(s) \in Nat /\ Cardinality(s) <= n + 1 /\ s \in SUBSET D
        BY Sizes DEF UpToSize
      <3>2. First(s) \in s
        BY <2>2 DEF First
      <3>3. Cardinality(s \ {First(s)}) = Cardinality(s) - 1
        BY <3>1, <3>2, FS_RemoveElement
      <3> QED BY <3>1, <3>2, <3>3, Sizes DEF UpToSize
    <2>3. h \in [UpToSize(n + 1, D) -> Int]
      BY <2>1, <2>2
    <2>4. \A s \in UpToSize(n, D) : s \in UpToSize(n + 1, D) /\ h[s] = g[s]
      <3>1. UpToSize(n, D) \subseteq UpToSize(n + 1, D)
        BY Sizes DEF UpToSize
      <3> QED BY <2>1, <3>1
    <2>5. Sums(h, n + 1)
      BY <2>2, <2>4
    <2> HIDE DEF Sums, h
    <2> QED BY <2>3, <2>5, Sizes
  <1>3. Cardinality(D) \in T
    <2> HIDE DEF T
    <2> QED BY <1>1, <1>2, Sizes, Induction
  <1>4. PICK g \in [UpToSize(Cardinality(D), D) -> Int] : Sums(g, Cardinality(D))
    BY <1>3
  <1>5. UpToSize(Cardinality(D), D) = SUBSET D
    BY Sizes DEF UpToSize
  <1> QED BY <1>4, <1>5 DEF AddsUp

(* They depend only on the values of the members, and not on the set that  *)
(* the subsets are taken from.                                             *)
LEMMA SumsAgree ==
    ASSUME NEW D, IsFiniteSet(D), NEW E \in SUBSET D, NEW g, NEW h, NEW f, NEW e,
           AddsUp(g, f, D), AddsUp(h, e, E), \A x \in E : f[x] = e[x]
    PROVE  g[E] = h[E]
  <1> DEFINE T == {n \in 0 .. Cardinality(E) : \A s \in OfSize(n, E) : g[s] = h[s]}
  <1>1. IsFiniteSet(E) /\ Cardinality(E) \in Nat /\ E \in OfSize(Cardinality(E), E)
    BY Sizes DEF OfSize
  <1>2. \A s \in SUBSET E :
           /\ g[s] = IF s = {} THEN 0 ELSE f[First(s)] + g[s \ {First(s)}]
           /\ h[s] = IF s = {} THEN 0 ELSE e[First(s)] + h[s \ {First(s)}]
    BY DEF AddsUp
  <1>3. 0 \in T
    <2>1. g[{}] = 0 /\ h[{}] = 0
      BY <1>2
    <2>2. OfSize(0, E) = {{}}
      BY <1>1, Sizes
    <2>3. \A s \in OfSize(0, E) : g[s] = h[s]
      BY <2>1, <2>2, Zenon
    <2> QED BY <1>1, <2>3
  <1>4. ASSUME NEW n \in 0 .. Cardinality(E) - 1, n \in T PROVE n + 1 \in T
    <2>1. ASSUME NEW s \in OfSize(n + 1, E) PROVE g[s] = h[s]
      <3>1. s # {} /\ First(s) \in s /\ s \ {First(s)} \in OfSize(n, E) /\ s \in SUBSET E
        BY <1>1, WithoutFirst DEF OfSize
      <3> QED BY <1>2, <1>4, <3>1
    <2> QED BY <1>1, <2>1
  <1>5. Cardinality(E) \in T
    <2> HIDE DEF T
    <2> QED BY <1>1, <1>3, <1>4, Induction
  <1> QED BY <1>1, <1>5

(* All sums over the subsets of a finite set at once.                      *)
AreTotals(g, f, D) ==
    g \in [SUBSET D -> Int] /\ AddsUp(g, f, D) /\ \A E \in SUBSET D : Total(f, E) = g[E]

LEMMA Totals ==
    ASSUME NEW D, NEW f, Summable(f, D)
    PROVE  \E g : AreTotals(g, f, D)
  <1>1. PICK g \in [SUBSET D -> Int] : AddsUp(g, f, D)
    BY SumsExist
  <1>2. ASSUME NEW E \in SUBSET D PROVE Total(f, E) = g[E]
    <2>1. \E h : AddsUp(h, f, E)
      <3>1. Summable(f, E)
        BY Sizes DEF Summable
      <3> QED BY <3>1, SumsExist
    <2>2. AddsUp(CHOOSE h : AddsUp(h, f, E), f, E)
      BY <2>1
    <2> QED BY <1>1, <2>2, SumsAgree DEF Total, Summable
  <1> QED BY <1>1, <1>2 DEF AreTotals

LEMMA TotalType ==
    ASSUME NEW D, NEW f, Summable(f, D)
    PROVE  Total(f, D) \in Int
  <1>1. PICK g : AreTotals(g, f, D)
    BY Totals
  <1> QED BY <1>1 DEF AreTotals

(* SumFunction is such a sum.                                              *)
LEMMA SumIsTotal == ASSUME NEW f PROVE SumFunction(f) = Total(f, DOMAIN f)
  BY DEF SumFunction, SumFunctionOnSet, FoldFunctionOnSet, MapThenFoldSet, Total, AddsUp, First

-----------------------------------------------------------------------------
(* The order of the ranked strategies.                                     *)

(* A finite set that is totally ordered has a member ahead of all others.  *)
IsTotalOrder(G, R) ==
    /\ \A v \in R, w \in R : v # w => <<v, w>> \in G \/ <<w, v>> \in G
    /\ \A u \in R, v \in R, w \in R : <<u, v>> \in G /\ <<v, w>> \in G => <<u, w>> \in G

IsAhead(v, s, G) == v \in s /\ \A w \in s \ {v} : <<v, w>> \in G

LEMMA OneIsAhead ==
    ASSUME NEW R, IsFiniteSet(R), R # {}, NEW G, IsTotalOrder(G, R)
    PROVE  \E v : IsAhead(v, R, G)
  <1> DEFINE T == {n \in 0 .. Cardinality(R) :
                      \A s \in OfSize(n, R) : s # {} => \E v : IsAhead(v, s, G)}
  <1>1. 0 \in T
    BY Sizes
  <1>2. ASSUME NEW n \in 0 .. Cardinality(R) - 1, n \in T PROVE n + 1 \in T
    <2>1. n \in Nat /\ n + 1 \in 0 .. Cardinality(R)
      BY Sizes
    <2>2. ASSUME NEW s \in OfSize(n + 1, R) PROVE \E v : IsAhead(v, s, G)
      <3> DEFINE x == First(s)
      <3>1. x \in s /\ s \ {x} \in OfSize(n, R) /\ s \in SUBSET R
        BY <2>1, WithoutFirst DEF OfSize
      <3> HIDE DEF x
      <3>2. CASE s \ {x} = {}
        BY <3>1, <3>2 DEF IsAhead
      <3>3. CASE s \ {x} # {}
        <4>1. PICK y : IsAhead(y, s \ {x}, G)
          BY <1>2, <3>1, <3>3
        <4>2. y \in s /\ y # x /\ \A w \in (s \ {x}) \ {y} : <<y, w>> \in G
          BY <4>1 DEF IsAhead
        <4>3. CASE <<y, x>> \in G
          BY <4>2, <4>3 DEF IsAhead
        <4>4. CASE <<x, y>> \in G
          <5>1. \A w \in s \ {x} : <<x, w>> \in G
            BY <3>1, <4>2, <4>4 DEF IsTotalOrder
          <5> QED BY <3>1, <5>1 DEF IsAhead
        <4> QED BY <3>1, <4>2, <4>3, <4>4 DEF IsTotalOrder
      <3> QED BY <3>2, <3>3
    <2> QED BY <2>1, <2>2
  <1>3. Cardinality(R) \in T
    <2> HIDE DEF T
    <2> QED BY <1>1, <1>2, Sizes, Induction
  <1>4. R \in OfSize(Cardinality(R), R)
    BY DEF OfSize
  <1> QED BY <1>3, <1>4

(* Fractions with positive denominators, compared by cross multiplication. *)
LEMMA Fractions ==
    ASSUME NEW x \in Int, NEW y \in Int, NEW z \in Int,
           NEW p \in Nat \ {0}, NEW q \in Nat \ {0}, NEW r \in Nat \ {0},
           x * q - y * p >= 0, y * r - z * q >= 0
    PROVE  /\ x * r - z * p >= 0
           /\ x * q - y * p > 0 \/ y * r - z * q > 0 => x * r - z * p > 0
  <1> DEFINE a == x * q - y * p
             b == y * r - z * q
             c == x * r - z * p
  <1>1. a \in Nat /\ b \in Nat /\ c \in Int
    OBVIOUS
  <1>2. q * c = r * a + p * b
    OBVIOUS
  <1> HIDE DEF a, b, c
  <1>3. r * a \in Nat /\ p * b \in Nat /\ (a > 0 => r * a > 0) /\ (b > 0 => p * b > 0)
    BY <1>1
  <1>4. q * c >= 0 /\ (a > 0 \/ b > 0 => q * c > 0)
    BY <1>2, <1>3
  <1>5. (q * c >= 0 => c >= 0) /\ (q * c > 0 => c > 0)
    BY <1>1
  <1> QED BY <1>4, <1>5 DEF a, b, c

(* What the criteria measure, of the trades of one strategy.               *)
Rowset == SUBSET (1 .. Len(trades))

LEMMA PnlType ==
    ASSUME IInv, NEW rows \in Rowset
    PROVE  /\ IsFiniteSet(rows) /\ Cardinality(rows) \in Nat
           /\ NetPnl(rows) \in Int /\ Spread(rows) \in Int
  <1> DEFINE results == [k \in rows |-> trades[k].result]
             squares == [k \in rows |-> trades[k].result * trades[k].result]
  <1>1. IsFiniteSet(rows) /\ Cardinality(rows) \in Nat
    <2>1. Len(trades) \in Int
      BY DEF IInv, TypeOK
    <2>2. IsFiniteSet(1 .. Len(trades))
      BY <2>1, FS_Interval
    <2> QED BY <2>2, FS_Subset, FS_CardinalityType DEF Rowset
  <1>2. \A k \in rows : trades[k].result \in Int
    <2>1. \A k \in rows : trades[k] \in Trade
      BY DEF IInv, TypeOK, Rowset
    <2>2. \A t \in Trade : t.result \in Int
      BY DEF Trade
    <2> QED BY <2>1, <2>2
  <1>3. Summable(results, rows) /\ Summable(squares, rows)
    BY <1>1, <1>2 DEF Summable
  <1>4. Total(results, rows) \in Int /\ Total(squares, rows) \in Int
    BY <1>3, TotalType
  <1>5. DOMAIN results = rows /\ DOMAIN squares = rows
    OBVIOUS
  <1>6. NetPnl(rows) = Total(results, rows) /\ SquaredPnl(rows) = Total(squares, rows)
    <2> HIDE DEF results, squares
    <2>1. SumFunction(results) = Total(results, rows)
      BY <1>5, SumIsTotal
    <2>2. SumFunction(squares) = Total(squares, rows)
      BY <1>5, SumIsTotal
    <2> QED BY <2>1, <2>2 DEF NetPnl, SquaredPnl, results, squares
  <1> HIDE DEF results, squares
  <1> QED BY <1>1, <1>4, <1>6 DEF Spread

Fall == [from : Nat \ {0}, to : Int]

LEMMA FallsType ==
    ASSUME IInv, NEW rows \in Rowset
    PROVE  Falls(rows) \subseteq Fall
  <1>1. \A k \in rows \cup {0} : Equity(k, rows) \in Int
    <2>1. \A k \in rows \cup {0} : Upto(k, rows) \in Rowset
      BY DEF Upto, Rowset
    <2>2. \A k \in rows \cup {0} : NetPnl(Upto(k, rows)) \in Int
      BY <2>1, PnlType
    <2> QED BY <2>2 DEF Equity
  <1> SUFFICES ASSUME NEW f \in Falls(rows) PROVE f \in Fall
    OBVIOUS
  <1>2. PICK i \in rows \cup {0}, j \in rows \cup {0} :
           /\ Equity(i, rows) > 0
           /\ f = [from |-> Equity(i, rows), to |-> Equity(j, rows)]
    BY DEF Falls
  <1> QED BY <1>1, <1>2 DEF Fall

(* Less drawdown is a strict order, and what is not less is passed on.     *)
LEMMA DeeperPasses ==
    ASSUME NEW f \in Fall, NEW g \in Fall, NEW h \in Fall, Deeper(f, g), ~Deeper(h, g)
    PROVE  Deeper(f, h)
  <1> DEFINE x == f.from - f.to
             y == g.from - g.to
             z == h.from - h.to
             p == f.from
             q == g.from
             r == h.from
  <1>1. /\ x \in Int /\ y \in Int /\ z \in Int
        /\ p \in Nat \ {0} /\ q \in Nat \ {0} /\ r \in Nat \ {0}
    BY DEF Fall
  <1>2. x * q > y * p /\ ~(z * q > y * r)
    BY DEF Deeper
  <1>3. Deeper(f, h) <=> x * r > z * p
    BY DEF Deeper
  <1> HIDE DEF x, y, z, p, q, r
  <1>4. /\ x * q \in Int /\ y * p \in Int /\ z * q \in Int
        /\ y * r \in Int /\ x * r \in Int /\ z * p \in Int
    BY <1>1
  <1>5. x * q - y * p > 0 /\ x * q - y * p >= 0 /\ y * r - z * q >= 0
    BY <1>2, <1>4
  <1>6. x * r - z * p > 0
    BY <1>1, <1>5, Fractions
  <1> QED BY <1>3, <1>4, <1>6

LEMMA DrawdownOrder ==
    ASSUME IInv, NEW a \in Rowset, NEW b \in Rowset, NEW c \in Rowset
    PROVE  /\ ~(LessDrawdown(a, b) /\ LessDrawdown(b, a))
           /\ LessDrawdown(a, c) => LessDrawdown(a, b) \/ LessDrawdown(b, c)
  <1>1. Falls(a) \subseteq Fall /\ Falls(b) \subseteq Fall /\ Falls(c) \subseteq Fall
    BY FallsType
  <1>2. ASSUME LessDrawdown(a, b), LessDrawdown(b, a) PROVE FALSE
    <2>1. PICK f \in Falls(a), g \in Falls(b) : Deeper(f, g) /\ Deeper(g, f)
      BY <1>2 DEF LessDrawdown
    <2>2. f \in Fall /\ g \in Fall
      BY <1>1
    <2>3. (f.from - f.to) * g.from \in Int /\ (g.from - g.to) * f.from \in Int
      BY <2>2 DEF Fall
    <2> QED BY <2>1, <2>3 DEF Deeper
  <1>3. ASSUME LessDrawdown(a, c), ~LessDrawdown(a, b) PROVE LessDrawdown(b, c)
    <2>1. PICK g \in Falls(c) : \A f \in Falls(a) : Deeper(g, f)
      BY <1>3 DEF LessDrawdown
    <2>2. ASSUME NEW h \in Falls(b) PROVE Deeper(g, h)
      <3>1. PICK f \in Falls(a) : ~Deeper(h, f)
        BY <1>3 DEF LessDrawdown
      <3> QED BY <1>1, <2>1, <3>1, DeeperPasses
    <2> QED BY <2>2 DEF LessDrawdown
  <1> QED BY <1>2, <1>3

(* The criteria one by one: whole numbers whose sign changes with the      *)
(* order of the strategies, and who is ahead of another by a criterion is  *)
(* ahead of all that the other is ahead of.                                *)
Judged == {v \in Versions : Known(v) \in Rowset /\ Cardinality(Known(v)) > 0}

Passes(x, y, z) == x >= 0 /\ y >= 0 => z >= 0 /\ (x > 0 \/ y > 0 => z > 0)

LEMMA Criteria ==
    ASSUME IInv, NEW v \in Judged, NEW w \in Judged, NEW k \in 1 .. 6
    PROVE  /\ Comparison(v, w)[k] \in Int
           /\ Comparison(w, v)[k] = 0 - Comparison(v, w)[k]
  <1> DEFINE a == Known(v)
             b == Known(w)
             na == Cardinality(a)
             nb == Cardinality(b)
  <1>1. /\ na \in Nat /\ nb \in Nat /\ NetPnl(a) \in Int /\ NetPnl(b) \in Int
        /\ Spread(a) \in Int /\ Spread(b) \in Int
    BY PnlType DEF Judged
  <1>2. Cube(na) \in Int /\ Cube(nb) \in Int
    BY <1>1 DEF Cube
  <1>3. /\ Priority[v] \in Int /\ Priority[w] \in Int /\ v \in Int /\ w \in Int
    BY DEF Judged
  <1>4. ~(LessDrawdown(a, b) /\ LessDrawdown(b, a))
    BY DrawdownOrder DEF Judged
  <1>5. /\ NetPnl(a) * nb \in Int /\ NetPnl(b) * na \in Int
        /\ Spread(b) * Cube(na) \in Int /\ Spread(a) * Cube(nb) \in Int
    BY <1>1, <1>2
  <1>6. /\ Sign(LessDrawdown(b, a), LessDrawdown(a, b)) \in Int
        /\ Sign(LessDrawdown(a, b), LessDrawdown(b, a))
             = 0 - Sign(LessDrawdown(b, a), LessDrawdown(a, b))
    BY <1>4 DEF Sign
  <1>7. Comparison(v, w) = << NetPnl(a) * nb - NetPnl(b) * na,
                              Sign(LessDrawdown(b, a), LessDrawdown(a, b)),
                              Spread(b) * Cube(na) - Spread(a) * Cube(nb),
                              na - nb, Priority[v] - Priority[w], w - v >>
    BY DEF Comparison
  <1>8. Comparison(w, v) = << NetPnl(b) * na - NetPnl(a) * nb,
                              Sign(LessDrawdown(a, b), LessDrawdown(b, a)),
                              Spread(a) * Cube(nb) - Spread(b) * Cube(na),
                              nb - na, Priority[w] - Priority[v], v - w >>
    BY DEF Comparison
  <1> HIDE DEF a, b, na, nb
  <1>9. k = 1 \/ k = 2 \/ k = 3 \/ k = 4 \/ k = 5 \/ k = 6
    OBVIOUS
  <1> QED BY <1>1, <1>3, <1>5, <1>6, <1>7, <1>8, <1>9

LEMMA CriteriaPass ==
    ASSUME IInv, NEW u \in Judged, NEW v \in Judged, NEW w \in Judged, NEW k \in 1 .. 6
    PROVE  Passes(Comparison(u, v)[k], Comparison(v, w)[k], Comparison(u, w)[k])
  <1> DEFINE a == Known(u)
             b == Known(v)
             c == Known(w)
             na == Cardinality(a)
             nb == Cardinality(b)
             nc == Cardinality(c)
  <1>1. /\ na \in Nat \ {0} /\ nb \in Nat \ {0} /\ nc \in Nat \ {0}
        /\ NetPnl(a) \in Int /\ NetPnl(b) \in Int /\ NetPnl(c) \in Int
        /\ Spread(a) \in Int /\ Spread(b) \in Int /\ Spread(c) \in Int
    BY PnlType DEF Judged
  <1>2. \A n \in Nat \ {0} : Cube(n) \in Nat \ {0}
    BY DEF Cube
  <1>3. /\ Comparison(u, v)[k] \in Int /\ Comparison(v, w)[k] \in Int
        /\ Comparison(u, w)[k] \in Int
    BY Criteria
  <1>4. CASE k = 1
    <2>1. /\ Comparison(u, v)[1] = NetPnl(a) * nb - NetPnl(b) * na
          /\ Comparison(v, w)[1] = NetPnl(b) * nc - NetPnl(c) * nb
          /\ Comparison(u, w)[1] = NetPnl(a) * nc - NetPnl(c) * na
      BY DEF Comparison
    <2> DEFINE x == NetPnl(a)
               y == NetPnl(b)
               z == NetPnl(c)
    <2> HIDE DEF a, b, c, na, nb, nc, x, y, z
    <2>2. Passes(x * nb - y * na, y * nc - z * nb, x * nc - z * na)
      BY <1>1, Fractions DEF Passes, x, y, z
    <2> QED BY <1>4, <2>1, <2>2 DEF x, y, z
  <1>5. CASE k = 2
    <2>1. /\ Comparison(u, v)[2] = Sign(LessDrawdown(b, a), LessDrawdown(a, b))
          /\ Comparison(v, w)[2] = Sign(LessDrawdown(c, b), LessDrawdown(b, c))
          /\ Comparison(u, w)[2] = Sign(LessDrawdown(c, a), LessDrawdown(a, c))
      BY DEF Comparison
    <2>2. /\ ~(LessDrawdown(a, b) /\ LessDrawdown(b, a))
          /\ ~(LessDrawdown(b, c) /\ LessDrawdown(c, b))
          /\ ~(LessDrawdown(a, c) /\ LessDrawdown(c, a))
          /\ LessDrawdown(c, a) => LessDrawdown(c, b) \/ LessDrawdown(b, a)
          /\ LessDrawdown(a, b) => LessDrawdown(a, c) \/ LessDrawdown(c, b)
          /\ LessDrawdown(b, c) => LessDrawdown(b, a) \/ LessDrawdown(a, c)
      BY DrawdownOrder DEF Judged
    <2> HIDE DEF a, b, c, na, nb, nc
    <2> QED BY <1>5, <2>1, <2>2 DEF Passes, Sign
  <1>6. CASE k = 3
    <2> DEFINE x == 0 - Spread(a)
               y == 0 - Spread(b)
               z == 0 - Spread(c)
               p == Cube(na)
               q == Cube(nb)
               r == Cube(nc)
    <2>1. /\ Comparison(u, v)[3] = Spread(b) * p - Spread(a) * q
          /\ Comparison(v, w)[3] = Spread(c) * q - Spread(b) * r
          /\ Comparison(u, w)[3] = Spread(c) * p - Spread(a) * r
      BY DEF Comparison
    <2>2. /\ x \in Int /\ y \in Int /\ z \in Int
          /\ p \in Nat \ {0} /\ q \in Nat \ {0} /\ r \in Nat \ {0}
      BY <1>1, <1>2
    <2>3. /\ Spread(b) * p - Spread(a) * q = x * q - y * p
          /\ Spread(c) * q - Spread(b) * r = y * r - z * q
          /\ Spread(c) * p - Spread(a) * r = x * r - z * p
      <3> HIDE DEF a, b, c, p, q, r
      <3> QED BY <1>1, <2>2
    <2> HIDE DEF a, b, c, na, nb, nc, x, y, z, p, q, r
    <2> QED BY <1>6, <2>1, <2>2, <2>3, Fractions DEF Passes
  <1>7. CASE k = 4
    <2>1. /\ Comparison(u, v)[4] = na - nb /\ Comparison(v, w)[4] = nb - nc
          /\ Comparison(u, w)[4] = na - nc
      BY DEF Comparison
    <2> HIDE DEF a, b, c, na, nb, nc
    <2> QED BY <1>1, <1>7, <2>1 DEF Passes
  <1>8. CASE k = 5
    <2>1. /\ Comparison(u, v)[5] = Priority[u] - Priority[v]
          /\ Comparison(v, w)[5] = Priority[v] - Priority[w]
          /\ Comparison(u, w)[5] = Priority[u] - Priority[w]
      BY DEF Comparison
    <2>2. Priority[u] \in Int /\ Priority[v] \in Int /\ Priority[w] \in Int
      BY DEF Judged
    <2> QED BY <1>8, <2>1, <2>2 DEF Passes
  <1>9. CASE k = 6
    <2>1. /\ Comparison(u, v)[6] = v - u /\ Comparison(v, w)[6] = w - v
          /\ Comparison(u, w)[6] = w - u
      BY DEF Comparison
    <2>2. u \in Int /\ v \in Int /\ w \in Int
      BY DEF Judged
    <2> QED BY <1>9, <2>1, <2>2 DEF Passes
  <1> QED BY <1>4, <1>5, <1>6, <1>7, <1>8, <1>9

(* Lexicographic order is total and transitive.                            *)
LEMMA OutranksOrder ==
    ASSUME IInv, NEW R \in SUBSET Judged
    PROVE  /\ \A v \in R : \A w \in R : ~(Outranks(v, w) /\ Outranks(w, v))
           /\ IsTotalOrder({p \in R \X R : Outranks(p[1], p[2])}, R)
  <1> DEFINE C(v, w) == Comparison(v, w)
             Tied(v, w, k) == \A j \in 1 .. k - 1 : C(v, w)[j] = 0
  <1>1. \A v \in R, w \in R : Outranks(v, w) <=>
             \E k \in 1 .. 6 : C(v, w)[k] > 0 /\ Tied(v, w, k)
    BY DEF Outranks, Comparison
  <1>2. \A v \in R, w \in R, k \in 1 .. 6 :
           C(v, w)[k] \in Int /\ C(w, v)[k] = 0 - C(v, w)[k]
    BY Criteria
  <1>3. \A u \in R, v \in R, w \in R, k \in 1 .. 6 : Passes(C(u, v)[k], C(v, w)[k], C(u, w)[k])
    BY CriteriaPass
  <1>4. \A v \in R, w \in R : v # w => C(v, w)[6] # 0
    BY DEF Comparison, Judged
  <1> HIDE DEF C
  <1>5. ASSUME NEW v \in R, NEW w \in R, Outranks(v, w), Outranks(w, v) PROVE FALSE
    <2>1. PICK k \in 1 .. 6 : C(v, w)[k] > 0 /\ Tied(v, w, k)
      BY <1>1, <1>5
    <2>2. PICK j \in 1 .. 6 : C(w, v)[j] > 0 /\ Tied(w, v, j)
      BY <1>1, <1>5
    <2>3. CASE k < j
      BY <1>2, <2>1, <2>2, <2>3
    <2>4. CASE j < k
      BY <1>2, <2>1, <2>2, <2>4
    <2>5. CASE j = k
      <3>1. C(v, w)[k] \in Int /\ C(w, v)[k] = 0 - C(v, w)[k] /\ C(w, v)[k] > 0
        BY <1>2, <2>2, <2>5
      <3> QED BY <2>1, <3>1
    <2> QED BY <2>3, <2>4, <2>5
  <1>6. ASSUME NEW v \in R, NEW w \in R, v # w PROVE Outranks(v, w) \/ Outranks(w, v)
    <2> DEFINE T == {k \in 1 .. 6 : C(v, w)[k] # 0}
    <2>1. PICK k \in T : \A j \in T : k <= j
      <3>1. T \subseteq Nat /\ T # {}
        BY <1>4, <1>6
      <3> HIDE DEF T
      <3> QED BY <3>1, Least
    <2>2. \A j \in 1 .. k - 1 : C(v, w)[j] = 0
      BY <2>1
    <2>3. \A j \in 1 .. k - 1 : C(w, v)[j] = 0
      <3> SUFFICES ASSUME NEW j \in 1 .. k - 1 PROVE C(w, v)[j] = 0
        OBVIOUS
      <3>1. j \in 1 .. 6
        BY <2>1
      <3>2. C(w, v)[j] = 0 - C(v, w)[j]
        BY <1>2, <3>1
      <3> QED BY <2>2, <3>2
    <2>4. C(v, w)[k] > 0 \/ C(w, v)[k] > 0
      BY <1>2, <2>1
    <2> QED BY <1>1, <2>1, <2>2, <2>3, <2>4
  <1>7. ASSUME NEW u \in R, NEW v \in R, NEW w \in R, Outranks(u, v), Outranks(v, w)
        PROVE  Outranks(u, w)
    <2>1. PICK k \in 1 .. 6 : C(u, v)[k] > 0 /\ Tied(u, v, k)
      BY <1>1, <1>7
    <2>2. PICK j \in 1 .. 6 : C(v, w)[j] > 0 /\ Tied(v, w, j)
      BY <1>1, <1>7
    <2>3. \A i \in 1 .. 6 : C(u, v)[i] = 0 /\ C(v, w)[i] = 0 => C(u, w)[i] = 0
      <3> SUFFICES ASSUME NEW i \in 1 .. 6, C(u, v)[i] = 0, C(v, w)[i] = 0
                   PROVE  C(u, w)[i] = 0
        OBVIOUS
      <3>1. C(u, w)[i] >= 0
        BY <1>3 DEF Passes
      <3>2. C(v, u)[i] = 0 /\ C(w, v)[i] = 0
        BY <1>2
      <3>3. C(w, u)[i] >= 0
        BY <1>3, <3>2 DEF Passes
      <3> QED BY <1>2, <3>1, <3>3
    <2> DEFINE m == IF k <= j THEN k ELSE j
    <2>4. m \in 1 .. 6 /\ \A i \in 1 .. m - 1 : i \in 1 .. 6 /\ i \in 1 .. k - 1 /\ i \in 1 .. j - 1
      OBVIOUS
    <2>5. Tied(u, w, m)
      BY <2>1, <2>2, <2>3, <2>4
    <2>6. C(u, w)[m] > 0
      <3>1. /\ C(u, v)[m] >= 0 /\ C(v, w)[m] >= 0
            /\ C(u, v)[m] > 0 \/ C(v, w)[m] > 0
        <4>1. CASE k = j
          BY <1>2, <2>1, <2>2, <4>1
        <4>2. CASE k < j
          BY <1>2, <2>1, <2>2, <4>2
        <4>3. CASE j < k
          BY <1>2, <2>1, <2>2, <4>3
        <4> QED BY <4>1, <4>2, <4>3
      <3> QED BY <1>3, <2>4, <3>1 DEF Passes
    <2> QED BY <1>1, <2>4, <2>5, <2>6
  <1>8. IsTotalOrder({p \in R \X R : Outranks(p[1], p[2])}, R)
    <2> DEFINE G == {p \in R \X R : Outranks(p[1], p[2])}
    <2>1. \A v \in R, w \in R : <<v, w>> \in G <=> Outranks(v, w)
      OBVIOUS
    <2> HIDE DEF G
    <2>2. IsTotalOrder(G, R)
      BY <1>6, <1>7, <2>1 DEF IsTotalOrder
    <2> QED BY <2>2 DEF G
  <1> QED BY <1>5, <1>8

(* Whatever the evidence, one of the ranked strategies is ahead of all     *)
(* others, so that neither the order of registration nor that of the       *)
(* signals decides who trades (portfolio.py, the sort key of ranked).      *)
THEOREM OneIsSelected == Spec => []OneIsBest
  <1>1. ASSUME IInv, pc = "entries", NEW signals \in SUBSET deployed.active,
               Ranked(signals) # {}
        PROVE  Cardinality(Best(Ranked(signals))) = 1
    <2> DEFINE R == Ranked(signals)
               G == {p \in R \X R : Outranks(p[1], p[2])}
    <2>1. deployed.active \in SUBSET Versions
      BY <1>1 DEF IInv, TypeOK
    <2>2. R \subseteq signals /\ R \subseteq Versions
      BY <2>1 DEF Ranked, ActiveSignals
    <2>3. IsFiniteSet(R)
      BY <2>2, FS_Subset
    <2>4. R \in SUBSET Judged
      <3> SUFFICES ASSUME NEW v \in R PROVE v \in Judged
        OBVIOUS
      <3>1. EligibleForSelection(Known(v), regime)
        BY DEF Ranked
      <3>2. Cardinality(Known(v)) >= MinSamples
        BY <3>1 DEF EligibleForSelection, SelectionReady
      <3>3. Known(v) \in Rowset
        BY <1>1 DEF IInv, Known, RowsOf, Rowset
      <3>4. Cardinality(Known(v)) \in Nat
        BY <1>1, <3>3, PnlType
      <3> QED BY <2>2, <3>2, <3>3, <3>4 DEF Judged
    <2>5. /\ \A v \in R : \A w \in R : ~(Outranks(v, w) /\ Outranks(w, v))
          /\ IsTotalOrder(G, R)
      <3> HIDE DEF R
      <3> QED BY <1>1, <2>4, OutranksOrder
    <2>6. PICK v : IsAhead(v, R, G)
      <3> HIDE DEF R, G
      <3>1. R # {}
        BY <1>1 DEF R
      <3> QED BY <2>3, <2>5, <3>1, OneIsAhead
    <2>7. v \in R /\ \A w \in R \ {v} : Outranks(v, w)
      <3> HIDE DEF R
      <3> QED BY <2>6 DEF IsAhead
    <2> HIDE DEF R, G
    <2>8. Best(R) = {v}
      BY <2>5, <2>7 DEF Best
    <2>9. Cardinality(Best(R)) = 1
      BY <2>8, FS_Singleton
    <2> QED BY <2>9 DEF R
  <1>2. IInv => OneIsBest
    BY <1>1 DEF OneIsBest
  <1> QED BY <1>2, Invariant, PTL
=============================================================================
