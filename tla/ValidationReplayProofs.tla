----------------------- MODULE ValidationReplayProofs -----------------------
(***************************************************************************)
(* What ValidationReplay guarantees for every file of bars, calendar,      *)
(* rules, set of plans and number of runs and crashes.                     *)
(***************************************************************************)
EXTENDS ValidationReplay, FiniteSetTheorems, TLAPS

-----------------------------------------------------------------------------
(* Induction, and functions defined by it.                                 *)

(* A set of naturals has a least member.                                   *)
LEMMA Least ==
    ASSUME NEW T, T \subseteq Nat, T # {}
    PROVE  \E n \in T : \A m \in T : n <= m
  <1>1. PICK x \in T : \A y \in T : ~(<<y, x>> \in OpToRel(<, Nat))
    BY NatLessThanWellFounded, WFMin, Zenon
  <1>2. \A y \in T : ~(y < x)
    BY <1>1 DEF OpToRel
  <1> QED BY <1>2

(* What holds at 0 and is handed on up to N holds up to N.                 *)
LEMMA Induction ==
    ASSUME NEW N \in Nat, NEW S, 0 \in S,
           \A n \in 0 .. N - 1 : n \in S => n + 1 \in S
    PROVE  0 .. N \subseteq S
  <1> SUFFICES ASSUME ~(0 .. N \subseteq S) PROVE FALSE
    OBVIOUS
  <1> DEFINE T == (0 .. N) \ S
  <1>1. PICK n \in T : \A m \in T : n <= m
    <2>1. T \subseteq Nat /\ T # {}
      OBVIOUS
    <2> HIDE DEF T
    <2> QED BY <2>1, Least
  <1>2. n - 1 \in 0 .. N - 1 /\ n - 1 \in S
    BY <1>1
  <1> QED BY <1>1, <1>2

(* From a in S along n steps, each a function on S: what f tells of it.    *)
Leads(f, n, S, a, step) ==
    /\ f \in [0 .. n -> S] /\ f[0] = a
    /\ \A k \in 1 .. n : f[k] = step[k][f[k - 1]]

LEMMA Recursion ==
    ASSUME NEW N \in Nat, NEW S, NEW a \in S, NEW step \in [1 .. N -> [S -> S]]
    PROVE  \E f : Leads(f, N, S, a, step)
  <1> DEFINE T == {n \in 0 .. N : \E f : Leads(f, n, S, a, step)}
  <1>1. 0 \in T
    <2>1. Leads([k \in 0 .. 0 |-> a], 0, S, a, step)
      BY DEF Leads
    <2> QED BY <2>1
  <1>2. ASSUME NEW n \in 0 .. N - 1, n \in T
        PROVE  n + 1 \in T
    <2>1. PICK f : Leads(f, n, S, a, step)
      BY <1>2
    <2> DEFINE g == [k \in 0 .. n + 1 |->
                       IF k = n + 1 THEN step[n + 1][f[n]] ELSE f[k]]
    <2>2. g \in [0 .. n + 1 -> S] /\ g[0] = a
      <3>1. step[n + 1][f[n]] \in S
        BY <2>1 DEF Leads
      <3> QED BY <2>1, <3>1 DEF Leads
    <2>3. ASSUME NEW k \in 1 .. n + 1
          PROVE  g[k] = step[k][g[k - 1]]
      <3>1. g[k - 1] = f[k - 1]
        <4>1. k - 1 \in 0 .. n + 1 /\ k - 1 # n + 1
          OBVIOUS
        <4> QED BY <4>1
      <3>2. CASE k = n + 1
        <4>1. g[k] = step[k][f[n]] /\ k - 1 = n
          BY <3>2
        <4> QED BY <3>1, <4>1
      <3>3. CASE k \in 1 .. n
        BY <2>1, <3>1, <3>3 DEF Leads
      <3> QED BY <3>2, <3>3
    <2>4. Leads(g, n + 1, S, a, step)
      BY <2>2, <2>3 DEF Leads
    <2> HIDE DEF g
    <2> QED BY <2>4
  <1>3. 0 .. N \subseteq T
    <2> HIDE DEF T
    <2> QED BY <1>1, <1>2, Induction
  <1> QED BY <1>3

(* Max of some of the first n numbers is the largest of them.              *)
LEMMA MaxIn ==
    ASSUME NEW n \in Nat, NEW T, T \subseteq 1 .. n, T # {}
    PROVE  Max(T) \in T /\ \A k \in T : k <= Max(T)
  <1> DEFINE U == {n - k : k \in T}
  <1>1. PICK u \in U : \A v \in U : u <= v
    <2>1. \A k \in T : n - k \in Nat
      OBVIOUS
    <2>2. U \subseteq Nat /\ U # {}
      BY <2>1
    <2> HIDE DEF U
    <2> QED BY <2>2, Least
  <1>2. PICK m \in T : u = n - m
    BY <1>1
  <1>3. \A k \in T : k <= m
    <2> SUFFICES ASSUME NEW k \in T PROVE k <= m
      OBVIOUS
    <2>1. u <= n - k
      BY <1>1
    <2> QED BY <1>2, <2>1
  <1>4. \A k \in T : m >= k
    BY <1>2, <1>3
  <1>5. \E x \in T : \A k \in T : x >= k
    BY <1>4
  <1>6. Max(T) \in T /\ \A k \in T : Max(T) >= k
    BY <1>5 DEF Max
  <1> QED BY <1>6

-----------------------------------------------------------------------------
(* The bars of the file.                                                   *)

LEMMA BarTypes ==
    /\ Len(Bars) \in Nat
    /\ \A b \in BarIds :
          /\ Bars[b].symbol \in Symbols
          /\ Bars[b].start \in Nat /\ Bars[b].end \in Nat /\ Bars[b].close \in Nat
          /\ Bars[b].start < Bars[b].end
    /\ \A b \in BarIds : \A c \in 1 .. b : Bars[c].end <= Bars[b].end
  <1> DEFINE R == [symbol : Symbols, start : Nat, end : Nat, close : Nat]
  <1>1. Bars \in Seq(R)
    BY BarsAssumption
  <1>2. Len(Bars) \in Nat /\ \A b \in 1 .. Len(Bars) : Bars[b] \in R
    <2> HIDE DEF R
    <2> QED BY <1>1
  <1>3. \A r \in R : /\ r.symbol \in Symbols
                     /\ r.start \in Nat /\ r.end \in Nat /\ r.close \in Nat
    OBVIOUS
  <1> HIDE DEF R
  <1> QED BY <1>2, <1>3, BarsAssumption DEF BarIds

(* BarsUpTo exists: at every bar it is what its definition says.           *)
LEMMA BarsUpToDef ==
    ASSUME NEW s, NEW ids
    PROVE  /\ BarsUpTo(s, ids) \in [0 .. Len(Bars) -> Seq(BarIds)]
           /\ BarsUpTo(s, ids)[0] = <<>>
           /\ \A b \in BarIds : BarsUpTo(s, ids)[b] =
                 IF b \in ids /\ Bars[b].symbol = s
                   THEN Append(BarsUpTo(s, ids)[b - 1], b)
                   ELSE BarsUpTo(s, ids)[b - 1]
  <1> DEFINE S == Seq(BarIds)
             Longer(h, b) == IF b \in ids /\ Bars[b].symbol = s THEN Append(h, b) ELSE h
             step == [b \in 1 .. Len(Bars) |-> [h \in S |-> Longer(h, b)]]
             Def(f) == f = [b \in 0 .. Len(Bars) |->
                              IF b = 0 THEN <<>> ELSE Longer(f[b - 1], b)]
  <1>1. \A b \in BarIds, h \in S : Longer(h, b) \in S
    OBVIOUS
  <1>2. <<>> \in S
    OBVIOUS
  <1>3. \E f \in [0 .. Len(Bars) -> S] : Def(f)
    <2> HIDE DEF S, Longer
    <2>1. step \in [1 .. Len(Bars) -> [S -> S]]
      BY <1>1 DEF BarIds
    <2>2. PICK f : Leads(f, Len(Bars), S, <<>>, step)
      <3>1. Len(Bars) \in Nat
        BY BarTypes
      <3> HIDE DEF step
      <3> QED BY <1>2, <2>1, <3>1, Recursion
    <2>3. f \in [0 .. Len(Bars) -> S] /\ \A b \in 1 .. Len(Bars) : f[b - 1] \in S
      BY <2>2, BarTypes DEF Leads
    <2>4. \A b \in 1 .. Len(Bars) : f[b] = Longer(f[b - 1], b)
      BY <2>2, <2>3 DEF Leads
    <2>5. Def(f)
      BY <2>2, <2>3, <2>4, BarTypes DEF Leads
    <2> QED BY <2>3, <2>5
  <1> DEFINE upTo == BarsUpTo(s, ids)
  <1>4. Def(upTo)
    <2>1. upTo = CHOOSE f : Def(f)
      BY DEF BarsUpTo
    <2> HIDE DEF Def, upTo
    <2> QED BY <1>3, <2>1
  <1>5. \A b \in BarIds : b \in 0 .. Len(Bars) /\ b # 0
    BY BarTypes DEF BarIds
  <1>6. upTo[0] = <<>> /\ \A b \in BarIds : upTo[b] = Longer(upTo[b - 1], b)
    <2> HIDE DEF Longer, upTo
    <2>1. \A b \in 0 .. Len(Bars) :
            upTo[b] = IF b = 0 THEN <<>> ELSE Longer(upTo[b - 1], b)
      BY <1>4, Zenon
    <2>2. 0 \in 0 .. Len(Bars)
      BY BarTypes
    <2> QED BY <1>5, <2>1, <2>2
  <1>7. \A n \in 0 .. Len(Bars) : upTo[n] \in S
    <2> DEFINE T == {n \in 0 .. Len(Bars) : upTo[n] \in S}
    <2> HIDE DEF S, Longer, upTo
    <2>1. 0 \in T
      BY <1>2, <1>6, BarTypes
    <2>2. ASSUME NEW n \in 0 .. Len(Bars) - 1, n \in T
          PROVE  n + 1 \in T
      <3>1. n + 1 \in BarIds /\ n + 1 - 1 = n
        BY BarTypes DEF BarIds
      <3>2. upTo[n + 1] = Longer(upTo[n], n + 1)
        BY <1>6, <3>1
      <3> QED BY <1>1, <1>5, <2>2, <3>1, <3>2
    <2>3. 0 .. Len(Bars) \subseteq T
      <3> HIDE DEF T
      <3> QED BY <2>1, <2>2, BarTypes, Induction
    <2> QED BY <2>3
  <1>8. upTo \in [0 .. Len(Bars) -> S]
    <2> HIDE DEF S, Longer, upTo
    <2> QED BY <1>4, <1>7
  <1> QED BY <1>6, <1>8

LEMMA BarsOfType ==
    ASSUME NEW s, NEW ids
    PROVE  BarsOf(s, ids) \in Seq(BarIds)
  BY BarsUpToDef, BarTypes DEF BarsOf

(* What SessionGuard answers for a bar.                                    *)
LEMMA DateType ==
    ASSUME NEW t \in Nat
    PROVE  Date(t) \in Nat
  BY SessionAssumption DEF Date

LEMMA MinIn ==
    ASSUME NEW T, T \subseteq Nat, T # {}
    PROVE  Min(T) \in T /\ \A k \in T : Min(T) <= k
  <1>1. \E x \in T : \A k \in T : x =< k
    BY Least
  <1> QED BY <1>1 DEF Min

LEMMA MaxOfTwo ==
    ASSUME NEW a \in Int, NEW b \in Int
    PROVE  Max({a, b}) \in Int /\ Max({a, b}) >= a
  <1>1. \E x \in {a, b} : \A y \in {a, b} : x >= y
    <2>1. CASE a >= b
      BY <2>1
    <2>2. CASE b >= a
      BY <2>2
    <2> QED BY <2>1, <2>2
  <1> QED BY <1>1 DEF Max

LEMMA MinOfTwo ==
    ASSUME NEW a \in Int, NEW b \in Int
    PROVE  Min({a, b}) \in Int
  <1>1. \E x \in {a, b} : \A y \in {a, b} : x =< y
    <2>1. CASE a <= b
      BY <2>1
    <2>2. CASE b <= a
      BY <2>2
    <2> QED BY <2>1, <2>2
  <1> QED BY <1>1 DEF Min

-----------------------------------------------------------------------------
(* The split of the days: those of the development split come first, and   *)
(* in the file the bars of a split are a range.                            *)

BarDate(b) == Date(Bars[b].end)

LEMMA DatesRise ==
    ASSUME NEW t \in Nat, NEW u \in Nat, t <= u
    PROVE  Date(t) <= Date(u)
  <1> DEFINE c == DayLength
             p == t \div c
             q == u \div c
  <1>1. c \in Nat /\ c > 0
    BY SessionAssumption
  <1> HIDE DEF c
  <1>2. /\ p \in Nat /\ t % c \in Nat /\ t = c * p + (t % c)
        /\ q \in Nat /\ u % c \in 0 .. c - 1 /\ u = c * q + (u % c)
    BY <1>1, SMTT(30)
  <1> HIDE DEF p, q
  <1> SUFFICES ASSUME q < p PROVE FALSE
    BY <1>2 DEF Date, c, p, q
  <1>3. q + 1 <= p /\ c * q \in Int /\ c * p \in Int
    BY <1>1, <1>2
  <1>4. c * (q + 1) <= c * p
    BY <1>1, <1>2, <1>3, SMTT(30)
  <1>5. c * (q + 1) = c * q + c
    BY <1>1, <1>2, SMTT(30)
  <1> QED BY <1>1, <1>2, <1>3, <1>4, <1>5

LEMMA BarDates ==
    /\ \A b \in BarIds : BarDate(b) \in Nat
    /\ \A b \in BarIds : \A c \in 1 .. b : BarDate(c) <= BarDate(b)
  <1>1. \A b \in BarIds : \A c \in 1 .. b : c \in BarIds
    BY BarTypes DEF BarIds
  <1> QED BY <1>1, BarTypes, DateType, DatesRise DEF BarDate

LEMMA DatesAreFinite == Dates \subseteq Nat /\ IsFiniteSet(Dates)
  <1>1. Dates \subseteq Nat
    BY BarDates DEF Dates, BarDate
  <1>2. CASE BarIds = {}
    BY <1>2, FS_EmptySet DEF Dates
  <1>3. CASE BarIds # {}
    <2>1. Len(Bars) \in BarIds
      BY <1>3, BarTypes DEF BarIds
    <2>2. \A b \in BarIds : b \in 1 .. Len(Bars)
      BY DEF BarIds
    <2>3. \A d \in Dates : d <= BarDate(Len(Bars))
      BY <2>1, <2>2, BarDates DEF Dates, BarDate
    <2>4. BarDate(Len(Bars)) \in Nat
      BY <2>1, BarDates
    <2> QED BY <1>1, <2>3, <2>4, FS_BoundedSetOfNaturals
  <1> QED BY <1>1, <1>2, <1>3

LEMMA CutType == Cut \in Int /\ Cut >= 1
  <1>1. Cardinality(Dates) \in Nat
    BY DatesAreFinite, FS_CardinalityType
  <1>2. Cardinality(Dates) - 1 \in Int /\ (Cardinality(Dates) * 7) \div 10 \in Int
    BY <1>1
  <1> DEFINE most == Min({Cardinality(Dates) - 1, (Cardinality(Dates) * 7) \div 10})
  <1>3. most \in Int
    BY <1>2, MinOfTwo
  <1>4. Cut = Max({1, most})
    BY DEF Cut
  <1> HIDE DEF most
  <1> QED BY <1>3, <1>4, MaxOfTwo

DatesTo(d) == {c \in Dates : c <= d}

LEMMA DevDatesFirst ==
    ASSUME NEW d \in DevDates, NEW c \in Dates, c <= d
    PROVE  c \in DevDates
  <1>1. d \in Nat /\ c \in Nat /\ \A x \in Dates : x \in Nat
    BY DatesAreFinite DEF DevDates
  <1>2. DatesTo(c) \in SUBSET DatesTo(d) /\ DatesTo(d) \in SUBSET Dates
    <2>1. \A x \in Dates : x <= c => x <= d
      BY <1>1
    <2> QED BY <2>1 DEF DatesTo
  <1>3. IsFiniteSet(DatesTo(d)) /\ IsFiniteSet(DatesTo(c))
    BY <1>2, DatesAreFinite, FS_Subset
  <1>4. Cardinality(DatesTo(c)) <= Cardinality(DatesTo(d))
    BY <1>2, <1>3, FS_Subset
  <1>5. Cardinality(DatesTo(c)) \in Nat /\ Cardinality(DatesTo(d)) \in Nat
    BY <1>3, FS_CardinalityType
  <1>6. Cardinality(DatesTo(d)) <= Cut
    BY DEF DevDates, DatesTo
  <1>7. Cardinality(DatesTo(c)) <= Cut
    BY <1>4, <1>5, <1>6, CutType
  <1> QED BY <1>7 DEF DevDates, DatesTo

LEMMA SplitsHaveDates ==
    ASSUME NEW s \in Splits, NEW p, Accepted(p)
    PROVE  DatesOf(s) \subseteq Dates /\ DatesOf(s) # {}
  <1>1. DevDates \subseteq Dates /\ Cardinality(Dates) >= 2
    BY DEF DevDates, Accepted
  <1>2. DevDates # {}
    <2>1. Dates # {}
      BY <1>1, FS_EmptySet
    <2>2. PICK d \in Dates : \A c \in Dates : d <= c
      BY <2>1, DatesAreFinite, Least
    <2>3. DatesTo(d) = {d}
      <3>1. \A c \in Dates : c \in Nat
        BY DatesAreFinite
      <3>2. \A c \in Dates : c <= d <=> c = d
        BY <2>2, <3>1
      <3> QED BY <3>2 DEF DatesTo
    <2>4. Cardinality(DatesTo(d)) = 1
      BY <2>3, FS_Singleton
    <2>5. d \in DevDates
      BY <2>2, <2>4, CutType DEF DevDates, DatesTo
    <2> QED BY <2>5
  <1>3. Dates \ DevDates # {}
    <2>1. MinTradingDays \in Nat
      BY ValidationAssumption
    <2>2. MinTradingDays \div 2 \in Int
      BY <2>1
    <2>3. Cardinality(Dates \ DevDates) >= Max({1, MinTradingDays \div 2})
      BY DEF Accepted
    <2>4. IsFiniteSet(Dates \ DevDates)
      BY DatesAreFinite, FS_Difference
    <2>5. Cardinality(Dates \ DevDates) \in Nat
      BY <2>4, FS_CardinalityType
    <2>6. Cardinality(Dates \ DevDates) >= 1
      BY <2>2, <2>3, <2>5, MaxOfTwo
    <2> QED BY <2>6, FS_EmptySet
  <1> QED BY <1>1, <1>2, <1>3 DEF DatesOf, Splits

LEMMA SplitIsRange ==
    ASSUME NEW s \in Splits, NEW p, Accepted(p)
    PROVE  /\ FirstBar(s) \in BarIds
           /\ \A b \in BarIds : BarDate(b) < Min(DatesOf(s)) <=> b < FirstBar(s)
           /\ \A b \in BarIds : b < FirstBar(s) => BarDate(b) \notin DatesOf(s)
           /\ \A b, c \in BarIds :
                 /\ FirstBar(s) <= b /\ b <= c
                 /\ BarDate(b) \notin DatesOf(s)
                 => BarDate(c) \notin DatesOf(s)
  <1> DEFINE F == FirstBar(s)
             D == DatesOf(s)
             T == {b \in BarIds : BarDate(b) \in D}
  <1>1. D \subseteq Nat /\ D # {} /\ D \subseteq Dates
    BY SplitsHaveDates, DatesAreFinite
  <1>2. Min(D) \in D /\ \A d \in D : Min(D) <= d
    BY <1>1, MinIn
  <1> HIDE DEF D
  <1>3. T \subseteq Nat /\ T # {}
    <2>1. PICK d \in D : TRUE
      BY <1>1
    <2>2. PICK b \in BarIds : BarDate(b) = d
      BY <1>1, <2>1 DEF Dates, BarDate
    <2> QED BY <2>1, <2>2 DEF BarIds
  <1>4. F = Min(T)
    BY DEF FirstBar, BarDate, D
  <1> HIDE DEF F
  <1>5. F \in T /\ \A b \in T : F <= b
    <2> HIDE DEF T
    <2> QED BY <1>3, <1>4, MinIn
  <1>6. \A b, c \in BarIds : b <= c => BarDate(b) <= BarDate(c)
    BY BarDates DEF BarIds
  <1>7. \A b \in BarIds : b \in Nat /\ BarDate(b) \in Nat
    BY BarDates DEF BarIds
  <1>8. Min(D) = BarDate(F)
    <2>1. PICK b \in BarIds : BarDate(b) = Min(D)
      BY <1>1, <1>2 DEF Dates, BarDate
    <2>2. BarDate(F) <= Min(D)
      BY <1>2, <1>5, <1>6, <2>1
    <2>3. Min(D) <= BarDate(F) /\ BarDate(F) \in Nat /\ Min(D) \in Nat
      BY <1>1, <1>2, <1>5, <1>7
    <2> QED BY <2>2, <2>3
  <1>9. \A b \in BarIds : b < F => BarDate(b) \notin D
    BY <1>5, <1>7
  <1>10. \A b \in BarIds : BarDate(b) < Min(D) <=> b < F
    <2> SUFFICES ASSUME NEW b \in BarIds
                 PROVE  BarDate(b) < BarDate(F) <=> b < F
      BY <1>8
    <2>1. CASE b < F
      <3>1. BarDate(b) <= BarDate(F) /\ BarDate(b) # BarDate(F)
        BY <1>5, <1>6, <1>7, <1>9, <2>1
      <3> QED BY <1>5, <1>7, <2>1, <3>1
    <2>2. CASE ~(b < F)
      <3>1. F <= b
        BY <1>5, <1>7, <2>2
      <3>2. BarDate(F) <= BarDate(b)
        BY <1>5, <1>6, <3>1
      <3> QED BY <1>5, <1>7, <2>2, <3>2
    <2> QED BY <2>1, <2>2
  <1>11. ASSUME NEW b \in BarIds, NEW c \in BarIds, F <= b, b <= c, BarDate(b) \notin D,
                BarDate(c) \in D
         PROVE  FALSE
    <2>1. BarDate(F) <= BarDate(b) /\ BarDate(b) <= BarDate(c)
      BY <1>5, <1>6, <1>11
    <2>2. BarDate(b) \in Dates /\ BarDate(F) \in Dates
      BY <1>5 DEF Dates, BarDate
    <2>3. CASE s = "development"
      BY <1>11, <2>1, <2>2, <2>3, DevDatesFirst DEF DatesOf, D
    <2>4. CASE s = "holdout"
      <3>1. D = Dates \ DevDates
        BY <2>4 DEF DatesOf, D
      <3> QED BY <1>5, <1>11, <2>1, <2>2, <3>1, DevDatesFirst
    <2> QED BY <2>3, <2>4 DEF Splits
  <1> QED BY <1>5, <1>9, <1>10, <1>11 DEF F, D

-----------------------------------------------------------------------------
(* Histories.                                                              *)

(* The bars of a symbol among ids.                                         *)
LEMMA NextOfSymbol ==
    ASSUME NEW s, NEW n \in BarIds, NEW ids, \A b \in ids : b < n
    PROVE  BarsOf(s, ids \cup {n}) = IF Bars[n].symbol = s THEN Append(BarsOf(s, ids), n)
                                     ELSE BarsOf(s, ids)
  <1> DEFINE N == Len(Bars)
             U == BarsUpTo(s, ids)
             V == BarsUpTo(s, ids \cup {n})
             W == IF Bars[n].symbol = s THEN Append(U[n - 1], n) ELSE U[n - 1]
             T == {k \in 0 .. N : IF k < n THEN V[k] = U[k]
                                  ELSE V[k] = W /\ U[k] = U[n - 1]}
  <1>1. N \in Nat /\ n \in 1 .. N
    BY BarTypes DEF BarIds
  <1>2. /\ U[0] = <<>> /\ V[0] = <<>>
        /\ \A b \in 1 .. N :
              /\ U[b] = IF b \in ids /\ Bars[b].symbol = s THEN Append(U[b - 1], b) ELSE U[b - 1]
              /\ V[b] = IF b \in ids \cup {n} /\ Bars[b].symbol = s
                          THEN Append(V[b - 1], b) ELSE V[b - 1]
    BY BarsUpToDef DEF BarIds
  <1> HIDE DEF N, U, V
  <1>3. 0 \in T
    BY <1>1, <1>2
  <1>4. ASSUME NEW k \in 0 .. N - 1, k \in T
        PROVE  k + 1 \in T
    <2>1. k + 1 \in 1 .. N /\ k + 1 \in 0 .. N /\ k + 1 - 1 = k /\ k \in Nat
      BY <1>1
    <2>2. CASE k + 1 < n
      <3>1. k < n /\ V[k] = U[k] /\ k + 1 # n
        BY <1>1, <1>4, <2>1, <2>2
      <3> QED BY <1>2, <2>1, <2>2, <3>1
    <2>3. CASE k + 1 = n
      <3>1. k < n /\ V[k] = U[k] /\ k = n - 1 /\ n \notin ids
        BY <1>1, <1>4, <2>1, <2>3
      <3>2. V[n] = W /\ U[n] = U[n - 1]
        BY <1>1, <1>2, <3>1
      <3> QED BY <1>1, <2>1, <2>3, <3>2
    <2>4. CASE k + 1 > n
      <3>1. ~(k < n) /\ ~(k + 1 < n) /\ k + 1 \notin ids \cup {n}
        BY <1>1, <2>1, <2>4
      <3>2. V[k] = W /\ U[k] = U[n - 1]
        BY <1>4, <3>1
      <3>3. V[k + 1] = V[k] /\ U[k + 1] = U[k]
        BY <1>2, <2>1, <3>1
      <3> QED BY <2>1, <3>1, <3>2, <3>3
    <2> QED BY <1>1, <2>1, <2>2, <2>3, <2>4
  <1>5. N \in T
    <2>1. 0 .. N \subseteq T
      <3> HIDE DEF T
      <3> QED BY <1>1, <1>3, <1>4, Induction
    <2> QED BY <1>1, <2>1
  <1>6. V[N] = W /\ U[N] = U[n - 1]
    BY <1>1, <1>5
  <1> QED BY <1>6 DEF U, V, N, BarsOf

(* The history of a symbol when the regular bars before n have been read.  *)
HistoryAt(s, n) == BarsOf(s, {b \in RegularBars : b < n})

LEMMA HistoryNext ==
    ASSUME NEW s, NEW n \in BarIds
    PROVE  /\ n \notin RegularBars => HistoryAt(s, n + 1) = HistoryAt(s, n)
           /\ n \in RegularBars =>
                 HistoryAt(s, n + 1) = IF Bars[n].symbol = s THEN Append(HistoryAt(s, n), n)
                                       ELSE HistoryAt(s, n)
  <1> DEFINE before == {b \in RegularBars : b < n}
             upTo == {b \in RegularBars : b < n + 1}
  <1>1. n \in Nat /\ RegularBars \subseteq Nat
    BY DEF BarIds, RegularBars
  <1>2. \A b \in RegularBars : b < n + 1 <=> b < n \/ b = n
    BY <1>1
  <1>3. n \notin RegularBars => upTo = before
    BY <1>2
  <1>4. n \in RegularBars => upTo = before \cup {n}
    BY <1>2
  <1>5. BarsOf(s, before \cup {n}) = IF Bars[n].symbol = s THEN Append(BarsOf(s, before), n)
                                     ELSE BarsOf(s, before)
    <2>1. \A b \in before : b < n
      OBVIOUS
    <2> HIDE DEF before
    <2> QED BY <2>1, NextOfSymbol
  <1> QED BY <1>3, <1>4, <1>5 DEF HistoryAt

(* What warms up a split is what is before its first bar.                  *)
LEMMA WarmUpIsPast ==
    ASSUME NEW s \in Splits, NEW p, Accepted(p)
    PROVE  Warm(s) = [y \in Symbols |-> HistoryAt(y, FirstBar(s))]
  <1>1. \A b \in RegularBars : b \in BarIds
    BY DEF RegularBars
  <1>2. {b \in RegularBars : BarDate(b) < Min(DatesOf(s))} = {b \in RegularBars : b < FirstBar(s)}
    BY <1>1, SplitIsRange
  <1>3. \A y : WarmUp(s, y) = HistoryAt(y, FirstBar(s))
    BY <1>2 DEF WarmUp, HistoryAt, BarDate
  <1> QED BY <1>3 DEF Warm

-----------------------------------------------------------------------------
(* Types.  A position is held by a version exactly when it is there.       *)

Versions == {p.version : p \in Plans}
Reasons == {"STOP", "TARGET", "FORCED"}
AnyRegime == {RegimeOf(h) : h \in [Symbols -> Seq(BarIds)]}
RegimeRow == [bar : BarIds, regime : AnyRegime]

Database ==
    [entered : [Symbols -> 0 .. Len(Bars)], holder : [Symbols -> Versions \cup {None}],
     cooldown : [Symbols -> Nat], trades : Seq(Trade), regimes : Seq(RegimeRow),
     marked : SUBSET Nat]

Holds(db, y) == db.entered[y] # 0
Books == {db \in Database : \A y \in Symbols : Holds(db, y) <=> db.holder[y] # None}

Summaries == {Summary(db) : db \in Books} \cup {None}
Memory == [plan : Plans \cup {None}, split : Splits, next : 0 .. Len(Bars) + 1,
           history : [Symbols -> Seq(BarIds)], summary : [Splits -> Summaries]]

LEMMA Parameters ==
    /\ StopCooldown \in Nat /\ MaxRuns \in Nat /\ MaxCrashes \in Nat
    /\ 0 \in 0 .. Len(Bars) /\ 0 \in 0 .. Len(Bars) + 1 /\ Len(Bars) \in 0 .. Len(Bars)
    /\ BarIds \subseteq 0 .. Len(Bars) /\ BarIds \subseteq 0 .. Len(Bars) + 1
    /\ None \notin Versions
  BY BarTypes, RulesAssumption, ValidationAssumption, PlansAssumption DEF BarIds, Versions

LEMMA EmptyBook == EmptyDatabase \in Books /\ EmptyDatabase.marked = {}
  <1>1. <<>> \in Seq(Trade) /\ <<>> \in Seq(RegimeRow)
    OBVIOUS
  <1> HIDE DEF Trade, RegimeRow
  <1> QED BY <1>1, Parameters DEF EmptyDatabase, Books, Database, Holds

(* A sale.                                                                 *)
LEMMA ClosedParts ==
    ASSUME NEW db \in Books, NEW b \in BarIds, NEW reason \in Reasons,
           Holds(db, Bars[b].symbol)
    PROVE  /\ Closed(db, b, reason) \in Books
           /\ Closed(db, b, reason).entered = [db.entered EXCEPT ![Bars[b].symbol] = 0]
           /\ Closed(db, b, reason).holder = [db.holder EXCEPT ![Bars[b].symbol] = None]
           /\ Closed(db, b, reason).cooldown = db.cooldown
           /\ Closed(db, b, reason).trades =
                 Append(db.trades, [version |-> db.holder[Bars[b].symbol],
                                    symbol |-> Bars[b].symbol,
                                    entry |-> db.entered[Bars[b].symbol],
                                    exit |-> b, reason |-> reason])
           /\ Closed(db, b, reason).regimes = db.regimes
           /\ Closed(db, b, reason).marked = db.marked
  <1> DEFINE s == Bars[b].symbol
             trade == [version |-> db.holder[s], symbol |-> s, entry |-> db.entered[s],
                       exit |-> b, reason |-> reason]
  <1>1. s \in Symbols
    BY BarTypes
  <1> HIDE DEF s
  <1>2. db \in Database /\ \A y \in Symbols : Holds(db, y) <=> db.holder[y] # None
    BY DEF Books
  <1>3. trade \in Trade
    <2>1. db.holder[s] \in Versions
      BY <1>1, <1>2 DEF Database, s
    <2>2. db.entered[s] \in BarIds
      BY <1>1, <1>2, BarTypes DEF Database, Holds, s, BarIds
    <2> QED BY <1>1, <2>1, <2>2 DEF Trade, Versions, Reasons
  <1> HIDE DEF trade
  <1>4. Append(db.trades, trade) \in Seq(Trade)
    BY <1>2, <1>3 DEF Database
  <1>5. /\ [db.entered EXCEPT ![s] = 0] \in [Symbols -> 0 .. Len(Bars)]
        /\ [db.holder EXCEPT ![s] = None] \in [Symbols -> Versions \cup {None}]
    BY <1>1, <1>2, Parameters DEF Database
  <1>6. Closed(db, b, reason) = [db EXCEPT !.entered = [db.entered EXCEPT ![s] = 0],
                                           !.holder = [db.holder EXCEPT ![s] = None],
                                           !.trades = Append(db.trades, trade)]
    BY <1>2 DEF Closed, Database, s, trade
  <1>7. Closed(db, b, reason) \in Database
    BY <1>2, <1>4, <1>5, <1>6 DEF Database
  <1>8. /\ Closed(db, b, reason).entered = [db.entered EXCEPT ![s] = 0]
        /\ Closed(db, b, reason).holder = [db.holder EXCEPT ![s] = None]
    BY <1>2, <1>6 DEF Database
  <1>9. \A y \in Symbols :
           Holds(Closed(db, b, reason), y) <=> Closed(db, b, reason).holder[y] # None
    BY <1>1, <1>2, <1>8 DEF Database, Holds
  <1>10. Closed(db, b, reason) \in Books
    BY <1>7, <1>9 DEF Books
  <1> QED BY <1>2, <1>6, <1>8, <1>10 DEF Database, s, trade

(* A purchase.                                                             *)
LEMMA BoughtParts ==
    ASSUME NEW db \in Books, NEW b \in BarIds, NEW version \in Versions
    PROVE  /\ Bought(db, b, version) \in Books
           /\ Bought(db, b, version).entered = [db.entered EXCEPT ![Bars[b].symbol] = b]
           /\ Bought(db, b, version).holder = [db.holder EXCEPT ![Bars[b].symbol] = version]
           /\ Bought(db, b, version).cooldown = db.cooldown
           /\ Bought(db, b, version).trades = db.trades
           /\ Bought(db, b, version).regimes = db.regimes
           /\ Bought(db, b, version).marked = db.marked
  <1> DEFINE s == Bars[b].symbol
  <1>1. s \in Symbols /\ b # 0
    BY BarTypes DEF BarIds
  <1> HIDE DEF s
  <1>2. db \in Database /\ \A y \in Symbols : Holds(db, y) <=> db.holder[y] # None
    BY DEF Books
  <1>3. /\ [db.entered EXCEPT ![s] = b] \in [Symbols -> 0 .. Len(Bars)]
        /\ [db.holder EXCEPT ![s] = version] \in [Symbols -> Versions \cup {None}]
    BY <1>1, <1>2, Parameters DEF Database
  <1>4. Bought(db, b, version) = [db EXCEPT !.entered = [db.entered EXCEPT ![s] = b],
                                            !.holder = [db.holder EXCEPT ![s] = version]]
    BY <1>2 DEF Bought, Database, s
  <1>5. Bought(db, b, version) \in Database
    BY <1>2, <1>3, <1>4 DEF Database
  <1>6. /\ Bought(db, b, version).entered = [db.entered EXCEPT ![s] = b]
        /\ Bought(db, b, version).holder = [db.holder EXCEPT ![s] = version]
    BY <1>2, <1>4 DEF Database
  <1>7. \A y \in Symbols :
           Holds(Bought(db, b, version), y) <=> Bought(db, b, version).holder[y] # None
    BY <1>1, <1>2, <1>6, Parameters DEF Database, Holds
  <1>8. Bought(db, b, version) \in Books
    BY <1>5, <1>7 DEF Books
  <1> QED BY <1>2, <1>4, <1>6, <1>8 DEF Database, s

(* The other writes: each changes a table and leaves the others.           *)
LEMMA CooledParts ==
    ASSUME NEW db \in Books, NEW s \in Symbols, NEW t \in Nat
    PROVE  LET new == [db EXCEPT !.cooldown[s] = t]
           IN  /\ new \in Books
               /\ new.cooldown = [db.cooldown EXCEPT ![s] = t]
               /\ new.entered = db.entered /\ new.holder = db.holder
               /\ new.trades = db.trades /\ new.regimes = db.regimes /\ new.marked = db.marked
  <1> DEFINE new == [db EXCEPT !.cooldown[s] = t]
  <1>1. db \in Database
    BY DEF Books
  <1>2. [db.cooldown EXCEPT ![s] = t] \in [Symbols -> Nat]
    BY <1>1 DEF Database
  <1>3. new \in Database
    BY <1>1, <1>2 DEF Database
  <1>4. /\ new.cooldown = [db.cooldown EXCEPT ![s] = t]
        /\ new.entered = db.entered /\ new.holder = db.holder
        /\ new.trades = db.trades /\ new.regimes = db.regimes /\ new.marked = db.marked
    BY <1>1 DEF Database
  <1> HIDE DEF new
  <1>5. new \in Books
    BY <1>3, <1>4 DEF Books, Holds
  <1> QED BY <1>4, <1>5 DEF new

LEMMA RegimeParts ==
    ASSUME NEW db \in Books, NEW row \in RegimeRow
    PROVE  LET new == [db EXCEPT !.regimes = Append(@, row)]
           IN  /\ new \in Books
               /\ new.regimes = Append(db.regimes, row)
               /\ new.entered = db.entered /\ new.holder = db.holder
               /\ new.cooldown = db.cooldown /\ new.trades = db.trades /\ new.marked = db.marked
  <1> DEFINE new == [db EXCEPT !.regimes = Append(@, row)]
  <1> HIDE DEF RegimeRow
  <1>1. db \in Database
    BY DEF Books
  <1>2. Append(db.regimes, row) \in Seq(RegimeRow)
    BY <1>1 DEF Database
  <1>3. new \in Database
    BY <1>1, <1>2 DEF Database
  <1>4. /\ new.regimes = Append(db.regimes, row)
        /\ new.entered = db.entered /\ new.holder = db.holder
        /\ new.cooldown = db.cooldown /\ new.trades = db.trades /\ new.marked = db.marked
    BY <1>1 DEF Database
  <1> HIDE DEF new
  <1>5. new \in Books
    BY <1>3, <1>4 DEF Books, Holds
  <1> QED BY <1>4, <1>5 DEF new

LEMMA MarkedParts ==
    ASSUME NEW db \in Books, NEW marks \in SUBSET Nat
    PROVE  LET new == [db EXCEPT !.marked = marks]
           IN  /\ new \in Books
               /\ new.marked = marks
               /\ new.entered = db.entered /\ new.holder = db.holder
               /\ new.cooldown = db.cooldown /\ new.trades = db.trades
               /\ new.regimes = db.regimes
  <1> DEFINE new == [db EXCEPT !.marked = marks]
  <1>1. db \in Database
    BY DEF Books
  <1>2. new \in Database
    BY <1>1 DEF Database
  <1>3. /\ new.marked = marks
        /\ new.entered = db.entered /\ new.holder = db.holder
        /\ new.cooldown = db.cooldown /\ new.trades = db.trades /\ new.regimes = db.regimes
    BY <1>1 DEF Database
  <1> HIDE DEF new
  <1>4. new \in Books
    BY <1>2, <1>3 DEF Books, Holds
  <1> QED BY <1>3, <1>4 DEF new

Labels == {"idle", "bar", "exit", "cooldown", "regime", "entry", "save", "eod"}
Working == {"exit", "cooldown", "regime", "entry", "save", "eod"}

(* Where a run stands.                                                     *)
RunOK ==
    /\ pc \in Labels
    /\ pc # "idle" => /\ run.plan \in Plans /\ Accepted(run.plan)
                      /\ FirstBar(run.split) <= run.next
    /\ pc \in Working => run.next \in Replayed(run.split)

TypeInv ==
    /\ work \in [Splits -> Books]
    /\ \A s \in Splits : work[s].marked \subseteq DatesOf(s)
    /\ run \in Memory
    /\ runs \in 0 .. MaxRuns /\ crashes \in 0 .. MaxCrashes
    /\ RunOK

LEMMA NoRunType == NoRun \in Memory
  <1>1. <<>> \in Seq(BarIds)
    OBVIOUS
  <1>2. [s \in Symbols |-> <<>>] \in [Symbols -> Seq(BarIds)]
    BY <1>1
  <1>3. [s \in Splits |-> None] \in [Splits -> Summaries]
    BY DEF Summaries
  <1> HIDE DEF Summaries
  <1> QED BY <1>2, <1>3, Parameters DEF NoRun, Memory, Splits

LEMMA InitType == Init => TypeInv
  <1> SUFFICES ASSUME Init PROVE TypeInv
    OBVIOUS
  <1>1. work \in [Splits -> Books] /\ \A s \in Splits : work[s].marked = {}
    BY EmptyBook DEF Init
  <1> QED BY <1>1, NoRunType, Parameters DEF Init, TypeInv, RunOK, Labels, Working

LEMMA Wrote ==
    ASSUME TypeInv, NEW db \in Books, Write(db)
    PROVE  /\ work' \in [Splits -> Books] /\ work'[run.split] = db
           /\ \A s \in Splits : s # run.split => work'[s] = work[s]
  <1>1. run.split \in Splits /\ work \in [Splits -> Books]
    BY DEF TypeInv, Memory
  <1> QED BY <1>1 DEF Write

(* The bar at hand of a run that is at work.                               *)
LEMMA AtWork ==
    ASSUME TypeInv, pc \in Working
    PROVE  /\ run.next \in BarIds /\ run.next \in RegularBars
           /\ Bar = Bars[run.next] /\ Bar.symbol \in Symbols /\ Bar.end \in Nat
           /\ BarDate(run.next) \in DatesOf(run.split)
           /\ run.split \in Splits /\ run.plan \in Plans
           /\ Db \in Books /\ Db = work[run.split]
  <1>1. run.next \in Replayed(run.split) /\ pc # "idle"
    BY DEF TypeInv, RunOK, Working
  <1>2. run.next \in BarIds /\ run.next \in RegularBars /\ BarDate(run.next) \in DatesOf(run.split)
    BY <1>1 DEF Replayed, RegularBars, BarDate
  <1>3. run.split \in Splits /\ work \in [Splits -> Books] /\ run.plan \in Plans
    BY <1>1 DEF TypeInv, RunOK, Memory
  <1> QED BY <1>2, <1>3, BarTypes DEF Bar, Db

LEMMA ExitReasons ==
    ASSUME NEW bar, NEW e
    PROVE  ExitReason(bar, e) # "NONE" => ExitReason(bar, e) \in Reasons /\ e # 0
  BY DEF ExitReason, Reasons

(* What each kind of step does with the memory of a run.                   *)
LEMMA MovesOn ==
    ASSUME TypeInv, run.next \in BarIds, run' = [run EXCEPT !.next = @ + 1]
    PROVE  /\ run' \in Memory /\ run'.next = run.next + 1
           /\ run'.plan = run.plan /\ run'.split = run.split
           /\ run'.history = run.history /\ run'.summary = run.summary
  <1>1. run \in Memory /\ run.next + 1 \in 0 .. Len(Bars) + 1
    BY BarTypes DEF TypeInv, BarIds
  <1> HIDE DEF Summaries
  <1> QED BY <1>1 DEF Memory

LEMMA Reads ==
    ASSUME TypeInv, run.next \in BarIds,
           run' = [run EXCEPT !.history[Bar.symbol] = Append(@, run.next)]
    PROVE  /\ run' \in Memory /\ run'.next = run.next
           /\ run'.plan = run.plan /\ run'.split = run.split /\ run'.summary = run.summary
           /\ \A s \in Symbols :
                 run'.history[s] = IF s = Bars[run.next].symbol
                                     THEN Append(run.history[s], run.next)
                                     ELSE run.history[s]
  <1>1. run \in Memory /\ Bar.symbol \in Symbols /\ Bar = Bars[run.next]
    BY BarTypes DEF TypeInv, Bar
  <1> DEFINE longer == [run.history EXCEPT ![Bar.symbol] = Append(@, run.next)]
  <1>2. longer \in [Symbols -> Seq(BarIds)]
    <2>1. run.history \in [Symbols -> Seq(BarIds)]
      BY <1>1 DEF Memory
    <2>2. Append(run.history[Bar.symbol], run.next) \in Seq(BarIds)
      BY <1>1, <2>1
    <2> QED BY <2>1, <2>2
  <1>3. \A s \in Symbols : longer[s] = IF s = Bars[run.next].symbol
                                         THEN Append(run.history[s], run.next)
                                         ELSE run.history[s]
    BY <1>1 DEF Memory
  <1>4. run' = [run EXCEPT !.history = longer]
    BY <1>1 DEF Memory
  <1> HIDE DEF Summaries, longer
  <1> QED BY <1>1, <1>2, <1>3, <1>4 DEF Memory

LEMMA Starts ==
    ASSUME NEW p \in Plans, Accepted(p),
           run' = [NoRun EXCEPT !.plan = p, !.next = FirstBar("development"),
                                !.history = Warm("development")]
    PROVE  /\ run' \in Memory /\ run'.next = FirstBar("development") /\ run'.plan = p
           /\ run'.split = "development" /\ run'.history = Warm("development")
  <1>1. FirstBar("development") \in 0 .. Len(Bars) + 1
    BY SplitIsRange, Parameters DEF Splits
  <1>2. Warm("development") \in [Symbols -> Seq(BarIds)]
    BY BarsOfType DEF Warm, WarmUp
  <1> HIDE DEF Summaries
  <1> QED BY <1>1, <1>2, NoRunType DEF NoRun, Memory

LEMMA Turns ==
    ASSUME TypeInv, pc # "idle", run.split = "development", EndDevelopment
    PROVE  /\ run' \in Memory /\ run'.next = FirstBar("holdout") /\ run'.plan = run.plan
           /\ run'.split = "holdout" /\ run'.history = Warm("holdout")
           /\ run'.summary["development"] = Summary(Db)
  <1>1. run \in Memory /\ Accepted(run.plan)
    BY DEF TypeInv, RunOK
  <1>2. FirstBar("holdout") \in 0 .. Len(Bars) + 1
    BY <1>1, SplitIsRange, Parameters DEF Splits
  <1>3. Warm("holdout") \in [Symbols -> Seq(BarIds)]
    BY BarsOfType DEF Warm, WarmUp
  <1>4. Db \in Books
    BY <1>1 DEF TypeInv, Memory, Db
  <1>5. Summary(Db) \in Summaries
    BY <1>4 DEF Summaries
  <1>6. run' = [run EXCEPT !.split = "holdout", !.next = FirstBar("holdout"),
                           !.history = Warm("holdout"),
                           !.summary = [run.summary EXCEPT !["development"] = Summary(Db)]]
    BY <1>1 DEF EndDevelopment, Memory
  <1>7. /\ [run.summary EXCEPT !["development"] = Summary(Db)] \in [Splits -> Summaries]
        /\ [run.summary EXCEPT !["development"] = Summary(Db)]["development"] = Summary(Db)
    BY <1>1, <1>5 DEF Memory, Splits
  <1> HIDE DEF Summaries
  <1> QED BY <1>1, <1>2, <1>3, <1>6, <1>7 DEF Memory, Splits

(* What the steps write.                                                   *)
LEMMA ExitEffect ==
    ASSUME TypeInv, Exit
    PROVE  /\ run' = run /\ pc = "exit"
           /\ \/ /\ ExitReason(Bar, Db.entered[Bar.symbol]) = "NONE"
                 /\ work' = work /\ pc' = "regime"
              \/ /\ ExitReason(Bar, Db.entered[Bar.symbol]) \in Reasons
                 /\ Holds(Db, Bar.symbol)
                 /\ Write(Closed(Db, run.next, ExitReason(Bar, Db.entered[Bar.symbol])))
                 /\ pc' = IF ExitReason(Bar, Db.entered[Bar.symbol]) = "STOP"
                            THEN "cooldown" ELSE "regime"
  <1> DEFINE reason == ExitReason(Bar, Db.entered[Bar.symbol])
  <1>1. reason # "NONE" => reason \in Reasons /\ Db.entered[Bar.symbol] # 0
    BY ExitReasons
  <1>2. /\ run' = run /\ pc = "exit"
        /\ IF reason = "NONE" THEN work' = work ELSE Write(Closed(Db, run.next, reason))
        /\ pc' = IF reason = "STOP" THEN "cooldown" ELSE "regime"
    BY DEF Exit, Goto
  <1> HIDE DEF reason
  <1>3. CASE reason = "NONE"
    BY <1>2, <1>3 DEF reason
  <1>4. CASE reason # "NONE"
    BY <1>1, <1>2, <1>4 DEF reason, Holds
  <1> QED BY <1>3, <1>4

LEMMA WroteFits ==
    ASSUME TypeInv, NEW db \in Books, Write(db), db.marked \subseteq DatesOf(run.split)
    PROVE  /\ work' \in [Splits -> Books]
           /\ \A s \in Splits : work'[s].marked \subseteq DatesOf(s)
  <1>1. \A s \in Splits : work[s].marked \subseteq DatesOf(s)
    BY DEF TypeInv
  <1>2. /\ work' \in [Splits -> Books] /\ work'[run.split] = db
        /\ \A s \in Splits : s # run.split => work'[s] = work[s]
    BY Wrote
  <1>3. ASSUME NEW s \in Splits
        PROVE  work'[s].marked \subseteq DatesOf(s)
    <2>1. CASE s = run.split
      BY <1>2, <2>1
    <2>2. CASE s # run.split
      BY <1>1, <1>2, <2>2
    <2> QED BY <2>1, <2>2
  <1> QED BY <1>2, <1>3

(* Every step keeps the types.                                             *)
LEMMA TypeStep ==
    ASSUME TypeInv, [Next]_vars
    PROVE  TypeInv'
  <1> DEFINE Fits == /\ work \in [Splits -> Books]
                     /\ \A s \in Splits : work[s].marked \subseteq DatesOf(s)
             Counts == runs \in 0 .. MaxRuns /\ crashes \in 0 .. MaxCrashes
  <1>1. Fits /\ Counts /\ run \in Memory /\ RunOK
    BY DEF TypeInv
  <1>2. TypeInv' <=> Fits' /\ Counts' /\ run' \in Memory /\ RunOK'
    BY DEF TypeInv
  <1>3. work' = work => Fits'
    BY <1>1
  <1>4. runs' = runs /\ crashes' = crashes => Counts'
    BY <1>1
  <1>5. pc \in Working => Db.marked \subseteq DatesOf(run.split) /\ Db \in Books
    BY <1>1, AtWork DEF Fits
  <1>6. ASSUME NEW db \in Books, Write(db), db.marked \subseteq DatesOf(run.split)
        PROVE  Fits'
    BY <1>6, WroteFits
  <1> USE DEF Working, Labels
  <1>7. CASE Start
    <2>1. PICK p \in Plans : /\ Accepted(p)
                             /\ run' = [NoRun EXCEPT !.plan = p, !.next = FirstBar("development"),
                                                     !.history = Warm("development")]
      BY <1>7 DEF Start
    <2>2. run' \in Memory /\ run'.plan = p /\ run'.next = FirstBar("development")
          /\ run'.split = "development"
      BY <2>1, Starts
    <2>3. FirstBar("development") \in Nat
      BY <2>1, SplitIsRange DEF Splits, BarIds
    <2>4. RunOK'
      BY <1>7, <2>1, <2>2, <2>3 DEF Start, Goto, RunOK
    <2>5. Counts'
      BY <1>1, <1>7, Parameters DEF Start
    <2> HIDE DEF Fits, Counts
    <2> QED BY <1>2, <1>3, <1>7, <2>2, <2>4, <2>5 DEF Start
  <1>8. CASE SkipBar
    <2>1. run.next \in BarIds /\ run' = [run EXCEPT !.next = @ + 1] /\ pc = "bar" /\ pc' = pc
          /\ work' = work /\ runs' = runs /\ crashes' = crashes
      BY <1>8 DEF SkipBar, InSplit
    <2>2. run' \in Memory /\ run'.next = run.next + 1 /\ run'.plan = run.plan
          /\ run'.split = run.split
      BY <2>1, MovesOn
    <2>3. FirstBar(run.split) \in Nat
      BY <1>1, <2>1, SplitIsRange DEF RunOK, Memory, BarIds
    <2>4. RunOK'
      BY <1>1, <2>1, <2>2, <2>3 DEF RunOK, BarIds
    <2> HIDE DEF Fits, Counts
    <2> QED BY <1>2, <1>3, <1>4, <2>1, <2>2, <2>4
  <1>9. CASE ReadBar
    <2>1. /\ run.next \in BarIds /\ pc = "bar" /\ pc' = "exit" /\ IsRegular(Bars[run.next])
          /\ BarDate(run.next) \in DatesOf(run.split)
          /\ run' = [run EXCEPT !.history[Bar.symbol] = Append(@, run.next)]
          /\ work' = work /\ runs' = runs /\ crashes' = crashes
      BY <1>9 DEF ReadBar, InSplit, Goto, Bar, BarDate
    <2>2. run' \in Memory /\ run'.next = run.next /\ run'.plan = run.plan
          /\ run'.split = run.split
      BY <2>1, Reads
    <2>3. run.next \in Replayed(run.split)
      BY <2>1 DEF Replayed, RegularBars, BarDate
    <2>4. RunOK'
      BY <1>1, <2>1, <2>2, <2>3 DEF RunOK
    <2> HIDE DEF Fits, Counts
    <2> QED BY <1>2, <1>3, <1>4, <2>1, <2>2, <2>4
  <1>10. CASE Exit
    <2>1. pc = "exit" /\ pc' \in {"cooldown", "regime"} /\ run' = run
          /\ runs' = runs /\ crashes' = crashes
      BY <1>10 DEF Exit, Goto
    <2>2. Fits'
      <3>1. CASE work' = work
        BY <1>3, <3>1
      <3>2. CASE work' # work
        <4> DEFINE reason == ExitReason(Bar, Db.entered[Bar.symbol])
                   new == Closed(Db, run.next, reason)
        <4>1. reason \in Reasons /\ Holds(Db, Bar.symbol) /\ Write(new)
          BY <1>10, <3>2, ExitEffect
        <4>2. run.next \in BarIds /\ Db \in Books /\ Bar = Bars[run.next]
          BY <2>1, AtWork
        <4> HIDE DEF reason
        <4>3. new \in Books /\ new.marked = Db.marked
          BY <4>1, <4>2, ClosedParts
        <4> HIDE DEF new, Fits
        <4> QED BY <1>5, <1>6, <2>1, <4>1, <4>3
      <3> QED BY <3>1, <3>2
    <2>3. RunOK'
      BY <1>1, <2>1 DEF RunOK
    <2> HIDE DEF Fits, Counts
    <2> QED BY <1>1, <1>2, <1>4, <2>1, <2>2, <2>3
  <1>11. CASE StartCooldown
    <2> DEFINE new == [Db EXCEPT !.cooldown[Bar.symbol] = Bar.end + StopCooldown]
    <2>1. pc = "cooldown" /\ pc' = "regime" /\ run' = run /\ Write(new)
          /\ runs' = runs /\ crashes' = crashes
      BY <1>11 DEF StartCooldown, Goto
    <2>2. Bar.symbol \in Symbols /\ Bar.end + StopCooldown \in Nat /\ Db \in Books
      BY <2>1, AtWork, Parameters
    <2>3. new \in Books /\ new.marked = Db.marked
      BY <2>2, CooledParts
    <2>4. RunOK'
      BY <1>1, <2>1 DEF RunOK
    <2> HIDE DEF Fits, Counts, new
    <2>5. Fits'
      BY <1>5, <1>6, <2>1, <2>3
    <2> QED BY <1>1, <1>2, <1>4, <2>1, <2>4, <2>5
  <1>12. CASE RecordRegime
    <2>1. pc = "regime" /\ pc' \in {"entry", "save"} /\ run' = run
          /\ runs' = runs /\ crashes' = crashes
      BY <1>12 DEF RecordRegime, Goto
    <2>2. Fits'
      <3> DEFINE row == [bar |-> run.next, regime |-> RegimeOf(run.history)]
                 new == [Db EXCEPT !.regimes = Append(@, row)]
      <3>1. work' = work \/ Write(new)
        BY <1>12 DEF RecordRegime
      <3>2. row \in RegimeRow
        <4>1. run.history \in [Symbols -> Seq(BarIds)]
          BY <1>1 DEF Memory
        <4>2. RegimeOf(run.history) \in AnyRegime
          BY <4>1 DEF AnyRegime
        <4> QED BY <2>1, <4>2, AtWork DEF RegimeRow
      <3> HIDE DEF row
      <3>3. new \in Books /\ new.marked = Db.marked
        BY <1>5, <2>1, <3>2, RegimeParts
      <3> HIDE DEF new, Fits
      <3> QED BY <1>3, <1>5, <1>6, <2>1, <3>1, <3>3
    <2>3. RunOK'
      BY <1>1, <2>1 DEF RunOK
    <2> HIDE DEF Fits, Counts
    <2> QED BY <1>1, <1>2, <1>4, <2>1, <2>2, <2>3
  <1>13. CASE Entry
    <2>1. pc = "entry" /\ pc' = "save" /\ run' = run /\ runs' = runs /\ crashes' = crashes
      BY <1>13 DEF Entry, Goto
    <2>2. Fits'
      <3> DEFINE new == Bought(Db, run.next, run.plan.version)
      <3>1. work' = work \/ Write(new)
        BY <1>13 DEF Entry
      <3>2. run.next \in BarIds /\ run.plan.version \in Versions
        BY <2>1, AtWork DEF Versions
      <3>3. new \in Books /\ new.marked = Db.marked
        BY <1>5, <2>1, <3>2, BoughtParts
      <3> HIDE DEF new, Fits
      <3> QED BY <1>3, <1>5, <1>6, <2>1, <3>1, <3>3
    <2>3. RunOK'
      BY <1>1, <2>1 DEF RunOK
    <2> HIDE DEF Fits, Counts
    <2> QED BY <1>1, <1>2, <1>4, <2>1, <2>2, <2>3
  <1>14. CASE Save \/ RecordEod
    <2>1. /\ pc \in {"save", "eod"} /\ pc' \in {"eod", "bar"}
          /\ runs' = runs /\ crashes' = crashes
          /\ \/ run' = run /\ pc' = "eod"
             \/ run' = [run EXCEPT !.next = @ + 1] /\ pc' = "bar"
      BY <1>14 DEF Save, RecordEod, Goto
    <2>2. run.next \in BarIds /\ BarDate(run.next) \in DatesOf(run.split)
      BY <2>1, AtWork
    <2>3. Fits'
      <3> DEFINE marks == Db.marked \cup {Date(Bar.end)}
                 new == [Db EXCEPT !.marked = marks]
      <3>1. work' = work \/ Write(new)
        BY <1>14 DEF Save, RecordEod
      <3>2. Date(Bar.end) = BarDate(run.next) /\ BarDate(run.next) \in Nat
        BY <2>1, <2>2, AtWork, BarDates DEF BarDate
      <3>3. marks \in SUBSET Nat /\ marks \subseteq DatesOf(run.split)
        <4>1. Db.marked \subseteq Nat /\ Db.marked \subseteq DatesOf(run.split)
          BY <1>5, <2>1 DEF Books, Database
        <4> QED BY <2>2, <3>2, <4>1
      <3> HIDE DEF marks
      <3>4. new \in Books /\ new.marked = marks
        BY <1>5, <2>1, <3>3, MarkedParts
      <3> HIDE DEF new, Fits
      <3> QED BY <1>3, <1>6, <3>1, <3>3, <3>4
    <2>4. run' \in Memory /\ RunOK'
      <3>1. CASE run' = run /\ pc' = "eod"
        BY <1>1, <2>1, <3>1 DEF RunOK
      <3>2. CASE run' = [run EXCEPT !.next = @ + 1] /\ pc' = "bar"
        <4>1. run' \in Memory /\ run'.next = run.next + 1 /\ run'.plan = run.plan
              /\ run'.split = run.split
          BY <2>2, <3>2, MovesOn
        <4>2. FirstBar(run.split) \in Nat
          BY <1>1, <2>1, SplitIsRange DEF RunOK, Memory, BarIds
        <4> QED BY <1>1, <2>1, <2>2, <3>2, <4>1, <4>2 DEF RunOK, BarIds
      <3> QED BY <2>1, <3>1, <3>2
    <2> HIDE DEF Fits, Counts
    <2> QED BY <1>2, <1>4, <2>1, <2>3, <2>4
  <1>15. CASE EndDevelopment
    <2>1. pc = "bar" /\ pc' = pc /\ run.split = "development"
          /\ work' = work /\ runs' = runs /\ crashes' = crashes
      BY <1>15 DEF EndDevelopment
    <2>2. run' \in Memory /\ run'.next = FirstBar("holdout") /\ run'.plan = run.plan
          /\ run'.split = "holdout"
      BY <1>15, <2>1, Turns
    <2>3. FirstBar("holdout") \in Nat
      BY <1>1, <2>1, SplitIsRange DEF RunOK, Splits, BarIds
    <2>4. RunOK'
      BY <1>1, <2>1, <2>2, <2>3 DEF RunOK
    <2> HIDE DEF Fits, Counts
    <2> QED BY <1>2, <1>3, <1>4, <2>1, <2>2, <2>4
  <1>16. CASE EntryRaises \/ EndHoldout \/ Crash
    <2>1. pc' = "idle" /\ run' = NoRun /\ work' = work /\ runs' = runs
      BY <1>16 DEF EntryRaises, EndHoldout, Crash, Goto
    <2>2. RunOK'
      BY <2>1 DEF RunOK
    <2>3. Counts'
      BY <1>1, <1>16, Parameters DEF EntryRaises, EndHoldout, Crash
    <2> HIDE DEF Fits, Counts
    <2> QED BY <1>2, <1>3, <2>1, <2>2, <2>3, NoRunType
  <1>17. CASE UNCHANGED vars
    <2>1. RunOK'
      BY <1>1, <1>17 DEF RunOK, vars
    <2> HIDE DEF Fits, Counts
    <2> QED BY <1>1, <1>2, <1>3, <1>4, <1>17, <2>1 DEF vars
  <1> QED
    BY <1>7, <1>8, <1>9, <1>10, <1>11, <1>12, <1>13, <1>14, <1>15, <1>16, <1>17 DEF Next

(* TypeOK, which the run validation checks.                                *)
THEOREM TypeCorrect == Spec => []TypeOK
  <1>1. TypeInv /\ [Next]_vars => TypeInv'
    BY TypeStep
  <1>2. TypeInv => TypeOK
    <2> SUFFICES ASSUME TypeInv PROVE TypeOK
      OBVIOUS
    <2>1. ASSUME NEW s \in Splits
          PROVE  /\ work[s].entered \in [Symbols -> 0 .. Len(Bars)]
                 /\ work[s].cooldown \in [Symbols -> Nat]
                 /\ work[s].trades \in Seq(Trade)
                 /\ \A y \in Symbols : work[s].entered[y] = 0 <=> work[s].holder[y] = None
      <3>1. work[s] \in Database /\ \A y \in Symbols : Holds(work[s], y) <=> work[s].holder[y] # None
        BY DEF TypeInv, Books
      <3> HIDE DEF Trade, RegimeRow
      <3> QED BY <3>1 DEF Database, Holds
    <2>2. run.history \in [Symbols -> Seq(BarIds)]
      <3> HIDE DEF Summaries
      <3> QED BY DEF TypeInv, Memory
    <2> QED BY <2>1, <2>2 DEF TypeInv, TypeOK
  <1> QED BY InitType, <1>1, <1>2, PTL DEF Spec

-----------------------------------------------------------------------------
(* The histories of a run are the past of the bar at hand.                 *)

HistoryInv ==
    /\ pc = "bar" => \A s \in Symbols : run.history[s] = HistoryAt(s, run.next)
    /\ pc \in Working => \A s \in Symbols : run.history[s] = HistoryAt(s, run.next + 1)

LEMMA HistoryStep ==
    ASSUME TypeInv, HistoryInv, [Next]_vars
    PROVE  HistoryInv'
  <1> USE DEF Working
  <1>1. CASE Start
    <2>1. PICK p \in Plans : /\ Accepted(p)
                             /\ run' = [NoRun EXCEPT !.plan = p, !.next = FirstBar("development"),
                                                     !.history = Warm("development")]
      BY <1>1 DEF Start
    <2>2. run'.history = Warm("development") /\ run'.next = FirstBar("development")
      BY <2>1, Starts
    <2>3. Warm("development") = [y \in Symbols |-> HistoryAt(y, FirstBar("development"))]
      BY <2>1, WarmUpIsPast DEF Splits
    <2> QED BY <1>1, <2>2, <2>3 DEF Start, Goto, HistoryInv
  <1>2. CASE SkipBar
    <2>1. /\ run.next \in BarIds /\ run' = [run EXCEPT !.next = @ + 1]
          /\ pc = "bar" /\ pc' = pc /\ run.next \notin RegularBars
      BY <1>2 DEF SkipBar, InSplit, RegularBars, Bar
    <2>2. run'.next = run.next + 1 /\ run'.history = run.history
      BY <2>1, MovesOn
    <2>3. \A s \in Symbols : HistoryAt(s, run.next + 1) = HistoryAt(s, run.next)
      BY <2>1, HistoryNext
    <2> QED BY <2>1, <2>2, <2>3 DEF HistoryInv
  <1>3. CASE ReadBar
    <2>1. /\ run.next \in BarIds /\ pc = "bar" /\ pc' = "exit" /\ run.next \in RegularBars
          /\ run' = [run EXCEPT !.history[Bar.symbol] = Append(@, run.next)]
      BY <1>3 DEF ReadBar, InSplit, Goto, Bar, RegularBars
    <2>2. /\ run'.next = run.next
          /\ \A s \in Symbols :
                run'.history[s] = IF s = Bars[run.next].symbol
                                    THEN Append(run.history[s], run.next)
                                    ELSE run.history[s]
      BY <2>1, Reads
    <2>3. \A s \in Symbols :
             HistoryAt(s, run.next + 1) = IF Bars[run.next].symbol = s
                                            THEN Append(HistoryAt(s, run.next), run.next)
                                            ELSE HistoryAt(s, run.next)
      BY <2>1, HistoryNext
    <2>4. \A s \in Symbols : run.history[s] = HistoryAt(s, run.next)
      BY <2>1 DEF HistoryInv
    <2>5. \A s \in Symbols : run'.history[s] = HistoryAt(s, run.next + 1)
      BY <2>2, <2>3, <2>4
    <2> QED BY <2>1, <2>2, <2>5 DEF HistoryInv
  <1>4. CASE Exit \/ StartCooldown \/ RecordRegime \/ Entry
    <2>1. run' = run /\ pc \in Working /\ pc' \in Working
      BY <1>4 DEF Exit, StartCooldown, RecordRegime, Entry, Goto
    <2> QED BY <2>1 DEF HistoryInv
  <1>5. CASE Save \/ RecordEod
    <2>1. /\ pc \in {"save", "eod"}
          /\ \/ run' = run /\ pc' = "eod"
             \/ run' = [run EXCEPT !.next = @ + 1] /\ pc' = "bar"
      BY <1>5 DEF Save, RecordEod, Goto
    <2>2. run.next \in BarIds
      BY <2>1, AtWork
    <2>3. CASE run' = run /\ pc' = "eod"
      BY <2>1, <2>3 DEF HistoryInv
    <2>4. CASE run' = [run EXCEPT !.next = @ + 1] /\ pc' = "bar"
      <3>1. run'.next = run.next + 1 /\ run'.history = run.history
        BY <2>2, <2>4, MovesOn
      <3> QED BY <2>1, <2>4, <3>1 DEF HistoryInv
    <2> QED BY <2>1, <2>3, <2>4
  <1>6. CASE EndDevelopment
    <2>1. pc = "bar" /\ pc' = pc /\ run.split = "development" /\ Accepted(run.plan)
      BY <1>6 DEF EndDevelopment, TypeInv, RunOK
    <2>2. run'.next = FirstBar("holdout") /\ run'.history = Warm("holdout")
      BY <1>6, <2>1, Turns
    <2>3. Warm("holdout") = [y \in Symbols |-> HistoryAt(y, FirstBar("holdout"))]
      BY <2>1, WarmUpIsPast DEF Splits
    <2> QED BY <2>1, <2>2, <2>3 DEF HistoryInv
  <1>7. CASE EntryRaises \/ EndHoldout \/ Crash
    BY <1>7 DEF EntryRaises, EndHoldout, Crash, Goto, HistoryInv
  <1>8. CASE UNCHANGED vars
    BY <1>8 DEF vars, HistoryInv
  <1> QED BY <1>1, <1>2, <1>3, <1>4, <1>5, <1>6, <1>7, <1>8 DEF Next

LEMMA PastOfBar ==
    ASSUME NEW n \in BarIds, NEW s
    PROVE  HistoryAt(s, n + 1) = BarsOf(s, {b \in RegularBars : b <= n})
  <1>1. \A b \in RegularBars : b < n + 1 <=> b <= n
    BY DEF RegularBars, BarIds
  <1>2. {b \in RegularBars : b < n + 1} = {b \in RegularBars : b <= n}
    BY <1>1
  <1> QED BY <1>2 DEF HistoryAt

(* HistoryIsThePast, which the run validation checks: for every file,      *)
(* calendar and plan, in both splits, and whatever earlier runs left.      *)
THEOREM StrategySeesThePast == Spec => []HistoryIsThePast
  <1>1. Init => HistoryInv
    BY DEF Init, HistoryInv, Working
  <1>2. TypeInv /\ HistoryInv /\ [Next]_vars => TypeInv' /\ HistoryInv'
    BY TypeStep, HistoryStep
  <1>3. TypeInv /\ HistoryInv => HistoryIsThePast
    BY AtWork, PastOfBar DEF HistoryInv, HistoryIsThePast, Working
  <1> QED BY InitType, <1>1, <1>2, <1>3, PTL DEF Spec

-----------------------------------------------------------------------------
(* The strategy is asked after the regime has been recorded.               *)

IsRecorded(rows, b, regime) ==
    \E k \in DOMAIN rows : rows[k].bar = b /\ rows[k].regime = regime

AskedInv ==
    pc = "entry" => /\ IsEvaluated(Bar, run.history[Bar.symbol])
                    /\ IsRecorded(Db.regimes, run.next, RegimeOf(run.history))

LEMMA RowType ==
    ASSUME TypeInv, pc \in Working
    PROVE  [bar |-> run.next, regime |-> RegimeOf(run.history)] \in RegimeRow
  <1>1. run.history \in [Symbols -> Seq(BarIds)]
    BY DEF TypeInv, Memory
  <1>2. RegimeOf(run.history) \in AnyRegime
    BY <1>1 DEF AnyRegime
  <1> QED BY <1>2, AtWork DEF RegimeRow

LEMMA AppendKeeps ==
    ASSUME NEW S, NEW rows \in Seq(S), NEW row \in S
    PROVE  /\ \A k \in DOMAIN rows : /\ k \in DOMAIN Append(rows, row)
                                     /\ Append(rows, row)[k] = rows[k]
           /\ \A k \in DOMAIN Append(rows, row) :
                 k \in DOMAIN rows \/ Append(rows, row)[k] = row
           /\ \E k \in DOMAIN Append(rows, row) : Append(rows, row)[k] = row
  <1>1. /\ DOMAIN rows = 1 .. Len(rows) /\ Len(rows) \in Nat
        /\ DOMAIN Append(rows, row) = 1 .. Len(rows) + 1
        /\ Append(rows, row)[Len(rows) + 1] = row
        /\ \A k \in 1 .. Len(rows) : Append(rows, row)[k] = rows[k]
    OBVIOUS
  <1> QED BY <1>1

LEMMA AskedStep ==
    ASSUME TypeInv, AskedInv, [Next]_vars
    PROVE  AskedInv'
  <1> SUFFICES ASSUME pc' = "entry" PROVE AskedInv'
    BY DEF AskedInv
  <1>1. CASE RecordRegime
    <2> DEFINE row == [bar |-> run.next, regime |-> RegimeOf(run.history)]
               new == [Db EXCEPT !.regimes = Append(@, row)]
    <2>1. /\ pc = "regime" /\ run' = run /\ Write(new)
          /\ IsEvaluated(Bar, run.history[Bar.symbol])
      BY <1>1 DEF RecordRegime, Goto
    <2>2. Db \in Books /\ run.split \in Splits /\ row \in RegimeRow
      BY <2>1, AtWork, RowType DEF Working
    <2>3. row.bar = run.next /\ row.regime = RegimeOf(run.history)
      OBVIOUS
    <2> HIDE DEF row
    <2>4. new \in Books /\ new.regimes = Append(Db.regimes, row)
      BY <2>2, RegimeParts
    <2>5. Db.regimes \in Seq(RegimeRow)
      BY <2>2 DEF Books, Database
    <2>6. \E k \in DOMAIN new.regimes : new.regimes[k] = row
      BY <2>2, <2>4, <2>5, AppendKeeps
    <2> HIDE DEF new
    <2>7. Db' = new
      BY <2>1, <2>4, Wrote DEF Db
    <2>8. IsRecorded(new.regimes, run.next, RegimeOf(run.history))
      BY <2>3, <2>6 DEF IsRecorded
    <2> QED BY <2>1, <2>7, <2>8 DEF AskedInv, Bar
  <1>2. CASE UNCHANGED vars
    BY <1>2 DEF vars, AskedInv, Bar, Db
  <1>3. CASE ~RecordRegime /\ ~UNCHANGED vars
    BY <1>3 DEF Next, Start, SkipBar, ReadBar, Exit, StartCooldown, Entry, EntryRaises, Save,
                RecordEod, EndDevelopment, EndHoldout, Crash, Goto
  <1> QED BY <1>1, <1>2, <1>3

-----------------------------------------------------------------------------
(* The target of a plan.  The regime of an entry is in a row of its        *)
(* instant, and rows are only added.                                       *)

HasOtherRegime(p, rows, b) ==
    \E k \in DOMAIN rows : Bars[rows[k].bar].end = Bars[b].end /\ rows[k].regime # p.target

Complies(p, rows, b) ==
    CASE p.scope = "symbol_eligibility" -> Bars[b].symbol # p.target
      [] p.scope = "time_of_day_eligibility" -> TimeBucket(Bars[b].end) # p.target
      [] p.scope = "regime_eligibility" -> HasOtherRegime(p, rows, b)
      [] OTHER -> FALSE

AsPlanned(db) ==
    \A p \in Plans :
        /\ \A k \in DOMAIN db.trades :
              db.trades[k].version = p.version => Complies(p, db.regimes, db.trades[k].entry)
        /\ \A y \in Symbols :
              db.holder[y] = p.version => Complies(p, db.regimes, db.entered[y])

(* The scripts make the text of a version of the scope and the target.     *)
VersionNamesChange ==
    \A p, q \in Plans : p.version = q.version => p.scope = q.scope /\ p.target = q.target

LEMMA BucketsMeet ==
    ASSUME NEW t \in Nat
    PROVE  InBucket(TimeBucket(t), TimeOfDay(t))
  <1>1. TimeOfDay(t) \in Int
    BY SessionAssumption DEF TimeOfDay
  <1>2. MiddayStart \in Nat /\ AfternoonStart \in Nat /\ MiddayStart <= AfternoonStart
    BY ValidationAssumption
  <1>3. CASE TimeOfDay(t) < MiddayStart
    BY <1>1, <1>2, <1>3 DEF TimeBucket, InBucket
  <1>4. CASE TimeOfDay(t) >= MiddayStart /\ TimeOfDay(t) < AfternoonStart
    BY <1>1, <1>2, <1>4 DEF TimeBucket, InBucket
  <1>5. CASE TimeOfDay(t) >= AfternoonStart
    BY <1>1, <1>2, <1>5 DEF TimeBucket, InBucket
  <1> QED BY <1>1, <1>2, <1>3, <1>4, <1>5

(* What _allowed lets through is not what the plan excludes.               *)
LEMMA AllowedComplies ==
    ASSUME NEW p, p.scope \in SupportedScopes, NEW b \in BarIds, NEW rows, NEW regime,
           IsRecorded(rows, b, regime), Allowed(p, Bars[b], regime)
    PROVE  Complies(p, rows, b)
  <1>1. CASE p.scope = "symbol_eligibility"
    BY <1>1 DEF Allowed, Complies
  <1>2. CASE p.scope = "regime_eligibility"
    <2>1. regime # p.target
      BY <1>2 DEF Allowed
    <2>2. HasOtherRegime(p, rows, b)
      BY <2>1 DEF HasOtherRegime, IsRecorded
    <2> QED BY <1>2, <2>2 DEF Complies
  <1>3. CASE p.scope = "time_of_day_eligibility"
    <2>1. ~InBucket(p.target, TimeOfDay(Bars[b].end))
      BY <1>3 DEF Allowed
    <2>2. TimeBucket(Bars[b].end) # p.target
      BY <2>1, BarTypes, BucketsMeet
    <2> QED BY <1>3, <2>2 DEF Complies
  <1> QED BY <1>1, <1>2, <1>3 DEF SupportedScopes

LEMMA CompliesStays ==
    ASSUME NEW p, NEW b, NEW rows \in Seq(RegimeRow), NEW row \in RegimeRow,
           Complies(p, rows, b)
    PROVE  Complies(p, Append(rows, row), b)
  <1>1. HasOtherRegime(p, rows, b) => HasOtherRegime(p, Append(rows, row), b)
    <2> HIDE DEF RegimeRow
    <2> QED BY AppendKeeps DEF HasOtherRegime
  <1> QED BY <1>1 DEF Complies

LEMMA ClosedAsPlanned ==
    ASSUME NEW db \in Books, NEW b \in BarIds, NEW reason \in Reasons,
           Holds(db, Bars[b].symbol), AsPlanned(db)
    PROVE  AsPlanned(Closed(db, b, reason))
  <1> DEFINE s == Bars[b].symbol
             new == Closed(db, b, reason)
             trade == [version |-> db.holder[s], symbol |-> s, entry |-> db.entered[s],
                       exit |-> b, reason |-> reason]
  <1>1. s \in Symbols /\ db \in Database
    BY BarTypes DEF Books
  <1>2. /\ new.entered = [db.entered EXCEPT ![s] = 0]
        /\ new.holder = [db.holder EXCEPT ![s] = None]
        /\ new.trades = Append(db.trades, trade) /\ new.regimes = db.regimes
        /\ new \in Books
    BY ClosedParts
  <1>3. trade.version = db.holder[s] /\ trade.entry = db.entered[s]
    OBVIOUS
  <1> HIDE DEF new, trade
  <1>4. /\ db.trades \in Seq(Trade)
        /\ new.trades \in Seq(Trade) /\ Len(new.trades) = Len(db.trades) + 1
    BY <1>1, <1>2 DEF Database, Books
  <1>5. \A k \in DOMAIN new.trades :
           \/ k \in DOMAIN db.trades /\ new.trades[k] = db.trades[k]
           \/ new.trades[k] = trade
    BY <1>2, <1>4
  <1>6. \A y \in Symbols : \/ new.holder[y] = db.holder[y] /\ new.entered[y] = db.entered[y]
                           \/ new.holder[y] = None
    BY <1>1, <1>2 DEF Database
  <1>7. \A p \in Plans : p.version # None
    BY PlansAssumption
  <1> SUFFICES ASSUME NEW p \in Plans
               PROVE  /\ \A k \in DOMAIN new.trades :
                            new.trades[k].version = p.version
                              => Complies(p, new.regimes, new.trades[k].entry)
                      /\ \A y \in Symbols :
                            new.holder[y] = p.version
                              => Complies(p, new.regimes, new.entered[y])
    BY DEF AsPlanned, new
  <1>8. /\ \A k \in DOMAIN db.trades :
              db.trades[k].version = p.version => Complies(p, db.regimes, db.trades[k].entry)
        /\ \A y \in Symbols :
              db.holder[y] = p.version => Complies(p, db.regimes, db.entered[y])
    BY DEF AsPlanned
  <1>9. ASSUME NEW k \in DOMAIN new.trades, new.trades[k].version = p.version
        PROVE  Complies(p, new.regimes, new.trades[k].entry)
    <2>1. CASE k \in DOMAIN db.trades /\ new.trades[k] = db.trades[k]
      BY <1>2, <1>8, <1>9, <2>1, Zenon
    <2>2. CASE new.trades[k] = trade
      BY <1>1, <1>2, <1>3, <1>8, <1>9, <2>2, Zenon
    <2> QED BY <1>5, <2>1, <2>2
  <1>10. ASSUME NEW y \in Symbols, new.holder[y] = p.version
         PROVE  Complies(p, new.regimes, new.entered[y])
    BY <1>2, <1>6, <1>7, <1>8, <1>10, Zenon
  <1> QED BY <1>9, <1>10

LEMMA BoughtAsPlanned ==
    ASSUME NEW db \in Books, NEW b \in BarIds, NEW version \in Versions, AsPlanned(db),
           \A p \in Plans : p.version = version => Complies(p, db.regimes, b)
    PROVE  AsPlanned(Bought(db, b, version))
  <1> DEFINE s == Bars[b].symbol
             new == Bought(db, b, version)
  <1>1. s \in Symbols /\ db \in Database
    BY BarTypes DEF Books
  <1>2. /\ new.entered = [db.entered EXCEPT ![s] = b]
        /\ new.holder = [db.holder EXCEPT ![s] = version]
        /\ new.trades = db.trades /\ new.regimes = db.regimes
    BY BoughtParts
  <1> HIDE DEF new
  <1>3. \A y \in Symbols : \/ new.holder[y] = db.holder[y] /\ new.entered[y] = db.entered[y]
                           \/ new.holder[y] = version /\ new.entered[y] = b
    BY <1>1, <1>2 DEF Database
  <1> SUFFICES ASSUME NEW p \in Plans
               PROVE  /\ \A k \in DOMAIN new.trades :
                            new.trades[k].version = p.version
                              => Complies(p, new.regimes, new.trades[k].entry)
                      /\ \A y \in Symbols :
                            new.holder[y] = p.version
                              => Complies(p, new.regimes, new.entered[y])
    BY DEF AsPlanned, new
  <1>4. /\ \A k \in DOMAIN db.trades :
              db.trades[k].version = p.version => Complies(p, db.regimes, db.trades[k].entry)
        /\ \A y \in Symbols :
              db.holder[y] = p.version => Complies(p, db.regimes, db.entered[y])
    BY DEF AsPlanned
  <1>5. ASSUME NEW y \in Symbols, new.holder[y] = p.version
        PROVE  Complies(p, new.regimes, new.entered[y])
    <2>1. CASE new.holder[y] = db.holder[y] /\ new.entered[y] = db.entered[y]
      BY <1>2, <1>4, <1>5, <2>1, Zenon
    <2>2. CASE new.holder[y] = version /\ new.entered[y] = b
      BY <1>2, <1>5, <2>2, Zenon
    <2> QED BY <1>3, <2>1, <2>2
  <1> QED BY <1>2, <1>4, <1>5, Zenon

LEMMA RegimeAsPlanned ==
    ASSUME NEW db \in Books, NEW row \in RegimeRow, AsPlanned(db)
    PROVE  AsPlanned([db EXCEPT !.regimes = Append(@, row)])
  <1> DEFINE new == [db EXCEPT !.regimes = Append(@, row)]
  <1>1. /\ new.entered = db.entered /\ new.holder = db.holder /\ new.trades = db.trades
        /\ new.regimes = Append(db.regimes, row)
    BY RegimeParts
  <1>2. db.regimes \in Seq(RegimeRow)
    <2> HIDE DEF RegimeRow
    <2> QED BY DEF Books, Database
  <1> HIDE DEF new
  <1>3. \A p, b : Complies(p, db.regimes, b) => Complies(p, new.regimes, b)
    BY <1>1, <1>2, CompliesStays
  <1>4. AsPlanned(new)
    BY <1>1, <1>3 DEF AsPlanned
  <1> QED BY <1>4 DEF new

LEMMA SameAsPlanned ==
    ASSUME NEW db, NEW new, AsPlanned(db),
           new.entered = db.entered, new.holder = db.holder,
           new.trades = db.trades, new.regimes = db.regimes
    PROVE  AsPlanned(new)
  BY DEF AsPlanned

TargetInv == \A s \in Splits : AsPlanned(work[s])

LEMMA WroteAsPlanned ==
    ASSUME TypeInv, TargetInv, NEW db \in Books, Write(db), AsPlanned(db)
    PROVE  TargetInv'
  <1>1. /\ work'[run.split] = db
        /\ \A s \in Splits : s # run.split => work'[s] = work[s]
    BY Wrote
  <1>2. ASSUME NEW s \in Splits
        PROVE  AsPlanned(work'[s])
    <2>1. CASE s = run.split
      BY <1>1, <2>1
    <2>2. CASE s # run.split
      BY <1>1, <2>2 DEF TargetInv
    <2> QED BY <2>1, <2>2
  <1> QED BY <1>2 DEF TargetInv

LEMMA TargetStep ==
    ASSUME VersionNamesChange, TypeInv, AskedInv, TargetInv, [Next]_vars
    PROVE  TargetInv'
  <1>1. work' = work => TargetInv'
    BY DEF TargetInv
  <1>2. ASSUME NEW db \in Books, Write(db), AsPlanned(db)
        PROVE  TargetInv'
    BY <1>2, WroteAsPlanned
  <1>3. pc \in Working => AsPlanned(Db)
    BY AtWork DEF TargetInv
  <1> USE DEF Working
  <1>4. CASE Exit
    <2> DEFINE reason == ExitReason(Bar, Db.entered[Bar.symbol])
               new == Closed(Db, run.next, reason)
    <2>1. pc = "exit"
      BY <1>4 DEF Exit
    <2>2. work' = work \/ (reason \in Reasons /\ Holds(Db, Bar.symbol) /\ Write(new))
      BY <1>4, ExitEffect
    <2>3. run.next \in BarIds /\ Db \in Books /\ Bar = Bars[run.next]
      BY <2>1, AtWork
    <2> HIDE DEF reason
    <2>4. reason \in Reasons /\ Holds(Db, Bar.symbol) => new \in Books /\ AsPlanned(new)
      BY <1>3, <2>1, <2>3, ClosedParts, ClosedAsPlanned
    <2> HIDE DEF new
    <2> QED BY <1>1, <1>2, <2>2, <2>4
  <1>5. CASE StartCooldown
    <2> DEFINE new == [Db EXCEPT !.cooldown[Bar.symbol] = Bar.end + StopCooldown]
    <2>1. pc = "cooldown" /\ Write(new)
      BY <1>5 DEF StartCooldown
    <2>2. Bar.symbol \in Symbols /\ Bar.end + StopCooldown \in Nat /\ Db \in Books
      BY <2>1, AtWork, Parameters
    <2>3. /\ new \in Books /\ new.entered = Db.entered /\ new.holder = Db.holder
          /\ new.trades = Db.trades /\ new.regimes = Db.regimes
      BY <2>2, CooledParts
    <2> HIDE DEF new
    <2>4. AsPlanned(new)
      BY <1>3, <2>1, <2>3, SameAsPlanned
    <2> QED BY <1>2, <2>1, <2>3, <2>4
  <1>6. CASE RecordRegime
    <2> DEFINE row == [bar |-> run.next, regime |-> RegimeOf(run.history)]
               new == [Db EXCEPT !.regimes = Append(@, row)]
    <2>1. pc = "regime" /\ (work' = work \/ Write(new))
      BY <1>6 DEF RecordRegime
    <2>2. row \in RegimeRow /\ Db \in Books
      BY <2>1, RowType, AtWork
    <2> HIDE DEF row
    <2>3. new \in Books /\ AsPlanned(new)
      BY <1>3, <2>1, <2>2, RegimeParts, RegimeAsPlanned
    <2> HIDE DEF new
    <2> QED BY <1>1, <1>2, <2>1, <2>3
  <1>7. CASE Entry
    <2> DEFINE p == run.plan
               regime == RegimeOf(run.history)
               new == Bought(Db, run.next, p.version)
    <2>1. pc = "entry" /\ (work' = work \/ (Allowed(p, Bar, regime) /\ Write(new)))
      BY <1>7 DEF Entry
    <2>2. /\ run.next \in BarIds /\ p \in Plans /\ p.version \in Versions
          /\ Db \in Books /\ Bar = Bars[run.next]
      BY <2>1, AtWork DEF Versions
    <2>3. p.scope \in SupportedScopes
      BY <2>1 DEF TypeInv, RunOK, Accepted
    <2>4. IsRecorded(Db.regimes, run.next, regime)
      BY <2>1 DEF AskedInv
    <2> HIDE DEF p, regime
    <2>5. ASSUME Allowed(p, Bar, regime)
          PROVE  new \in Books /\ AsPlanned(new)
      <3>1. Complies(p, Db.regimes, run.next)
        BY <2>2, <2>3, <2>4, <2>5, AllowedComplies
      <3>2. ASSUME NEW q \in Plans, q.version = p.version
            PROVE  Complies(q, Db.regimes, run.next)
        <4>1. q.scope = p.scope /\ q.target = p.target
          BY <2>2, <3>2 DEF VersionNamesChange
        <4>2. HasOtherRegime(q, Db.regimes, run.next) <=> HasOtherRegime(p, Db.regimes, run.next)
          BY <4>1 DEF HasOtherRegime
        <4> QED BY <3>1, <4>1, <4>2 DEF Complies
      <3> QED BY <1>3, <2>1, <2>2, <3>2, BoughtParts, BoughtAsPlanned
    <2> HIDE DEF new
    <2> QED BY <1>1, <1>2, <2>1, <2>5
  <1>8. CASE RecordEod
    <2> DEFINE marks == Db.marked \cup {Date(Bar.end)}
               new == [Db EXCEPT !.marked = marks]
    <2>1. pc = "eod" /\ Write(new)
      BY <1>8 DEF RecordEod
    <2>2. Db \in Books /\ Date(Bar.end) \in Nat
      BY <2>1, AtWork, DateType
    <2>3. marks \in SUBSET Nat
      BY <2>2 DEF Books, Database
    <2> HIDE DEF marks
    <2>4. /\ new \in Books /\ new.entered = Db.entered /\ new.holder = Db.holder
          /\ new.trades = Db.trades /\ new.regimes = Db.regimes
      BY <2>2, <2>3, MarkedParts
    <2> HIDE DEF new
    <2>5. AsPlanned(new)
      BY <1>3, <2>1, <2>4, SameAsPlanned
    <2> QED BY <1>2, <2>1, <2>4, <2>5
  <1>9. CASE \/ Start \/ SkipBar \/ ReadBar \/ EntryRaises \/ Save \/ EndDevelopment
             \/ EndHoldout \/ Crash \/ UNCHANGED vars
    BY <1>1, <1>9 DEF Start, SkipBar, ReadBar, EntryRaises, Save, EndDevelopment, EndHoldout,
                      Crash, vars
  <1> QED BY <1>4, <1>5, <1>6, <1>7, <1>8, <1>9 DEF Next

(* The join of the evidence finds one of the rows of that instant.         *)
LEMMA JoinedInstant ==
    ASSUME NEW db \in Books, NEW p, NEW b \in BarIds, HasOtherRegime(p, db.regimes, b)
    PROVE  JoinedRegime(db, b) # p.target \/ TwoRegimesAt(db, Bars[b].end)
  <1> DEFINE rows == db.regimes
             t == Bars[b].end
             EndOf(k) == Bars[rows[k].bar].end
             upTo(u) == {k \in DOMAIN rows : EndOf(k) <= u}
             ends == {EndOf(k) : k \in upTo(t)}
             latest == Max(ends)
             last == Max({k \in upTo(latest) : EndOf(k) = latest})
  <1>1. JoinedRegime(db, b) = rows[last].regime
    BY DEF JoinedRegime
  <1>2. rows \in Seq(RegimeRow)
    <2> HIDE DEF RegimeRow
    <2> QED BY DEF Books, Database
  <1>3. DOMAIN rows = 1 .. Len(rows) /\ Len(rows) \in Nat
    BY <1>2
  <1>4. \A k \in DOMAIN rows : EndOf(k) \in Nat
    <2>1. \A k \in DOMAIN rows : rows[k] \in RegimeRow
      <3> HIDE DEF RegimeRow
      <3> QED BY <1>2
    <2>2. \A row \in RegimeRow : row.bar \in BarIds
      BY DEF RegimeRow
    <2> QED BY <2>1, <2>2, BarTypes
  <1>5. t \in Nat
    BY BarTypes
  <1>6. PICK k \in DOMAIN rows : EndOf(k) = t /\ rows[k].regime # p.target
    BY DEF HasOtherRegime
  <1> HIDE DEF rows, t, EndOf
  <1>7. latest = t
    <2>1. t \in ends /\ \A e \in ends : e \in Nat /\ e <= t
      BY <1>4, <1>5, <1>6
    <2>2. \E x \in ends : \A y \in ends : x >= y
      BY <1>5, <2>1
    <2>3. latest \in ends /\ \A y \in ends : latest >= y
      <3> HIDE DEF ends
      <3> QED BY <2>2 DEF Max
    <2> HIDE DEF ends, latest
    <2> QED BY <1>5, <2>1, <2>3
  <1> HIDE DEF latest
  <1>8. last \in DOMAIN rows /\ EndOf(last) = t
    <2> DEFINE K == {j \in upTo(latest) : EndOf(j) = latest}
    <2>1. K \subseteq 1 .. Len(rows) /\ k \in K
      BY <1>3, <1>5, <1>6, <1>7
    <2>2. Max(K) \in K
      <3> HIDE DEF K
      <3> QED BY <1>3, <2>1, MaxIn
    <2> QED BY <1>7, <2>2
  <1> HIDE DEF last
  <1>9. CASE rows[last].regime # p.target
    BY <1>1, <1>9
  <1>10. CASE rows[last].regime = p.target
    <2>1. rows[k].regime # rows[last].regime
      BY <1>6, <1>10
    <2>2. TwoRegimesAt(db, t)
      BY <1>6, <1>8, <2>1 DEF TwoRegimesAt, rows, EndOf
    <2> QED BY <2>2 DEF t
  <1> QED BY <1>9, <1>10

(* TargetIsAvoided, which the run validation checks: for every file and    *)
(* set of plans whose versions name what they change, and whatever runs    *)
(* were stopped in the same work directory.                                *)
THEOREM PlansAreKept ==
    ASSUME VersionNamesChange
    PROVE  Spec => []TargetIsAvoided
  <1> DEFINE IInv == TypeInv /\ AskedInv /\ TargetInv
  <1>1. Init => IInv
    <2>1. AsPlanned(EmptyDatabase)
      BY PlansAssumption DEF AsPlanned, EmptyDatabase
    <2> QED BY <2>1, InitType DEF Init, AskedInv, TargetInv
  <1>2. IInv /\ [Next]_vars => IInv'
    BY TypeStep, AskedStep, TargetStep
  <1>3. IInv => TargetIsAvoided
    <2> SUFFICES ASSUME TypeInv, TargetInv, NEW s \in Splits, NEW p \in Plans,
                        NEW b, \/ \E k \in DOMAIN work[s].trades :
                                     /\ work[s].trades[k].version = p.version
                                     /\ work[s].trades[k].entry = b
                               \/ \E y \in Symbols : /\ work[s].holder[y] = p.version
                                                     /\ work[s].entered[y] = b
                 PROVE  CASE p.scope = "symbol_eligibility" -> Bars[b].symbol # p.target
                          [] p.scope = "time_of_day_eligibility" ->
                                TimeBucket(Bars[b].end) # p.target
                          [] p.scope = "regime_eligibility" ->
                                \/ JoinedRegime(work[s], b) # p.target
                                \/ TwoRegimesAt(work[s], Bars[b].end)
                          [] OTHER -> FALSE
      BY DEF TargetIsAvoided
    <2>1. work[s] \in Books /\ AsPlanned(work[s]) /\ p.version # None
      BY PlansAssumption DEF TypeInv, TargetInv
    <2>2. Complies(p, work[s].regimes, b)
      BY <2>1 DEF AsPlanned
    <2>3. b \in BarIds
      <3>1. work[s] \in Database
            /\ \A y \in Symbols : work[s].entered[y] # 0 <=> work[s].holder[y] # None
        BY <2>1 DEF Books, Holds
      <3>2. \A k \in DOMAIN work[s].trades : work[s].trades[k] \in Trade
        <4> HIDE DEF Trade, RegimeRow
        <4>1. work[s].trades \in Seq(Trade)
          BY <3>1 DEF Database
        <4> QED BY <4>1
      <3>3. \A trade \in Trade : trade.entry \in BarIds
        BY DEF Trade
      <3>4. \A y \in Symbols : work[s].entered[y] \in 0 .. Len(Bars)
        <4> HIDE DEF Trade, RegimeRow
        <4> QED BY <3>1 DEF Database
      <3>5. \A e \in 0 .. Len(Bars) : e # 0 => e \in BarIds
        BY BarTypes DEF BarIds
      <3> QED BY <2>1, <3>1, <3>2, <3>3, <3>4, <3>5
    <2>4. HasOtherRegime(p, work[s].regimes, b)
             => JoinedRegime(work[s], b) # p.target \/ TwoRegimesAt(work[s], Bars[b].end)
      BY <2>1, <2>3, JoinedInstant
    <2> QED BY <2>2, <2>4 DEF Complies
  <1> QED BY <1>1, <1>2, <1>3, PTL DEF Spec

-----------------------------------------------------------------------------
(* A validation as a function of the file and the plan.  Of the steps of   *)
(* that function, table by table:                                          *)

LEMMA AfterExitParts ==
    ASSUME NEW db \in Books, NEW b \in BarIds, NEW reason,
           reason = ExitReason(Bars[b], db.entered[Bars[b].symbol])
    PROVE  /\ AfterExit(db, b) \in Books
           /\ AfterExit(db, b).entered =
                 IF reason = "NONE" THEN db.entered ELSE [db.entered EXCEPT ![Bars[b].symbol] = 0]
           /\ AfterExit(db, b).holder =
                 IF reason = "NONE" THEN db.holder ELSE [db.holder EXCEPT ![Bars[b].symbol] = None]
           /\ AfterExit(db, b).cooldown =
                 IF reason = "STOP"
                   THEN [db.cooldown EXCEPT ![Bars[b].symbol] = Bars[b].end + StopCooldown]
                   ELSE db.cooldown
           /\ AfterExit(db, b).trades =
                 IF reason = "NONE" THEN db.trades
                 ELSE Append(db.trades, [version |-> db.holder[Bars[b].symbol],
                                         symbol |-> Bars[b].symbol,
                                         entry |-> db.entered[Bars[b].symbol],
                                         exit |-> b, reason |-> reason])
  <1> DEFINE s == Bars[b].symbol
             until == IF reason = "STOP" THEN Bars[b].end + StopCooldown ELSE db.cooldown[s]
             closed == Closed(db, b, reason)
             cooled == [closed EXCEPT !.cooldown[s] = until]
  <1>1. s \in Symbols /\ Bars[b].end + StopCooldown \in Nat
    BY BarTypes, Parameters
  <1>2. CASE reason = "NONE"
    BY <1>2 DEF AfterExit
  <1>3. CASE reason # "NONE"
    <2>1. reason \in Reasons /\ Holds(db, s)
      BY <1>3, ExitReasons DEF Holds
    <2>2. /\ closed \in Books
          /\ closed.entered = [db.entered EXCEPT ![s] = 0]
          /\ closed.holder = [db.holder EXCEPT ![s] = None]
          /\ closed.cooldown = db.cooldown
          /\ closed.trades = Append(db.trades, [version |-> db.holder[s], symbol |-> s,
                                                entry |-> db.entered[s], exit |-> b,
                                                reason |-> reason])
      BY <2>1, ClosedParts
    <2>3. AfterExit(db, b) = cooled
      BY <1>3, <2>2 DEF AfterExit
    <2>4. db.cooldown \in [Symbols -> Nat]
      <3> HIDE DEF Trade, RegimeRow
      <3> QED BY DEF Books, Database
    <2>5. until \in Nat
      BY <1>1, <2>4
    <2> HIDE DEF closed, until, s
    <2>6. /\ cooled \in Books
          /\ cooled.cooldown = [db.cooldown EXCEPT ![s] = until]
          /\ cooled.entered = closed.entered /\ cooled.holder = closed.holder
          /\ cooled.trades = closed.trades
      BY <1>1, <2>2, <2>5, CooledParts
    <2>7. [db.cooldown EXCEPT ![s] = until] =
             IF reason = "STOP" THEN [db.cooldown EXCEPT ![s] = Bars[b].end + StopCooldown]
             ELSE db.cooldown
      BY <1>1, <2>4 DEF until
    <2> HIDE DEF cooled
    <2> QED BY <1>3, <2>2, <2>3, <2>6, <2>7 DEF s
  <1> QED BY <1>2, <1>3

(* The test of AfterEntry.                                                 *)
MayEnter(p, db, b) ==
    LET past == PastOf(b)
        own == past[Bars[b].symbol]
    IN  /\ IsEvaluated(Bars[b], own)
        /\ BaseSignals(Bars[b], own, RegimeOf(past), db.entered, db.cooldown)
        /\ Allowed(p, Bars[b], RegimeOf(past)) /\ HasRoom(db.entered)

LEMMA AfterEntryIs ==
    ASSUME NEW p, NEW db, NEW b
    PROVE  AfterEntry(p, db, b) = IF MayEnter(p, db, b) THEN Bought(db, b, p.version) ELSE db
  BY DEF AfterEntry, MayEnter

LEMMA ProcessedIs ==
    ASSUME NEW p \in Plans, NEW db \in Books, NEW b \in BarIds
    PROVE  /\ Processed(p, db, b) = AfterEntry(p, AfterExit(db, b), b)
           /\ Processed(p, db, b) \in Books
  <1>1. Processed(p, db, b) = AfterEntry(p, AfterExit(db, b), b)
    <2>1. CASE db.entered[Bars[b].symbol] = 0
      <3>1. ExitReason(Bars[b], db.entered[Bars[b].symbol]) = "NONE"
        BY <2>1, ExitReasons
      <3>2. AfterExit(db, b) = db
        BY <3>1 DEF AfterExit
      <3> QED BY <2>1, <3>2 DEF Processed
    <2>2. CASE db.entered[Bars[b].symbol] # 0
      BY <2>2 DEF Processed
    <2> QED BY <2>1, <2>2
  <1>2. AfterExit(db, b) \in Books
    BY AfterExitParts
  <1>3. p.version \in Versions
    BY DEF Versions
  <1>4. AfterEntry(p, AfterExit(db, b), b) \in Books
    BY <1>2, <1>3, AfterEntryIs, BoughtParts
  <1> QED BY <1>1, <1>4

(* After exists: at every bar it is what its definition says.              *)
LEMMA AfterDef ==
    ASSUME NEW p \in Plans, NEW s
    PROVE  /\ \A n \in 0 .. Len(Bars) : After(p, s)[n] \in Books
           /\ After(p, s)[0] = EmptyDatabase
           /\ \A b \in BarIds : After(p, s)[b] =
                 IF b \in Replayed(s) THEN Processed(p, After(p, s)[b - 1], b)
                 ELSE After(p, s)[b - 1]
  <1> DEFINE Onwards(db, b) == IF b \in Replayed(s) THEN Processed(p, db, b) ELSE db
             step == [b \in 1 .. Len(Bars) |-> [db \in Books |-> Onwards(db, b)]]
             Def(f) == f = [b \in 0 .. Len(Bars) |->
                              IF b = 0 THEN EmptyDatabase ELSE Onwards(f[b - 1], b)]
             after == After(p, s)
  <1>1. \A b \in BarIds, db \in Books : Onwards(db, b) \in Books
    BY ProcessedIs
  <1>2. EmptyDatabase \in Books
    BY EmptyBook
  <1>3. \E f \in [0 .. Len(Bars) -> Books] : Def(f)
    <2> HIDE DEF Books, Onwards, EmptyDatabase
    <2>1. step \in [1 .. Len(Bars) -> [Books -> Books]]
      BY <1>1 DEF BarIds
    <2>2. PICK f : Leads(f, Len(Bars), Books, EmptyDatabase, step)
      <3>1. Len(Bars) \in Nat
        BY BarTypes
      <3> HIDE DEF step
      <3> QED BY <1>2, <2>1, <3>1, Recursion
    <2>3. f \in [0 .. Len(Bars) -> Books]
          /\ \A b \in 1 .. Len(Bars) : f[b - 1] \in Books
      BY <2>2, BarTypes DEF Leads
    <2>4. \A b \in 1 .. Len(Bars) : f[b] = Onwards(f[b - 1], b)
      BY <2>2, <2>3 DEF Leads
    <2>5. Def(f)
      BY <2>2, <2>3, <2>4, BarTypes DEF Leads
    <2> QED BY <2>3, <2>5
  <1>4. Def(after)
    <2>1. after = CHOOSE f : Def(f)
      BY DEF After
    <2> HIDE DEF Def, after
    <2> QED BY <1>3, <2>1
  <1>5. \A b \in BarIds : b \in 0 .. Len(Bars) /\ b # 0
    BY BarTypes DEF BarIds
  <1> HIDE DEF after
  <1>6. after[0] = EmptyDatabase /\ \A b \in BarIds : after[b] = Onwards(after[b - 1], b)
    <2> HIDE DEF Onwards, EmptyDatabase
    <2>1. \A b \in 0 .. Len(Bars) :
            after[b] = IF b = 0 THEN EmptyDatabase ELSE Onwards(after[b - 1], b)
      BY <1>4, Zenon
    <2> QED BY <1>5, <2>1, Parameters
  <1>7. \A n \in 0 .. Len(Bars) : after[n] \in Books
    <2> DEFINE T == {n \in 0 .. Len(Bars) : after[n] \in Books}
    <2> HIDE DEF Books, Onwards, EmptyDatabase
    <2>1. 0 \in T
      BY <1>2, <1>6, Parameters
    <2>2. ASSUME NEW n \in 0 .. Len(Bars) - 1, n \in T
          PROVE  n + 1 \in T
      <3>1. n + 1 \in BarIds /\ n + 1 - 1 = n
        BY BarTypes DEF BarIds
      <3>2. after[n + 1] = Onwards(after[n], n + 1)
        BY <1>6, <3>1
      <3> QED BY <1>1, <1>5, <2>2, <3>1, <3>2
    <2>3. 0 .. Len(Bars) \subseteq T
      <3> HIDE DEF T
      <3> QED BY <2>1, <2>2, BarTypes, Induction
    <2> QED BY <2>3
  <1> QED BY <1>6, <1>7 DEF after

(* Nothing happens in a stretch of bars that are not replayed.             *)
LEMMA AfterStays ==
    ASSUME NEW p \in Plans, NEW s, NEW low \in 0 .. Len(Bars), NEW high \in low .. Len(Bars),
           \A b \in BarIds : low < b /\ b <= high => b \notin Replayed(s)
    PROVE  After(p, s)[high] = After(p, s)[low]
  <1> DEFINE after == After(p, s)
             N == Len(Bars)
             T == {k \in 0 .. N : low <= k /\ k <= high => after[k] = after[low]}
  <1>1. \A b \in BarIds : b \notin Replayed(s) => after[b] = after[b - 1]
    BY AfterDef
  <1>2. N \in Nat /\ BarIds = 1 .. N
    BY BarTypes DEF BarIds
  <1> HIDE DEF after, N
  <1>3. low \in 0 .. N /\ high \in low .. N
    BY DEF N
  <1>4. 0 \in T
    BY <1>2, <1>3
  <1>5. ASSUME NEW k \in 0 .. N - 1, k \in T
        PROVE  k + 1 \in T
    <2> SUFFICES ASSUME low <= k + 1, k + 1 <= high, k + 1 # low
                 PROVE  after[k + 1] = after[low]
      BY <1>2
    <2>1. k + 1 \in BarIds /\ k + 1 - 1 = k /\ low < k + 1 /\ low <= k /\ k <= high
      BY <1>2, <1>3
    <2>2. after[k + 1] = after[k]
      BY <1>1, <2>1
    <2> QED BY <1>5, <2>1, <2>2
  <1>6. high \in T
    <2>1. 0 .. N \subseteq T
      <3> HIDE DEF T
      <3> QED BY <1>2, <1>4, <1>5, Induction
    <2> QED BY <1>2, <1>3, <2>1
  <1> QED BY <1>2, <1>3, <1>6 DEF after

LEMMA MarksNext ==
    ASSUME NEW s, NEW n \in BarIds
    PROVE  Marks(s, n) = IF n \in Replayed(s) /\ SessionState(Bars[n].end) = "EOD"
                           THEN Marks(s, n - 1) \cup {BarDate(n)} ELSE Marks(s, n - 1)
  <1> DEFINE Ending(k) == {c \in Replayed(s) : c <= k /\ SessionState(Bars[c].end) = "EOD"}
  <1>1. \A c \in Replayed(s) : c <= n <=> c <= n - 1 \/ c = n
    BY DEF Replayed, RegularBars, BarIds
  <1>2. CASE n \in Replayed(s) /\ SessionState(Bars[n].end) = "EOD"
    <2>1. Ending(n) = Ending(n - 1) \cup {n}
      BY <1>1, <1>2
    <2>2. Marks(s, n) = Marks(s, n - 1) \cup {BarDate(n)}
      BY <2>1 DEF Marks, BarDate
    <2> QED BY <1>2, <2>2
  <1>3. CASE ~(n \in Replayed(s) /\ SessionState(Bars[n].end) = "EOD")
    <2>1. Ending(n) = Ending(n - 1)
      BY <1>1, <1>3
    <2> QED BY <1>3, <2>1 DEF Marks
  <1> QED BY <1>2, <1>3

LEMMA MarksStay ==
    ASSUME NEW s, NEW low \in Nat, NEW high \in Nat, low <= high,
           \A b \in BarIds : low < b /\ b <= high => b \notin Replayed(s)
    PROVE  Marks(s, high) = Marks(s, low)
  <1>1. \A c \in Replayed(s) : c <= high <=> c <= low
    BY DEF Replayed, RegularBars, BarIds
  <1>2. {c \in Replayed(s) : c <= high /\ SessionState(Bars[c].end) = "EOD"} =
        {c \in Replayed(s) : c <= low /\ SessionState(Bars[c].end) = "EOD"}
    BY <1>1
  <1> QED BY <1>2 DEF Marks

LEMMA NoMarks ==
    ASSUME NEW s
    PROVE  Marks(s, 0) = {} /\ Marks(s, 0) \subseteq Nat /\ Marks(s, Len(Bars)) \subseteq Nat
  <1>1. \A c \in Replayed(s) : c \in BarIds /\ ~(c <= 0) /\ Date(Bars[c].end) \in Nat
    BY BarDates DEF Replayed, RegularBars, BarIds, BarDate
  <1> QED BY <1>1 DEF Marks

(* The tables that the function is about.                                  *)
Agrees(db, st) ==
    /\ db.entered = st.entered /\ db.holder = st.holder
    /\ db.cooldown = st.cooldown /\ db.trades = st.trades

(* What a run has done with the database of a split at bar n.              *)
Follows(label, db, p, s, n) ==
    /\ label \in {"bar", "exit"} => Agrees(db, After(p, s)[n - 1])
    /\ label = "cooldown" =>
          Agrees([db EXCEPT !.cooldown[Bars[n].symbol] = Bars[n].end + StopCooldown],
                 AfterExit(After(p, s)[n - 1], n))
    /\ label \in {"regime", "entry"} => Agrees(db, AfterExit(After(p, s)[n - 1], n))
    /\ label \in {"save", "eod"} => Agrees(db, After(p, s)[n])
    /\ db.marked = Marks(s, n - 1)
    /\ label = "eod" => SessionState(Bars[n].end) = "EOD"

LEMMA FollowsOn ==
    ASSUME NEW p, NEW s, NEW n \in Nat, NEW db,
           Agrees(db, After(p, s)[n]), db.marked = Marks(s, n)
    PROVE  Follows("bar", db, p, s, n + 1)
  <1>1. n + 1 - 1 = n
    OBVIOUS
  <1>2. After(p, s)[n + 1 - 1] = After(p, s)[n] /\ Marks(s, n + 1 - 1) = Marks(s, n)
    BY <1>1, Zenon
  <1> QED BY <1>2 DEF Follows

(* At the first bar of a split on an empty database.                       *)
LEMMA FollowsAtFirst ==
    ASSUME NEW p \in Plans, Accepted(p), NEW s \in Splits
    PROVE  Follows("bar", EmptyDatabase, p, s, FirstBar(s))
  <1> DEFINE n == FirstBar(s)
  <1>1. n \in BarIds /\ \A b \in BarIds : b < n => BarDate(b) \notin DatesOf(s)
    BY SplitIsRange
  <1> HIDE DEF n
  <1>2. \A b \in BarIds : 0 < b /\ b <= n - 1 => b \notin Replayed(s)
    BY <1>1 DEF Replayed, BarDate, BarIds
  <1>3. /\ n - 1 \in Nat /\ n - 1 \in 0 .. Len(Bars) /\ 0 \in 0 .. Len(Bars) /\ 0 <= n - 1
    BY <1>1, BarTypes DEF BarIds
  <1>4. After(p, s)[n - 1] = EmptyDatabase
    BY <1>2, <1>3, AfterStays, AfterDef
  <1>5. Marks(s, n - 1) = {}
    BY <1>2, <1>3, MarksStay, NoMarks
  <1>6. EmptyDatabase.marked = {}
    BY EmptyBook
  <1> QED BY <1>4, <1>5, <1>6 DEF Follows, Agrees, n

(* At the end of a split the result can be read off.                       *)
LEMMA FollowsAtEnd ==
    ASSUME NEW p \in Plans, Accepted(p), NEW s \in Splits, NEW db \in Books,
           NEW n \in 0 .. Len(Bars) + 1, FirstBar(s) <= n, Follows("bar", db, p, s, n),
           ~(n \in BarIds /\ BarDate(n) \in DatesOf(s))
    PROVE  Summary(db) = Reference(p, s)
  <1>1. Len(Bars) \in Nat /\ FirstBar(s) \in Nat /\ FirstBar(s) >= 1
    BY SplitIsRange, BarTypes DEF BarIds
  <1>2. ASSUME NEW b \in BarIds, n - 1 < b
        PROVE  b \notin Replayed(s)
    <2>1. n \in BarIds /\ n <= b /\ BarDate(n) \notin DatesOf(s)
      BY <1>1, <1>2 DEF BarIds
    <2>2. BarDate(b) \notin DatesOf(s)
      BY <2>1, SplitIsRange
    <2> QED BY <2>2 DEF Replayed, BarDate
  <1>3. n - 1 \in 0 .. Len(Bars) /\ Len(Bars) \in n - 1 .. Len(Bars) /\ n - 1 \in Nat
        /\ n - 1 <= Len(Bars)
    BY <1>1
  <1> DEFINE last == After(p, s)[Len(Bars)]
             ref == [last EXCEPT !.marked = Marks(s, Len(Bars))]
  <1>4. After(p, s)[n - 1] = last
    BY <1>2, <1>3, AfterStays
  <1>5. Marks(s, n - 1) = Marks(s, Len(Bars))
    BY <1>1, <1>2, <1>3, MarksStay
  <1>6. last \in Books
    BY AfterDef, Parameters
  <1>7. db.trades = last.trades /\ db.marked = Marks(s, Len(Bars))
    BY <1>4, <1>5 DEF Follows, Agrees
  <1> HIDE DEF last
  <1>8. ref.trades = last.trades /\ ref.marked = Marks(s, Len(Bars))
    BY <1>6, NoMarks, MarkedParts
  <1> HIDE DEF ref
  <1>9. Summary(db) = Summary(ref)
    BY <1>7, <1>8 DEF Summary, Count
  <1> QED BY <1>9 DEF Reference, ref, last

LEMMA KnowsThePast ==
    ASSUME TypeInv, HistoryInv, pc \in Working
    PROVE  run.history = PastOf(run.next)
  <1>1. run.next \in BarIds
    BY AtWork
  <1>2. \A s \in Symbols : run.history[s] = PastOf(run.next)[s]
    BY <1>1, PastOfBar DEF HistoryInv, PastOf
  <1>3. run.history \in [Symbols -> Seq(BarIds)]
    <2> HIDE DEF Summaries
    <2> QED BY DEF TypeInv, Memory
  <1> QED BY <1>2, <1>3 DEF PastOf

(* Every step within a split is a part of the function.                    *)
LEMMA FollowsStep ==
    ASSUME TypeInv, HistoryInv, AskedInv, pc # "idle",
           Follows(pc, Db, run.plan, run.split, run.next),
           \/ SkipBar \/ ReadBar \/ Exit \/ StartCooldown \/ RecordRegime \/ Entry
           \/ Save \/ RecordEod
    PROVE  /\ Follows(pc', Db', run.plan, run.split, run'.next)
           /\ run'.plan = run.plan /\ run'.split = run.split /\ run'.summary = run.summary
           /\ \A s \in Splits : s # run.split => work'[s] = work[s]
  <1>1. PICK p \in Plans : p = run.plan
    BY DEF TypeInv, RunOK
  <1>2. PICK s \in Splits : s = run.split
    <2> HIDE DEF Summaries
    <2> QED BY DEF TypeInv, Memory
  <1>3. PICK n : n = run.next
    OBVIOUS
  <1>4. Db \in Books
    BY <1>2 DEF TypeInv, Db
  <1>5. Follows(pc, Db, p, s, n)
    BY <1>1, <1>2, <1>3
  <1>6. /\ pc \in Working => n \in Replayed(s)
        /\ n \in Replayed(s) => n \in BarIds
    BY <1>2, <1>3 DEF TypeInv, RunOK, Replayed, RegularBars
  <1>7. n \in BarIds => n - 1 \in 0 .. Len(Bars) /\ n + 1 - 1 = n /\ Bar = Bars[n]
                        /\ Bars[n].symbol \in Symbols /\ Bars[n].end \in Nat
    BY <1>3, BarTypes DEF BarIds, Bar
  <1> DEFINE prev == After(p, s)[n - 1]
             exited == AfterExit(prev, n)
  <1>8. n \in BarIds => prev \in Books /\ exited \in Books
    BY <1>7, AfterDef, AfterExitParts
  <1>9. n \in Replayed(s) => After(p, s)[n] = AfterEntry(p, exited, n)
    BY <1>6, <1>8, AfterDef, ProcessedIs
  <1>10. work' = work /\ run'.split = run.split => Db' = Db
    BY DEF Db
  <1>11. ASSUME NEW new \in Books, Write(new), run' = run
         PROVE  Db' = new /\ \A y \in Splits : y # s => work'[y] = work[y]
    BY <1>2, <1>11, Wrote DEF Db
  <1> SUFFICES /\ Follows(pc', Db', p, s, run'.next)
               /\ run'.plan = run.plan /\ run'.split = run.split /\ run'.summary = run.summary
               /\ \A y \in Splits : y # s => work'[y] = work[y]
    BY <1>1, <1>2
  <1> USE DEF Working
  <1>12. CASE SkipBar
    <2>1. /\ n \in BarIds /\ pc = "bar" /\ pc' = pc /\ work' = work
          /\ run' = [run EXCEPT !.next = @ + 1] /\ ~IsRegular(Bars[n])
      BY <1>3, <1>12 DEF SkipBar, InSplit, Bar
    <2>2. /\ run'.next = n + 1 /\ run'.plan = run.plan /\ run'.split = run.split
          /\ run'.summary = run.summary
      BY <1>3, <2>1, MovesOn
    <2>3. n \notin Replayed(s)
      BY <2>1 DEF Replayed, RegularBars
    <2>4. After(p, s)[n] = prev /\ Marks(s, n) = Marks(s, n - 1)
      BY <2>1, <2>3, AfterDef, MarksNext
    <2>5. Db' = Db
      BY <1>10, <2>1, <2>2
    <2>6. Agrees(Db, prev) /\ Db.marked = Marks(s, n - 1) /\ n \in Nat
      BY <1>5, <2>1 DEF Follows, BarIds
    <2>7. Follows("bar", Db, p, s, n + 1)
      BY <2>4, <2>6, FollowsOn
    <2> QED BY <2>1, <2>2, <2>5, <2>7
  <1>13. CASE ReadBar
    <2>1. /\ n \in BarIds /\ pc = "bar" /\ pc' = "exit" /\ work' = work
          /\ run' = [run EXCEPT !.history[Bar.symbol] = Append(@, run.next)]
      BY <1>3, <1>13 DEF ReadBar, InSplit, Goto
    <2>2. /\ run'.next = n /\ run'.plan = run.plan /\ run'.split = run.split
          /\ run'.summary = run.summary
      BY <1>3, <2>1, Reads
    <2>3. Db' = Db
      BY <1>10, <2>1, <2>2
    <2>4. Follows("exit", Db, p, s, n)
      BY <1>5, <2>1 DEF Follows
    <2> QED BY <2>1, <2>2, <2>3, <2>4
  <1>14. CASE Exit
    <2>1. PICK reason : reason = ExitReason(Bars[n], Db.entered[Bars[n].symbol])
      OBVIOUS
    <2>2. pc = "exit" /\ run' = run /\ n \in BarIds /\ Bar = Bars[n]
      BY <1>6, <1>7, <1>14 DEF Exit
    <2>3. Agrees(Db, prev) /\ Db.marked = Marks(s, n - 1)
      BY <1>5, <2>2 DEF Follows
    <2>4. prev \in Books
      BY <1>8, <2>2
    <2> HIDE DEF prev
    <2>5. /\ exited.entered =
               IF reason = "NONE" THEN Db.entered ELSE [Db.entered EXCEPT ![Bars[n].symbol] = 0]
          /\ exited.holder =
               IF reason = "NONE" THEN Db.holder ELSE [Db.holder EXCEPT ![Bars[n].symbol] = None]
          /\ exited.cooldown =
               IF reason = "STOP"
                 THEN [Db.cooldown EXCEPT ![Bars[n].symbol] = Bars[n].end + StopCooldown]
                 ELSE Db.cooldown
          /\ exited.trades =
               IF reason = "NONE" THEN Db.trades
               ELSE Append(Db.trades, [version |-> Db.holder[Bars[n].symbol],
                                       symbol |-> Bars[n].symbol,
                                       entry |-> Db.entered[Bars[n].symbol],
                                       exit |-> n, reason |-> reason])
      <3>1. reason = ExitReason(Bars[n], prev.entered[Bars[n].symbol])
        BY <2>1, <2>3 DEF Agrees
      <3> QED BY <2>2, <2>3, <2>4, <3>1, AfterExitParts DEF Agrees
    <2> HIDE DEF exited
    <2>6. CASE reason = "NONE"
      <3>1. work' = work /\ pc' = "regime"
        BY <1>3, <1>14, <2>1, <2>2, <2>6 DEF Exit, Goto
      <3>2. Agrees(Db, exited)
        BY <2>5, <2>6 DEF Agrees
      <3>3. Follows("regime", Db, p, s, n)
        BY <2>3, <3>2 DEF Follows, exited, prev
      <3> QED BY <1>3, <1>10, <2>2, <3>1, <3>3
    <2>7. CASE reason # "NONE"
      <3> DEFINE new == Closed(Db, n, reason)
      <3>1. reason \in Reasons /\ Holds(Db, Bars[n].symbol)
        BY <2>1, <2>7, ExitReasons DEF Holds
      <3>2. Write(new) /\ pc' = IF reason = "STOP" THEN "cooldown" ELSE "regime"
        BY <1>3, <1>14, <2>1, <2>2, <2>7 DEF Exit, Goto
      <3>3. /\ new \in Books
            /\ new.entered = [Db.entered EXCEPT ![Bars[n].symbol] = 0]
            /\ new.holder = [Db.holder EXCEPT ![Bars[n].symbol] = None]
            /\ new.cooldown = Db.cooldown /\ new.marked = Db.marked
            /\ new.trades = Append(Db.trades, [version |-> Db.holder[Bars[n].symbol],
                                               symbol |-> Bars[n].symbol,
                                               entry |-> Db.entered[Bars[n].symbol],
                                               exit |-> n, reason |-> reason])
        BY <1>4, <2>2, <3>1, ClosedParts
      <3> HIDE DEF new
      <3>4. Follows(pc', new, p, s, n)
        <4>1. CASE reason = "STOP"
          <5> DEFINE cooled == [new EXCEPT !.cooldown[Bars[n].symbol] = Bars[n].end + StopCooldown]
          <5>1. Bars[n].end + StopCooldown \in Nat /\ Bars[n].symbol \in Symbols
            BY <1>7, <2>2, Parameters
          <5>2. /\ cooled.cooldown = [new.cooldown EXCEPT ![Bars[n].symbol] =
                                        Bars[n].end + StopCooldown]
                /\ cooled.entered = new.entered /\ cooled.holder = new.holder
                /\ cooled.trades = new.trades
            BY <3>3, <5>1, CooledParts
          <5> HIDE DEF cooled
          <5>3. Agrees(cooled, exited)
            BY <2>5, <3>3, <4>1, <5>2 DEF Agrees
          <5> QED BY <2>3, <3>2, <3>3, <4>1, <5>3 DEF Follows, exited, prev, cooled
        <4>2. CASE reason # "STOP"
          <5>1. Agrees(new, exited)
            BY <2>5, <2>7, <3>3, <4>2 DEF Agrees
          <5> QED BY <2>3, <3>2, <3>3, <4>2, <5>1 DEF Follows, exited, prev
        <4> QED BY <4>1, <4>2
      <3> QED BY <1>3, <1>11, <2>2, <3>2, <3>3, <3>4
    <2> QED BY <2>6, <2>7
  <1>15. CASE StartCooldown
    <2> DEFINE new == [Db EXCEPT !.cooldown[Bars[n].symbol] = Bars[n].end + StopCooldown]
    <2>1. pc = "cooldown" /\ pc' = "regime" /\ run' = run /\ n \in BarIds /\ Write(new)
      BY <1>6, <1>7, <1>15 DEF StartCooldown, Goto
    <2>2. new \in Books /\ new.marked = Db.marked
      <3>1. Bars[n].symbol \in Symbols /\ Bars[n].end + StopCooldown \in Nat
        BY <1>7, <2>1, Parameters
      <3> QED BY <1>4, <3>1, CooledParts
    <2>3. Agrees(new, exited) /\ Db.marked = Marks(s, n - 1)
      BY <1>5, <2>1 DEF Follows
    <2> HIDE DEF new
    <2>4. Follows("regime", new, p, s, n)
      BY <2>2, <2>3 DEF Follows
    <2> QED BY <1>3, <1>11, <2>1, <2>2, <2>4
  <1>16. CASE RecordRegime
    <2> DEFINE row == [bar |-> run.next, regime |-> RegimeOf(run.history)]
               new == [Db EXCEPT !.regimes = Append(@, row)]
    <2>1. pc = "regime" /\ run' = run /\ n \in Replayed(s) /\ n \in BarIds
      BY <1>6, <1>16 DEF RecordRegime
    <2>2. Agrees(Db, exited) /\ Db.marked = Marks(s, n - 1)
      BY <1>5, <2>1 DEF Follows
    <2>3. CASE IsEvaluated(Bar, run.history[Bar.symbol])
      <3>1. Write(new) /\ pc' = "entry"
        BY <1>16, <2>3 DEF RecordRegime, Goto
      <3>2. row \in RegimeRow
        BY <2>1, RowType
      <3> HIDE DEF row
      <3>3. /\ new \in Books /\ new.entered = Db.entered /\ new.holder = Db.holder
            /\ new.cooldown = Db.cooldown /\ new.trades = Db.trades /\ new.marked = Db.marked
        BY <1>4, <3>2, RegimeParts
      <3> HIDE DEF new
      <3>4. Agrees(new, exited)
        BY <2>2, <3>3 DEF Agrees
      <3>5. Follows("entry", new, p, s, n)
        BY <2>2, <3>3, <3>4 DEF Follows
      <3> QED BY <1>3, <1>11, <2>1, <3>1, <3>3, <3>5
    <2>4. CASE ~IsEvaluated(Bar, run.history[Bar.symbol])
      <3>1. work' = work /\ pc' = "save"
        BY <1>16, <2>4 DEF RecordRegime, Goto
      <3>2. run.history = PastOf(n)
        BY <1>3, <2>1, KnowsThePast
      <3>3. ~MayEnter(p, exited, n)
        BY <1>7, <2>1, <2>4, <3>2 DEF MayEnter
      <3>4. After(p, s)[n] = exited
        BY <1>9, <2>1, <3>3, AfterEntryIs
      <3> HIDE DEF exited
      <3>5. Follows("save", Db, p, s, n)
        BY <2>2, <3>4 DEF Follows
      <3> QED BY <1>3, <1>10, <2>1, <3>1, <3>5
    <2> QED BY <2>3, <2>4
  <1>17. CASE Entry
    <2> DEFINE new == Bought(Db, n, p.version)
               after == Bought(exited, n, p.version)
    <2>1. /\ pc = "entry" /\ pc' = "save" /\ run' = run /\ n \in Replayed(s) /\ n \in BarIds
          /\ Bar = Bars[n] /\ p.version \in Versions
      BY <1>6, <1>7, <1>17 DEF Entry, Goto, Versions
    <2>2. Agrees(Db, exited) /\ Db.marked = Marks(s, n - 1)
      BY <1>5, <2>1 DEF Follows
    <2>3. exited \in Books /\ After(p, s)[n] = AfterEntry(p, exited, n)
      BY <1>8, <1>9, <2>1
    <2> HIDE DEF exited
    <2>4. run.history = PastOf(n)
      BY <1>3, <2>1, KnowsThePast
    <2>5. IsEvaluated(Bars[n], run.history[Bars[n].symbol])
      BY <2>1 DEF AskedInv
    <2>6. MayEnter(p, exited, n) <=>
             Signals /\ Allowed(run.plan, Bar, RegimeOf(run.history)) /\ HasRoom(Db.entered)
      BY <1>1, <2>1, <2>2, <2>4, <2>5 DEF MayEnter, Signals, Agrees
    <2>7. /\ new \in Books /\ new.marked = Db.marked
          /\ new.entered = [Db.entered EXCEPT ![Bars[n].symbol] = n]
          /\ new.holder = [Db.holder EXCEPT ![Bars[n].symbol] = p.version]
          /\ new.cooldown = Db.cooldown /\ new.trades = Db.trades
      BY <1>4, <2>1, BoughtParts
    <2>8. /\ after.entered = [exited.entered EXCEPT ![Bars[n].symbol] = n]
          /\ after.holder = [exited.holder EXCEPT ![Bars[n].symbol] = p.version]
          /\ after.cooldown = exited.cooldown /\ after.trades = exited.trades
      BY <2>1, <2>3, BoughtParts
    <2>9. After(p, s)[n] = IF MayEnter(p, exited, n) THEN after ELSE exited
      BY <2>3, AfterEntryIs
    <2>10. IF MayEnter(p, exited, n) THEN Write(new) ELSE work' = work
      BY <1>1, <1>3, <1>17, <2>6 DEF Entry
    <2> HIDE DEF new, after
    <2>11. CASE MayEnter(p, exited, n)
      <3>1. Agrees(new, after)
        BY <2>2, <2>7, <2>8 DEF Agrees
      <3>2. Follows("save", new, p, s, n)
        BY <2>2, <2>7, <2>9, <2>11, <3>1 DEF Follows
      <3> QED BY <1>3, <1>11, <2>1, <2>7, <2>10, <2>11, <3>2
    <2>12. CASE ~MayEnter(p, exited, n)
      <3>1. Follows("save", Db, p, s, n)
        BY <2>2, <2>9, <2>12 DEF Follows
      <3> QED BY <1>3, <1>10, <2>1, <2>10, <2>12, <3>1
    <2> QED BY <2>11, <2>12
  <1>18. CASE Save
    <2>1. /\ pc = "save" /\ n \in BarIds /\ Bar = Bars[n] /\ work' = work
          /\ IF SessionState(Bars[n].end) = "EOD" THEN pc' = "eod" /\ run' = run
             ELSE pc' = "bar" /\ run' = [run EXCEPT !.next = @ + 1]
      BY <1>6, <1>7, <1>18 DEF Save, Goto
    <2>2. Agrees(Db, After(p, s)[n]) /\ Db.marked = Marks(s, n - 1)
      BY <1>5, <2>1 DEF Follows
    <2>3. CASE SessionState(Bars[n].end) = "EOD"
      <3>1. Follows("eod", Db, p, s, n)
        BY <2>2, <2>3 DEF Follows
      <3> QED BY <1>3, <1>10, <2>1, <2>3, <3>1
    <2>4. CASE SessionState(Bars[n].end) # "EOD"
      <3>1. Marks(s, n) = Marks(s, n - 1)
        BY <2>1, <2>4, MarksNext
      <3>2. Follows("bar", Db, p, s, n + 1)
        BY <2>1, <2>2, <3>1, FollowsOn DEF BarIds
      <3>3. /\ run'.next = n + 1 /\ run'.plan = run.plan /\ run'.split = run.split
            /\ run'.summary = run.summary
        BY <1>3, <2>1, <2>4, MovesOn
      <3> QED BY <1>10, <2>1, <2>4, <3>2, <3>3
    <2> QED BY <2>3, <2>4
  <1>19. CASE RecordEod
    <2> DEFINE marks == Db.marked \cup {Date(Bar.end)}
               new == [Db EXCEPT !.marked = marks]
    <2>1. /\ pc = "eod" /\ n \in Replayed(s) /\ n \in BarIds /\ Bar = Bars[n] /\ Write(new)
          /\ pc' = "bar" /\ run' = [run EXCEPT !.next = @ + 1]
      BY <1>6, <1>7, <1>19 DEF RecordEod, Goto
    <2>2. /\ Agrees(Db, After(p, s)[n]) /\ Db.marked = Marks(s, n - 1)
          /\ SessionState(Bars[n].end) = "EOD"
      BY <1>5, <2>1 DEF Follows
    <2>3. marks = Marks(s, n)
      BY <2>1, <2>2, MarksNext DEF BarDate
    <2>4. marks \in SUBSET Nat
      BY <1>4, <1>7, <2>1, DateType DEF Books, Database
    <2> HIDE DEF marks
    <2>5. /\ new \in Books /\ new.marked = marks
          /\ new.entered = Db.entered /\ new.holder = Db.holder
          /\ new.cooldown = Db.cooldown /\ new.trades = Db.trades
      BY <1>4, <2>4, MarkedParts
    <2> HIDE DEF new
    <2>6. Agrees(new, After(p, s)[n])
      BY <2>2, <2>5 DEF Agrees
    <2>7. Follows("bar", new, p, s, n + 1)
      BY <2>1, <2>3, <2>5, <2>6, FollowsOn DEF BarIds
    <2>8. /\ run'.next = n + 1 /\ run'.plan = run.plan /\ run'.split = run.split
          /\ run'.summary = run.summary
      BY <1>3, <2>1, MovesOn
    <2>9. Db' = new /\ \A y \in Splits : y # s => work'[y] = work[y]
      BY <1>2, <2>1, <2>5, <2>8, Wrote DEF Db
    <2> QED BY <2>1, <2>7, <2>8, <2>9
  <1> QED BY <1>12, <1>13, <1>14, <1>15, <1>16, <1>17, <1>18, <1>19

(* The first run in a work directory.                                      *)
FirstRunInv ==
    /\ runs = 0 => pc = "idle" /\ result = None /\ work = [s \in Splits |-> EmptyDatabase]
    /\ runs = 1 /\ pc # "idle" =>
          /\ result = None
          /\ Follows(pc, Db, run.plan, run.split, run.next)
          /\ run.split = "development" => work["holdout"] = EmptyDatabase
          /\ run.split = "holdout" =>
                run.summary["development"] = Reference(run.plan, "development")
    /\ ValidationIsFunction

LEMMA FirstRunStep ==
    ASSUME TypeInv, HistoryInv, AskedInv, FirstRunInv, [Next]_vars
    PROVE  FirstRunInv'
  <1>1. runs \in Nat /\ run.split \in Splits /\ run.next \in 0 .. Len(Bars) + 1
    <2> HIDE DEF Summaries
    <2> QED BY Parameters DEF TypeInv, Memory
  <1>2. pc # "idle" => runs # 0 /\ run.plan \in Plans /\ Accepted(run.plan)
                       /\ FirstBar(run.split) <= run.next
    BY DEF FirstRunInv, TypeInv, RunOK
  <1>3. CASE Start
    <2>1. PICK p \in Plans : /\ Accepted(p)
                             /\ run' = [NoRun EXCEPT !.plan = p, !.next = FirstBar("development"),
                                                     !.history = Warm("development")]
      BY <1>3 DEF Start
    <2>2. run'.plan = p /\ run'.split = "development" /\ run'.next = FirstBar("development")
      BY <2>1, Starts
    <2>3. pc = "idle" /\ pc' = "bar" /\ runs' = runs + 1 /\ work' = work /\ result' = result
      BY <1>3 DEF Start, Goto
    <2>4. CASE runs = 0
      <3>1. result = None /\ work = [s \in Splits |-> EmptyDatabase]
        BY <2>4 DEF FirstRunInv
      <3>2. Db' = EmptyDatabase /\ work'["holdout"] = EmptyDatabase
        BY <2>2, <2>3, <3>1 DEF Db, Splits
      <3>3. Follows("bar", EmptyDatabase, p, "development", FirstBar("development"))
        BY <2>1, FollowsAtFirst DEF Splits
      <3> QED BY <2>2, <2>3, <2>4, <3>1, <3>2, <3>3 DEF FirstRunInv, ValidationIsFunction
    <2>5. CASE runs # 0
      <3>1. runs' # 0 /\ runs' # 1
        BY <1>1, <2>3, <2>5
      <3> QED BY <3>1 DEF FirstRunInv, ValidationIsFunction
    <2> QED BY <2>4, <2>5
  <1>4. CASE \/ SkipBar \/ ReadBar \/ Exit \/ StartCooldown \/ RecordRegime \/ Entry
             \/ Save \/ RecordEod
    <2>1. pc # "idle" /\ pc' # "idle" /\ runs' = runs /\ result' = result
      BY <1>4 DEF SkipBar, ReadBar, Exit, StartCooldown, RecordRegime, Entry, Save, RecordEod,
                  Goto
    <2>2. runs' # 0
      BY <1>2, <2>1
    <2>3. ASSUME runs = 1
          PROVE  /\ result' = None
                 /\ Follows(pc', Db', run'.plan, run'.split, run'.next)
                 /\ run'.split = "development" => work'["holdout"] = EmptyDatabase
                 /\ run'.split = "holdout" =>
                       run'.summary["development"] = Reference(run'.plan, "development")
      <3>1. /\ result = None
            /\ Follows(pc, Db, run.plan, run.split, run.next)
            /\ run.split = "development" => work["holdout"] = EmptyDatabase
            /\ run.split = "holdout" =>
                  run.summary["development"] = Reference(run.plan, "development")
        BY <2>1, <2>3 DEF FirstRunInv
      <3>2. /\ Follows(pc', Db', run.plan, run.split, run'.next)
            /\ run'.plan = run.plan /\ run'.split = run.split /\ run'.summary = run.summary
            /\ \A s \in Splits : s # run.split => work'[s] = work[s]
        BY <1>4, <2>1, <3>1, FollowsStep
      <3>3. run.split = "development" => work'["holdout"] = work["holdout"]
        BY <3>2 DEF Splits
      <3> QED BY <2>1, <3>1, <3>2, <3>3
    <2>4. ValidationIsFunction'
      BY <2>1, <2>3 DEF ValidationIsFunction
    <2> QED BY <2>1, <2>2, <2>3, <2>4 DEF FirstRunInv
  <1>5. CASE EndDevelopment
    <2>1. /\ pc = "bar" /\ pc' = pc /\ run.split = "development" /\ runs' = runs
          /\ result' = result /\ work' = work
          /\ ~(run.next \in BarIds /\ BarDate(run.next) \in DatesOf(run.split))
      BY <1>5 DEF EndDevelopment, InSplit, Bar, BarDate
    <2>2. /\ run'.next = FirstBar("holdout") /\ run'.plan = run.plan
          /\ run'.split = "holdout" /\ run'.summary["development"] = Summary(Db)
      BY <1>5, <2>1, Turns
    <2>3. ASSUME runs = 1
          PROVE  /\ result' = None
                 /\ Follows(pc', Db', run'.plan, run'.split, run'.next)
                 /\ run'.split = "holdout" =>
                       run'.summary["development"] = Reference(run'.plan, "development")
      <3>1. /\ result = None /\ work["holdout"] = EmptyDatabase
            /\ Follows("bar", Db, run.plan, run.split, run.next)
        BY <2>1, <2>3 DEF FirstRunInv
      <3>2. Db \in Books
        BY <1>1 DEF TypeInv, Db
      <3>3. Summary(Db) = Reference(run.plan, "development")
        BY <1>1, <1>2, <2>1, <3>1, <3>2, FollowsAtEnd
      <3>4. Db' = EmptyDatabase
        BY <2>1, <2>2, <3>1 DEF Db
      <3>5. Follows("bar", EmptyDatabase, run.plan, "holdout", FirstBar("holdout"))
        BY <1>2, <2>1, FollowsAtFirst DEF Splits
      <3> QED BY <2>1, <2>2, <3>1, <3>3, <3>4, <3>5
    <2>4. runs' # 0
      BY <1>2, <2>1
    <2>5. ValidationIsFunction'
      BY <2>1, <2>3 DEF ValidationIsFunction
    <2> QED BY <2>1, <2>2, <2>3, <2>4, <2>5 DEF FirstRunInv
  <1>6. CASE EndHoldout
    <2>1. /\ pc = "bar" /\ pc' = "idle" /\ run.split = "holdout" /\ runs' = runs
          /\ result' = Report(run.plan, run.summary["development"], Summary(Db))
          /\ ~(run.next \in BarIds /\ BarDate(run.next) \in DatesOf(run.split))
      BY <1>6 DEF EndHoldout, InSplit, Bar, BarDate, Goto
    <2>2. ASSUME runs = 1
          PROVE  result' = Report(run.plan, Reference(run.plan, "development"),
                                  Reference(run.plan, "holdout"))
      <3>1. /\ run.summary["development"] = Reference(run.plan, "development")
            /\ Follows("bar", Db, run.plan, run.split, run.next)
        BY <2>1, <2>2 DEF FirstRunInv
      <3>2. Db \in Books
        BY <1>1 DEF TypeInv, Db
      <3>3. Summary(Db) = Reference(run.plan, "holdout")
        BY <1>1, <1>2, <2>1, <3>1, <3>2, FollowsAtEnd
      <3> QED BY <2>1, <3>1, <3>3
    <2>3. result'.plan = run.plan
      BY <2>1 DEF Report
    <2>4. runs' # 0
      BY <1>2, <2>1
    <2>5. ValidationIsFunction'
      BY <2>1, <2>2, <2>3 DEF ValidationIsFunction
    <2> QED BY <2>1, <2>4, <2>5 DEF FirstRunInv
  <1>7. CASE EntryRaises \/ Crash
    <2>1. pc # "idle" /\ pc' = "idle" /\ runs' = runs /\ result' = result
      BY <1>7 DEF EntryRaises, Crash, Goto
    <2>2. runs' # 0 /\ ValidationIsFunction'
      BY <1>2, <2>1 DEF FirstRunInv, ValidationIsFunction
    <2> QED BY <2>1, <2>2 DEF FirstRunInv
  <1>8. CASE UNCHANGED vars
    <2>1. work' = work /\ pc' = pc /\ run' = run /\ result' = result /\ runs' = runs
      BY <1>8 DEF vars
    <2>2. Db' = Db
      BY <2>1 DEF Db
    <2>3. ValidationIsFunction' <=> ValidationIsFunction
      BY <2>1 DEF ValidationIsFunction
    <2> QED BY <2>1, <2>2, <2>3 DEF FirstRunInv
  <1> QED BY <1>3, <1>4, <1>5, <1>6, <1>7, <1>8 DEF Next

(* ValidationIsFunction, which the run validation checks: for every file,  *)
(* calendar, rules and plan.                                               *)
THEOREM FirstValidationIsFunction == Spec => []ValidationIsFunction
  <1> DEFINE IInv == TypeInv /\ HistoryInv /\ AskedInv /\ FirstRunInv
  <1>1. Init => IInv
    BY InitType DEF Init, HistoryInv, AskedInv, FirstRunInv, ValidationIsFunction, Working
  <1>2. IInv /\ [Next]_vars => IInv'
    BY TypeStep, HistoryStep, AskedStep, FirstRunStep
  <1>3. IInv => ValidationIsFunction
    BY DEF FirstRunInv
  <1> QED BY <1>1, <1>2, <1>3, PTL DEF Spec

=============================================================================
