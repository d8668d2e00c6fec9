---------------------------- MODULE ReplayProofs ----------------------------
(***************************************************************************)
(* What Replay guarantees for every file of bars, calendar, rules and      *)
(* number of runs and crashes.                                             *)
(***************************************************************************)
EXTENDS Replay, WellFoundedInduction, TLAPS

-----------------------------------------------------------------------------
(* Induction, and functions defined by it.                                 *)

(* A set of naturals has a least member.                                   *)
LEMMA Least ==
    ASSUME NEW T, T \subseteq Nat, T # {}
    PROVE  \E n \in T : \A m \in T : n <= m
  <1>1. PICK x \in T : \A y \in T : ~(<<y, x>> \in OpToRel(<, Nat))
    BY NatLessThanWellFounded, WFMin, Zenon
  <1>2. \A y \in T : ~(y < x)
    BY <1>1 DEF OpToRel
  <1> QED BY <1>2

(* What holds at 0 and is handed on up to N holds up to N.                 *)
LEMMA Induction ==
    ASSUME NEW N \in Nat, NEW S, 0 \in S,
           \A n \in 0 .. N - 1 : n \in S => n + 1 \in S
    PROVE  0 .. N \subseteq S
  <1> SUFFICES ASSUME ~(0 .. N \subseteq S) PROVE FALSE
    OBVIOUS
  <1> DEFINE T == (0 .. N) \ S
  <1>1. PICK n \in T : \A m \in T : n <= m
    <2>1. T \subseteq Nat /\ T # {}
      OBVIOUS
    <2> HIDE DEF T
    <2> QED BY <2>1, Least
  <1>2. n - 1 \in 0 .. N - 1 /\ n - 1 \in S
    BY <1>1
  <1> QED BY <1>1, <1>2

(* From a in S along n steps, each a function on S: what f tells of it.    *)
Leads(f, n, S, a, step) ==
    /\ f \in [0 .. n -> S] /\ f[0] = a
    /\ \A k \in 1 .. n : f[k] = step[k][f[k - 1]]

LEMMA Recursion ==
    ASSUME NEW N \in Nat, NEW S, NEW a \in S, NEW step \in [1 .. N -> [S -> S]]
    PROVE  \E f : Leads(f, N, S, a, step)
  <1> DEFINE T == {n \in 0 .. N : \E f : Leads(f, n, S, a, step)}
  <1>1. 0 \in T
    <2>1. Leads([k \in 0 .. 0 |-> a], 0, S, a, step)
      BY DEF Leads
    <2> QED BY <2>1
  <1>2. ASSUME NEW n \in 0 .. N - 1, n \in T
        PROVE  n + 1 \in T
    <2>1. PICK f : Leads(f, n, S, a, step)
      BY <1>2
    <2> DEFINE g == [k \in 0 .. n + 1 |->
                       IF k = n + 1 THEN step[n + 1][f[n]] ELSE f[k]]
    <2>2. g \in [0 .. n + 1 -> S] /\ g[0] = a
      <3>1. step[n + 1][f[n]] \in S
        BY <2>1 DEF Leads
      <3> QED BY <2>1, <3>1 DEF Leads
    <2>3. ASSUME NEW k \in 1 .. n + 1
          PROVE  g[k] = step[k][g[k - 1]]
      <3>1. g[k - 1] = f[k - 1]
        <4>1. k - 1 \in 0 .. n + 1 /\ k - 1 # n + 1
          OBVIOUS
        <4> QED BY <4>1
      <3>2. CASE k = n + 1
        <4>1. g[k] = step[k][f[n]] /\ k - 1 = n
          BY <3>2
        <4> QED BY <3>1, <4>1
      <3>3. CASE k \in 1 .. n
        BY <2>1, <3>1, <3>3 DEF Leads
      <3> QED BY <3>2, <3>3
    <2>4. Leads(g, n + 1, S, a, step)
      BY <2>2, <2>3 DEF Leads
    <2> HIDE DEF g
    <2> QED BY <2>4
  <1>3. 0 .. N \subseteq T
    <2> HIDE DEF T
    <2> QED BY <1>1, <1>2, Induction
  <1> QED BY <1>3

-----------------------------------------------------------------------------
(* The bars of the file.                                                   *)

LEMMA BarTypes ==
    /\ Len(Bars) \in Nat
    /\ \A b \in BarIds :
          /\ Bars[b].symbol \in Symbols
          /\ Bars[b].start \in Nat /\ Bars[b].end \in Nat /\ Bars[b].close \in Nat
          /\ Bars[b].start < Bars[b].end
    /\ \A b \in BarIds : \A c \in 1 .. b : Bars[c].end <= Bars[b].end
  <1> DEFINE R == [symbol : Symbols, start : Nat, end : Nat, close : Nat]
  <1>1. Bars \in Seq(R)
    BY BarsAssumption
  <1>2. Len(Bars) \in Nat /\ \A b \in 1 .. Len(Bars) : Bars[b] \in R
    <2> HIDE DEF R
    <2> QED BY <1>1
  <1>3. \A r \in R : /\ r.symbol \in Symbols
                     /\ r.start \in Nat /\ r.end \in Nat /\ r.close \in Nat
    OBVIOUS
  <1> HIDE DEF R
  <1> QED BY <1>2, <1>3, BarsAssumption DEF BarIds

(* BarsUpTo exists: at every bar it is what its definition says.           *)
LEMMA BarsUpToDef ==
    ASSUME NEW s, NEW ids
    PROVE  /\ BarsUpTo(s, ids) \in [0 .. Len(Bars) -> Seq(BarIds)]
           /\ BarsUpTo(s, ids)[0] = <<>>
           /\ \A b \in BarIds : BarsUpTo(s, ids)[b] =
                 IF b \in ids /\ Bars[b].symbol = s
                   THEN Append(BarsUpTo(s, ids)[b - 1], b)
                   ELSE BarsUpTo(s, ids)[b - 1]
  <1> DEFINE S == Seq(BarIds)
             Longer(h, b) == IF b \in ids /\ Bars[b].symbol = s THEN Append(h, b) ELSE h
             step == [b \in 1 .. Len(Bars) |-> [h \in S |-> Longer(h, b)]]
             Def(f) == f = [b \in 0 .. Len(Bars) |->
                              IF b = 0 THEN <<>> ELSE Longer(f[b - 1], b)]
  <1>1. \A b \in BarIds, h \in S : Longer(h, b) \in S
    OBVIOUS
  <1>2. <<>> \in S
    OBVIOUS
  <1>3. \E f \in [0 .. Len(Bars) -> S] : Def(f)
    <2> HIDE DEF S, Longer
    <2>1. step \in [1 .. Len(Bars) -> [S -> S]]
      BY <1>1 DEF BarIds
    <2>2. PICK f : Leads(f, Len(Bars), S, <<>>, step)
      <3>1. Len(Bars) \in Nat
        BY BarTypes
      <3> HIDE DEF step
      <3> QED BY <1>2, <2>1, <3>1, Recursion
    <2>3. f \in [0 .. Len(Bars) -> S] /\ \A b \in 1 .. Len(Bars) : f[b - 1] \in S
      BY <2>2, BarTypes DEF Leads
    <2>4. \A b \in 1 .. Len(Bars) : f[b] = Longer(f[b - 1], b)
      BY <2>2, <2>3 DEF Leads
    <2>5. f[0] = <<>>
      BY <2>2 DEF Leads
    <2>6. \A b \in 0 .. Len(Bars) :
             f[b] = IF b = 0 THEN <<>> ELSE Longer(f[b - 1], b)
      BY <2>4, <2>5, BarTypes
    <2>7. Def(f)
      BY <2>3, <2>6
    <2> QED BY <2>3, <2>7
  <1> DEFINE upTo == BarsUpTo(s, ids)
  <1>4. Def(upTo)
    <2>1. upTo = CHOOSE f : Def(f)
      BY DEF BarsUpTo
    <2> HIDE DEF Def, upTo
    <2> QED BY <1>3, <2>1
  <1>5. \A b \in BarIds : b \in 0 .. Len(Bars) /\ b # 0
    BY BarTypes DEF BarIds
  <1>6. upTo[0] = <<>> /\ \A b \in BarIds : upTo[b] = Longer(upTo[b - 1], b)
    <2> HIDE DEF Longer, upTo
    <2>1. \A b \in 0 .. Len(Bars) :
            upTo[b] = IF b = 0 THEN <<>> ELSE Longer(upTo[b - 1], b)
      BY <1>4, Zenon
    <2>2. 0 \in 0 .. Len(Bars)
      BY BarTypes
    <2> QED BY <1>5, <2>1, <2>2
  <1>7. \A n \in 0 .. Len(Bars) : upTo[n] \in S
    <2> DEFINE T == {n \in 0 .. Len(Bars) : upTo[n] \in S}
    <2> HIDE DEF S, Longer, upTo
    <2>1. 0 \in T
      BY <1>2, <1>6, BarTypes
    <2>2. ASSUME NEW n \in 0 .. Len(Bars) - 1, n \in T
          PROVE  n + 1 \in T
      <3>1. n + 1 \in BarIds /\ n + 1 - 1 = n
        BY BarTypes DEF BarIds
      <3>2. upTo[n + 1] = Longer(upTo[n], n + 1)
        BY <1>6, <3>1
      <3> QED BY <1>1, <1>5, <2>2, <3>1, <3>2
    <2>3. 0 .. Len(Bars) \subseteq T
      <3> HIDE DEF T
      <3> QED BY <2>1, <2>2, BarTypes, Induction
    <2> QED BY <2>3
  <1>8. upTo \in [0 .. Len(Bars) -> S]
    <2> HIDE DEF S, Longer, upTo
    <2> QED BY <1>4, <1>7
  <1> QED BY <1>6, <1>8

LEMMA BarsOfType ==
    ASSUME NEW s, NEW ids
    PROVE  BarsOf(s, ids) \in Seq(BarIds)
  BY BarsUpToDef, BarTypes DEF BarsOf

(* What SessionGuard answers for a bar.                                    *)
LEMMA DateType ==
    ASSUME NEW t \in Nat
    PROVE  Date(t) \in Nat
  BY SessionAssumption DEF Date

-----------------------------------------------------------------------------
(* Types.  Between reading a bar and the next bar, the bar at hand is one  *)
(* of the file and inside the session.                                     *)

Working == {"exit", "cooldown", "entry", "save", "eod"}

RunsOK ==
    /\ pc \in Working => next \in BarIds /\ IsRegular(Bar)
    /\ ~completed => runs = 0
    /\ pc # "down" => runs <= MaxRuns

TypeInv == TypeOK /\ checkpoint \in [Symbols -> Nat] /\ RunsOK

LEMMA Parameters ==
    /\ StopDistance \in Nat \ {0} /\ TargetDistance \in Nat \ {0}
    /\ StopCooldown \in Nat
    /\ MaxRuns \in Nat /\ MaxCrashes \in Nat
    /\ 0 \in 0 .. Len(Bars) /\ 1 \in 1 .. Len(Bars) + 1
    /\ BarIds \subseteq 0 .. Len(Bars)
  BY BarTypes, RulesAssumption, ReplayAssumption DEF BarIds

LEMMA InitType == Init => TypeInv
  <1> SUFFICES ASSUME Init PROVE TypeInv
    OBVIOUS
  <1> USE DEF Init
  <1>1. <<>> \in Seq(Fill) /\ <<>> \in Seq(BarIds)
    OBVIOUS
  <1>2. TypeOK
    <2>1. history \in [Symbols -> Seq(BarIds)]
      BY <1>1 DEF NoHistory
    <2>2. /\ entered \in [Symbols -> 0 .. Len(Bars)]
          /\ cooldown \in [Symbols -> Nat]
          /\ snapshots \in [BarIds -> Nat]
          /\ \A s \in Symbols : checkpoint[s] \in {0} \cup Ends(s)
      BY Parameters
    <2>3. runs \in 0 .. MaxRuns + 1 /\ crashes \in 0 .. MaxCrashes
      BY Parameters
    <2> QED BY <1>1, <2>1, <2>2, <2>3, Parameters DEF TypeOK
  <1> QED BY <1>2, Parameters DEF TypeInv, RunsOK, Working

LEMMA FillType ==
    ASSUME NEW side \in {"BUY", "SELL"}, TypeOK, next \in BarIds
    PROVE  Append(fills, FillOf(side)) \in Seq(Fill)
  <1>1. FillOf(side) \in Fill
    BY BarTypes DEF FillOf, Fill, Bar
  <1>2. fills \in Seq(Fill)
    BY DEF TypeOK
  <1> QED BY <1>1, <1>2

(* Every step keeps the types.                                             *)
LEMMA TypeStep ==
    ASSUME TypeInv, [Next]_vars
    PROVE  TypeInv'
  <1> USE ReplayAssumption DEF TypeInv, TypeOK, RunsOK, Working, db
  <1>1. CASE StartRun
    BY <1>1, BarTypes, BarsOfType DEF StartRun, MarketBars
  <1>2. CASE SkipBar
    BY <1>2, BarTypes DEF SkipBar, Ready, BarIds
  <1>3. CASE ReadBar
    <2>1. Append(history[Bar.symbol], next) \in Seq(BarIds)
      BY <1>3, BarTypes DEF ReadBar, Ready, Bar
    <2>2. history' \in [Symbols -> Seq(BarIds)]
      BY <1>3, <2>1 DEF ReadBar
    <2> QED BY <1>3, <2>2, BarTypes DEF ReadBar, Ready, Bar
  <1>4. CASE Exit
    <2>1. fills' \in Seq(Fill)
      BY <1>4, FillType DEF Exit
    <2>2. entered' \in [Symbols -> 0 .. Len(Bars)]
      BY <1>4, Parameters DEF Exit
    <2> QED BY <1>4, <2>1, <2>2 DEF Exit, Bar
  <1>5. CASE StartCooldown
    <2>1. Bar.end + StopCooldown \in Nat
      BY <1>5, BarTypes, Parameters DEF StartCooldown, Bar
    <2>2. cooldown' \in [Symbols -> Nat]
      BY <1>5, <2>1 DEF StartCooldown
    <2> QED BY <1>5, <2>2 DEF StartCooldown, Bar
  <1>6. CASE Entry
    <2>1. fills' \in Seq(Fill)
      BY <1>6, FillType DEF Entry
    <2>2. entered' \in [Symbols -> 0 .. Len(Bars)]
      BY <1>6, Parameters DEF Entry
    <2> QED BY <1>6, <2>1, <2>2 DEF Entry, Bar
  <1>7. CASE SaveProgress
    <2>1. snapshots' \in [BarIds -> Nat]
      BY <1>7 DEF SaveProgress
    <2>2. Bar.symbol \in Symbols /\ Bar.end \in Nat
      BY <1>7, BarTypes DEF SaveProgress, Bar
    <2>3. Bar.end \in Ends(Bar.symbol)
      BY <1>7 DEF SaveProgress, Ends, Bar
    <2>4. checkpoint' \in [Symbols -> Nat]
      BY <1>7, <2>2 DEF SaveProgress
    <2>5. \A s \in Symbols : checkpoint'[s] \in {0} \cup Ends(s)
      BY <1>7, <2>2, <2>3 DEF SaveProgress
    <2>6. next' \in 1 .. Len(Bars) + 1
      BY <1>7, BarTypes DEF SaveProgress, BarIds
    <2> QED BY <1>7, <2>1, <2>4, <2>5, <2>6 DEF SaveProgress, Bar
  <1>8. CASE RecordEod
    <2>1. Date(Bar.end) \in Nat
      BY <1>8, BarTypes, DateType DEF RecordEod, Bar
    <2>2. next' \in 1 .. Len(Bars) + 1
      BY <1>8, BarTypes DEF RecordEod, BarIds
    <2> QED BY <1>8, <2>1, <2>2 DEF RecordEod
  <1>9. CASE Finish
    <2>1. history' \in [Symbols -> Seq(BarIds)]
      BY <1>9 DEF Finish, NoHistory
    <2> QED BY <1>9, <2>1, BarTypes DEF Finish
  <1>10. CASE Crash
    <2>1. history' \in [Symbols -> Seq(BarIds)]
      BY <1>10 DEF Crash, NoHistory
    <2> QED BY <1>10, <2>1, BarTypes DEF Crash
  <1>11. CASE UNCHANGED vars
    BY <1>11 DEF vars, Bar
  <1> QED
    BY <1>1, <1>2, <1>3, <1>4, <1>5, <1>6, <1>7, <1>8, <1>9, <1>10, <1>11
    DEF Next, ProcessBar

(* TypeOK, which the run replay checks.                                    *)
THEOREM TypeCorrect == Spec => []TypeOK
  <1>1. TypeInv /\ [Next]_vars => TypeInv'
    BY TypeStep
  <1>2. TypeInv => TypeOK
    BY DEF TypeInv
  <1> QED BY InitType, <1>1, <1>2, PTL DEF Spec

-----------------------------------------------------------------------------
(* The loop of a run.  Behind the bar at hand every regular bar is         *)
(* processed, across the runs as well: in a file whose times are in UTC a  *)
(* checkpoint only rises.                                                  *)

IsDone(b) == Bars[b].end <= checkpoint[Bars[b].symbol]
AllDone(n) == \A b \in BarIds : b < n /\ IsRegular(Bars[b]) => IsDone(b)

LoopInv ==
    /\ pc # "down" => AllDone(next)
    /\ pc \in {"exit", "cooldown", "entry", "save"} => ~IsDone(next)
    /\ pc = "eod" => IsDone(next)
    /\ completed => AllDone(Len(Bars) + 1)

(* The text comparison of run_replay.py 89 with both times in UTC.         *)
LEMMA ProcessedIsDone ==
    ASSUME Zone = 0, TypeInv, NEW b \in BarIds
    PROVE  IsProcessed(Bars[b], checkpoint[Bars[b].symbol]) <=> IsDone(b)
  <1>1. Bars[b].end \in Nat /\ Bars[b].end > 0 /\ Bars[b].symbol \in Symbols
    BY BarTypes
  <1>2. checkpoint[Bars[b].symbol] \in Nat
    BY <1>1 DEF TypeInv
  <1> QED BY <1>1, <1>2 DEF IsProcessed, IsDone

(* In a zone east of Greenwich the texts read later than the times are.    *)
LEMMA ProcessedOnlyIfDone ==
    ASSUME Zone >= 0, TypeInv, NEW b \in BarIds, IsProcessed(Bars[b], checkpoint[Bars[b].symbol])
    PROVE  IsDone(b)
  <1>1. Bars[b].end \in Nat /\ Bars[b].symbol \in Symbols /\ Zone \in Int
    BY BarTypes, ReplayAssumption
  <1>2. checkpoint[Bars[b].symbol] \in Nat
    BY <1>1 DEF TypeInv
  <1> QED BY <1>1, <1>2 DEF IsProcessed, IsDone

(* Saving progress takes nothing back, and finishes the bar at hand.       *)
LEMMA SaveDone ==
    ASSUME TypeInv, LoopInv, SaveProgress
    PROVE  /\ \A b \in BarIds : IsDone(b) \/ b = next => IsDone(b)'
           /\ \A b \in BarIds : IsDone(b)' => IsDone(b) \/ Bars[b].symbol = Bar.symbol
  <1>1. next \in BarIds /\ ~IsDone(next)
    BY DEF SaveProgress, TypeInv, RunsOK, Working, LoopInv
  <1>2. Bar.symbol \in Symbols /\ Bar.end \in Nat /\ checkpoint[Bar.symbol] < Bar.end
    BY <1>1, BarTypes DEF Bar, IsDone, TypeInv
  <1>3. checkpoint' = [checkpoint EXCEPT ![Bar.symbol] = Bar.end]
    BY DEF SaveProgress
  <1>4. \A s \in Symbols : checkpoint[s] \in Nat
                           /\ checkpoint'[s] = IF s = Bar.symbol THEN Bar.end ELSE checkpoint[s]
    BY <1>2, <1>3 DEF TypeInv
  <1>5. \A b \in BarIds : Bars[b].symbol \in Symbols /\ Bars[b].end \in Nat
    BY BarTypes
  <1>6. \A b \in BarIds : IsDone(b)' <=> Bars[b].end <= checkpoint'[Bars[b].symbol]
    BY DEF IsDone
  <1>7. \A b \in BarIds : IsDone(b) => IsDone(b)'
    BY <1>2, <1>4, <1>5, <1>6 DEF IsDone
  <1>8. \A b \in BarIds : b = next => IsDone(b)'
    BY <1>2, <1>4, <1>6 DEF Bar
  <1>9. \A b \in BarIds : IsDone(b)' => IsDone(b) \/ Bars[b].symbol = Bar.symbol
    BY <1>4, <1>5, <1>6 DEF IsDone
  <1> QED BY <1>7, <1>8, <1>9

LEMMA LoopStep ==
    ASSUME Zone = 0, TypeInv, TypeInv', LoopInv, [Next]_vars
    PROVE  LoopInv'
  <1>1. \A n : AllDone(n) <=> \A b \in BarIds : b < n /\ IsRegular(Bars[b]) => IsDone(b)
    BY DEF AllDone
  <1>2. checkpoint' = checkpoint => \A b \in BarIds : IsDone(b)' <=> IsDone(b)
    BY DEF IsDone
  <1>3. next \in 1 .. Len(Bars) + 1 /\ next' \in 1 .. Len(Bars) + 1 /\ Len(Bars) \in Nat
    BY BarTypes DEF TypeInv, TypeOK
  <1>4. pc \in Working => next \in BarIds
    BY DEF TypeInv, RunsOK
  <1> USE DEF LoopInv, Working
  <1>5. CASE StartRun
    <2>1. next' = 1 /\ pc' = "bar" /\ checkpoint' = checkpoint /\ completed' = completed
      BY <1>5 DEF StartRun, db
    <2> QED BY <1>2, <2>1 DEF AllDone, BarIds
  <1>6. CASE SkipBar
    <2>1. pc' = pc /\ pc = "bar" /\ checkpoint' = checkpoint /\ completed' = completed
          /\ next' = next + 1 /\ next \in BarIds
      BY <1>6 DEF SkipBar, db, Ready
    <2>2. IsRegular(Bars[next]) => IsDone(next)
      BY <1>6, <2>1, ProcessedIsDone DEF SkipBar, Bar
    <2>3. \A b \in BarIds : b < next + 1 => b < next \/ b = next
      BY <1>3 DEF BarIds
    <2> QED BY <1>2, <2>1, <2>2, <2>3 DEF AllDone
  <1>7. CASE ReadBar
    <2>1. pc' = "exit" /\ pc = "bar" /\ checkpoint' = checkpoint /\ completed' = completed
          /\ next' = next /\ next \in BarIds
      BY <1>7 DEF ReadBar, Ready
    <2>2. ~IsDone(next)
      BY <1>7, <2>1, ProcessedIsDone DEF ReadBar, Bar
    <2> QED BY <1>2, <2>1, <2>2 DEF AllDone
  <1>8. CASE Exit \/ StartCooldown \/ Entry
    <2>1. /\ pc \in {"exit", "cooldown", "entry"} /\ pc' \in {"cooldown", "entry", "save"}
          /\ UNCHANGED <<checkpoint, completed, next>>
      BY <1>8 DEF Exit, StartCooldown, Entry
    <2> QED BY <1>2, <1>4, <2>1 DEF AllDone
  <1>9. CASE SaveProgress
    <2>1. pc = "save" /\ next \in BarIds /\ completed' = completed
      BY <1>4, <1>9 DEF SaveProgress
    <2>2. \A b \in BarIds : IsDone(b) \/ b = next => IsDone(b)'
      BY <1>9, SaveDone
    <2>3. \/ pc' = "eod" /\ next' = next
          \/ pc' = "bar" /\ next' = next + 1
      BY <1>9 DEF SaveProgress
    <2>4. \A b \in BarIds : b < next + 1 => b < next \/ b = next
      BY <1>3 DEF BarIds
    <2>5. AllDone(next)'
      BY <2>1, <2>2, <2>3, <2>4 DEF AllDone
    <2>6. completed' => AllDone(Len(Bars) + 1)'
      BY <2>1, <2>2 DEF AllDone
    <2>7. pc' = "eod" => IsDone(next)'
      BY <2>1, <2>2, <2>3
    <2> QED BY <2>3, <2>5, <2>6, <2>7
  <1>10. CASE RecordEod
    <2>1. pc = "eod" /\ pc' = "bar" /\ checkpoint' = checkpoint /\ completed' = completed
          /\ next' = next + 1
      BY <1>10 DEF RecordEod
    <2>2. \A b \in BarIds : b < next + 1 => b < next \/ b = next
      BY <1>3 DEF BarIds
    <2> QED BY <1>2, <2>1, <2>2 DEF AllDone
  <1>11. CASE Finish
    <2>1. pc = "bar" /\ next \notin BarIds /\ pc' = "down" /\ checkpoint' = checkpoint
      BY <1>11 DEF Finish, db, Ready
    <2>2. next = Len(Bars) + 1
      BY <1>3, <2>1 DEF BarIds
    <2> QED BY <1>2, <2>1, <2>2 DEF AllDone
  <1>12. CASE Crash \/ UNCHANGED vars
    <2>1. UNCHANGED <<checkpoint, completed>> /\ (pc' = "down" \/ UNCHANGED <<pc, next>>)
      BY <1>12 DEF Crash, vars, db
    <2> QED BY <1>2, <1>4, <2>1 DEF AllDone
  <1> QED
    BY <1>5, <1>6, <1>7, <1>8, <1>9, <1>10, <1>11, <1>12 DEF Next, ProcessBar

-----------------------------------------------------------------------------
(* Bars accounted for: a bar has its snapshot once it is processed.  Of    *)
(* two bars of a symbol with the same end the checkpoint of the first      *)
(* skips the second, so the file must name no bar twice.                   *)

NoBarTwice ==
    \A b, c \in BarIds :
        Bars[b].symbol = Bars[c].symbol /\ Bars[b].end = Bars[c].end => b = c

OnceInv ==
    \A b \in BarIds :
        snapshots[b] = IF IsRegular(Bars[b]) /\ IsDone(b) THEN 1 ELSE 0

(* The checkpoint passes no other bar than the one it is saved for.        *)
LEMMA SavePassesOne ==
    ASSUME NoBarTwice, TypeInv, LoopInv, SaveProgress
    PROVE  \A b \in BarIds :
              IsRegular(Bars[b]) => (IsDone(b)' <=> IsDone(b) \/ b = next)
  <1>1. next \in BarIds /\ pc = "save" /\ AllDone(next)
    BY DEF SaveProgress, TypeInv, RunsOK, Working, LoopInv
  <1>2. checkpoint' = [checkpoint EXCEPT ![Bar.symbol] = Bar.end]
    BY DEF SaveProgress
  <1>3. SUFFICES ASSUME NEW b \in BarIds, IsRegular(Bars[b]), IsDone(b)', ~IsDone(b)
                 PROVE  b = next
    BY SaveDone
  <1>4. Bars[b].symbol = Bar.symbol
    BY <1>3, SaveDone
  <1>5. Bars[b].end <= Bar.end
    <2>1. checkpoint'[Bars[b].symbol] = Bar.end
      BY <1>2, <1>4, BarTypes DEF TypeInv
    <2> QED BY <1>3, <2>1 DEF IsDone
  <1>6. b >= next
    BY <1>1, <1>3 DEF AllDone, BarIds
  <1>7. Bar.end <= Bars[b].end
    BY <1>1, <1>6, BarTypes DEF Bar, BarIds
  <1>8. Bars[b].end = Bar.end
    BY <1>1, <1>5, <1>7, BarTypes DEF Bar
  <1> QED BY <1>1, <1>4, <1>8 DEF NoBarTwice, Bar

LEMMA OnceStep ==
    ASSUME NoBarTwice, TypeInv, LoopInv, OnceInv, [Next]_vars
    PROVE  OnceInv'
  <1>1. CASE SaveProgress
    <2>1. next \in BarIds /\ IsRegular(Bars[next]) /\ ~IsDone(next)
      BY <1>1 DEF SaveProgress, TypeInv, RunsOK, Working, LoopInv, Bar
    <2>2. snapshots' = [snapshots EXCEPT ![next] = @ + 1] /\ snapshots \in [BarIds -> Nat]
      BY <1>1 DEF SaveProgress, TypeInv, TypeOK
    <2>3. ASSUME NEW b \in BarIds
          PROVE  snapshots'[b] = IF IsRegular(Bars[b]) /\ IsDone(b)' THEN 1 ELSE 0
      <3>1. CASE b = next
        <4>1. snapshots[next] = 0
          BY <2>1 DEF OnceInv
        <4> QED BY <1>1, <2>1, <2>2, <3>1, <4>1, SavePassesOne
      <3>2. CASE b # next
        <4>1. snapshots'[b] = snapshots[b]
          BY <2>2, <3>2
        <4> QED BY <1>1, <3>2, <4>1, SavePassesOne DEF OnceInv
      <3> QED BY <3>1, <3>2
    <2> QED BY <2>3 DEF OnceInv
  <1>2. CASE UNCHANGED <<snapshots, checkpoint>>
    BY <1>2 DEF OnceInv, IsDone
  <1> QED
    BY <1>1, <1>2 DEF Next, ProcessBar, StartRun, SkipBar, ReadBar, Exit, StartCooldown,
                      Entry, RecordEod, Finish, Crash, vars, db

LEMMA InitLoop == Init => LoopInv /\ OnceInv
  <1>1. Init => LoopInv
    BY DEF Init, LoopInv
  <1>2. \A b \in BarIds : Bars[b].end > 0 /\ Bars[b].end \in Nat /\ Bars[b].symbol \in Symbols
    BY BarTypes
  <1>3. Init => OnceInv
    BY <1>2 DEF Init, OnceInv, IsDone
  <1> QED BY <1>1, <1>3

(* EveryBarOnce, which the run replay checks: for every file in UTC that   *)
(* names no bar twice, and any number of stops of the process.             *)
THEOREM EveryBarIsAccountedOnce ==
    ASSUME Zone = 0, NoBarTwice
    PROVE  Spec => []EveryBarOnce
  <1> DEFINE IInv == TypeInv /\ LoopInv /\ OnceInv
  <1>1. Init => IInv
    BY InitType, InitLoop
  <1>2. IInv /\ [Next]_vars => IInv'
    BY TypeStep, LoopStep, OnceStep
  <1>3. IInv => EveryBarOnce
    <2>1. \A b \in BarIds : b < Len(Bars) + 1
      BY BarTypes DEF BarIds
    <2> QED BY <2>1 DEF LoopInv, OnceInv, AllDone, EveryBarOnce
  <1> QED BY <1>1, <1>2, <1>3, PTL DEF Spec

-----------------------------------------------------------------------------
(* Trades.  A symbol is held since a bar at which entries were allowed,    *)
(* and all that went before is processed: the bar at hand is not before    *)
(* the purchase, and at the bar of the purchase no exit rule applies.      *)

BoughtInv ==
    \A s \in Symbols : entered[s] # 0 =>
        /\ entered[s] \in BarIds /\ Bars[entered[s]].symbol = s
        /\ IsRegular(Bars[entered[s]]) /\ EntriesAllowed(Bars[entered[s]].end)
        /\ AllDone(entered[s])

(* A purchase is not sold at its own bar.                                  *)
LEMMA NoExitAtPurchase ==
    ASSUME NEW b \in BarIds, EntriesAllowed(Bars[b].end)
    PROVE  ExitReason(Bars[b], b) = "NONE"
  <1>1. Bars[b].close \in Nat /\ b # 0
    BY BarTypes DEF BarIds
  <1>2. ~(Bars[b].close <= Bars[b].close - StopDistance)
        /\ ~(Bars[b].close >= Bars[b].close + TargetDistance)
    BY <1>1, Parameters
  <1>3. SessionState(Bars[b].end) # "EOD"
    BY DEF EntriesAllowed
  <1>4. ExitsAllowed(Bars[b].end)
    BY DEF EntriesAllowed, ExitsAllowed
  <1> QED BY <1>1, <1>2, <1>3, <1>4 DEF ExitReason

(* What a bar sells was bought at an earlier one.                          *)
LEMMA SoldLater ==
    ASSUME TypeInv, LoopInv, BoughtInv, pc = "exit",
           ExitReason(Bar, entered[Bar.symbol]) # "NONE"
    PROVE  entered[Bar.symbol] # 0 /\ entered[Bar.symbol] < next
  <1> DEFINE e == entered[Bar.symbol]
  <1>1. next \in BarIds /\ IsRegular(Bars[next]) /\ ~IsDone(next) /\ Bar.symbol \in Symbols
    BY BarTypes DEF TypeInv, RunsOK, Working, LoopInv, Bar
  <1>2. e # 0
    BY DEF ExitReason
  <1>3. e \in BarIds /\ EntriesAllowed(Bars[e].end) /\ AllDone(e)
    BY <1>1, <1>2 DEF BoughtInv
  <1>4. ~(next < e)
    BY <1>1, <1>3 DEF AllDone
  <1>5. next # e
    BY <1>3, NoExitAtPurchase DEF Bar
  <1> QED BY <1>1, <1>2, <1>3, <1>4, <1>5 DEF BarIds

LEMMA BoughtStep ==
    ASSUME TypeInv, LoopInv, BoughtInv, [Next]_vars
    PROVE  BoughtInv'
  <1>1. \A b \in BarIds : IsDone(b) => IsDone(b)'
    <2>1. checkpoint' = checkpoint => \A b \in BarIds : IsDone(b)' <=> IsDone(b)
      BY DEF IsDone
    <2>2. SaveProgress \/ checkpoint' = checkpoint
      BY DEF Next, ProcessBar, StartRun, SkipBar, ReadBar, Exit, StartCooldown,
             Entry, RecordEod, Finish, Crash, vars, db
    <2> QED BY <2>1, <2>2, SaveDone
  <1>2. \A n : AllDone(n) => AllDone(n)'
    BY <1>1 DEF AllDone
  <1>3. ASSUME \A s \in Symbols : entered'[s] = entered[s] \/ entered'[s] = 0
        PROVE  BoughtInv'
    BY <1>2, <1>3 DEF BoughtInv
  <1>4. CASE Entry
    <2>1. next \in BarIds /\ IsRegular(Bars[next]) /\ AllDone(next) /\ Bar.symbol \in Symbols
      BY <1>4, BarTypes DEF Entry, TypeInv, RunsOK, Working, LoopInv, Bar
    <2>2. CASE entered' = entered
      BY <1>3, <2>2
    <2>3. CASE entered' # entered
      <3>1. /\ entered' = [entered EXCEPT ![Bar.symbol] = next]
            /\ EntriesAllowed(Bars[next].end)
        BY <1>4, <2>3 DEF Entry, MayEnter, IsEvaluated, Bar
      <3>2. \A s \in Symbols : entered'[s] = IF s = Bar.symbol THEN next ELSE entered[s]
        BY <3>1 DEF TypeInv, TypeOK
      <3> QED BY <1>2, <2>1, <3>1, <3>2 DEF BoughtInv, Bar
    <2> QED BY <2>2, <2>3
  <1>5. CASE Exit
    <2>1. \A s \in Symbols : entered'[s] = entered[s] \/ entered'[s] = 0
      BY <1>5 DEF Exit, TypeInv, TypeOK
    <2> QED BY <1>3, <2>1
  <1>6. CASE entered' = entered
    BY <1>3, <1>6
  <1> QED
    BY <1>4, <1>5, <1>6 DEF Next, ProcessBar, StartRun, SkipBar, ReadBar, StartCooldown,
                            SaveProgress, RecordEod, Finish, Crash, vars, db

(* Max of some of the first n numbers is the largest of them.              *)
LEMMA MaxIn ==
    ASSUME NEW n \in Nat, NEW T, T \subseteq 1 .. n, T # {}
    PROVE  Max(T) \in T /\ \A k \in T : k <= Max(T)
  <1> DEFINE U == {n - k : k \in T}
  <1>1. PICK u \in U : \A v \in U : u <= v
    <2>1. \A k \in T : n - k \in Nat
      OBVIOUS
    <2>2. U \subseteq Nat /\ U # {}
      BY <2>1
    <2> HIDE DEF U
    <2> QED BY <2>2, Least
  <1>2. PICK m \in T : u = n - m
    BY <1>1
  <1>3. \A k \in T : k <= m
    <2> SUFFICES ASSUME NEW k \in T PROVE k <= m
      OBVIOUS
    <2>1. u <= n - k
      BY <1>1
    <2> QED BY <1>2, <2>1
  <1>4. \A k \in T : m >= k
    BY <1>2, <1>3
  <1>5. \E x \in T : \A k \in T : x >= k
    BY <1>4
  <1>6. Max(T) \in T /\ \A k \in T : Max(T) >= k
    BY <1>5 DEF Max
  <1> QED BY <1>6

(* What one more fill leaves as it was, and what it decides.               *)
LEMMA OneMoreFill ==
    ASSUME TypeOK, NEW N, N = Len(fills), NEW f \in Fill, fills' = Append(fills, f)
    PROVE  /\ N \in Nat /\ Len(fills') = N + 1
           /\ fills'[N + 1] = f
           /\ \A n \in 1 .. N : fills'[n] = fills[n]
           /\ \A s : \A n \in 0 .. N :
                 /\ OwnFills(fills', s, n) = OwnFills(fills, s, n)
                 /\ OwnFills(fills, s, n) # {} => Latest(fills', s, n) = Latest(fills, s, n)
                 /\ IsHeld(fills', s, n) <=> IsHeld(fills, s, n)
           /\ \A s : s # f.symbol =>
                 OwnFills(fills', s, N + 1) = OwnFills(fills, s, N)
           /\ OwnFills(fills', f.symbol, N + 1) # {}
           /\ Latest(fills', f.symbol, N + 1) = f
  <1>1. N \in Nat /\ Len(fills') = N + 1 /\ fills'[N + 1] = f
        /\ \A n \in 1 .. N : fills'[n] = fills[n]
    <2>1. fills \in Seq(Fill)
      BY DEF TypeOK
    <2> HIDE DEF Fill
    <2> QED BY <2>1
  <1>2. ASSUME NEW s, NEW n \in 0 .. N
        PROVE  /\ OwnFills(fills', s, n) = OwnFills(fills, s, n)
               /\ OwnFills(fills, s, n) # {} => Latest(fills', s, n) = Latest(fills, s, n)
               /\ IsHeld(fills', s, n) <=> IsHeld(fills, s, n)
    <2>1. OwnFills(fills', s, n) = OwnFills(fills, s, n)
      BY <1>1 DEF OwnFills
    <2>2. ASSUME OwnFills(fills, s, n) # {}
          PROVE  Latest(fills', s, n) = Latest(fills, s, n)
      <3>1. OwnFills(fills, s, n) \subseteq 1 .. n /\ n \in Nat
        BY <1>1 DEF OwnFills
      <3>2. Max(OwnFills(fills, s, n)) \in 1 .. n
        BY <2>2, <3>1, MaxIn
      <3> QED BY <1>1, <2>1, <3>2 DEF Latest
    <2> QED BY <2>1, <2>2 DEF IsHeld
  <1>3. \A s : s # f.symbol => OwnFills(fills', s, N + 1) = OwnFills(fills, s, N)
    BY <1>1 DEF OwnFills
  <1>4. N + 1 \in OwnFills(fills', f.symbol, N + 1)
    BY <1>1 DEF OwnFills
  <1>5. Latest(fills', f.symbol, N + 1) = f
    <2> DEFINE T == OwnFills(fills', f.symbol, N + 1)
    <2>1. T \subseteq 1 .. N + 1 /\ N + 1 \in Nat /\ N + 1 \in T
      BY <1>1, <1>4 DEF OwnFills
    <2>2. Max(T) \in 1 .. N + 1 /\ N + 1 <= Max(T)
      <3> HIDE DEF T
      <3> QED BY <2>1, MaxIn
    <2>3. Max(T) = N + 1
      BY <1>1, <2>2
    <2> QED BY <1>1, <2>3 DEF Latest
  <1> QED BY <1>1, <1>2, <1>3, <1>4, <1>5

(* A symbol is held since its latest fill, and that is the latest entry.   *)
LEMMA HeldIsEntered ==
    ASSUME TypeInv, RoundTrips, NEW s \in Symbols
    PROVE  IsHeld(fills, s, Len(fills)) <=> entered[s] # 0
  <1>1. ASSUME IsHeld(fills, s, Len(fills))
        PROVE  Latest(fills, s, Len(fills)).bar \in BarIds
    <2>1. fills \in Seq(Fill) /\ Len(fills) \in Nat
      BY DEF TypeInv, TypeOK
    <2>2. OwnFills(fills, s, Len(fills)) # {} /\ OwnFills(fills, s, Len(fills)) \subseteq 1 .. Len(fills)
      BY <1>1 DEF IsHeld, OwnFills
    <2>3. Max(OwnFills(fills, s, Len(fills))) \in 1 .. Len(fills)
      BY <2>1, <2>2, MaxIn
    <2>4. Latest(fills, s, Len(fills)) \in Fill
      BY <2>1, <2>3 DEF Latest
    <2> QED BY <2>4 DEF Fill
  <1>2. entered[s] = IF IsHeld(fills, s, Len(fills)) THEN Latest(fills, s, Len(fills)).bar ELSE 0
    BY DEF RoundTrips
  <1> QED BY <1>1, <1>2 DEF BarIds

(* A fill at the bar at hand goes on with the turns of its symbol.         *)
LEMMA TurnStep ==
    ASSUME TypeInv, RoundTrips, next \in BarIds, NEW side \in {"BUY", "SELL"},
           fills' = Append(fills, FillOf(side)),
           entered' = [entered EXCEPT ![Bar.symbol] = IF side = "BUY" THEN next ELSE 0],
           IF side = "BUY" THEN entered[Bar.symbol] = 0
           ELSE entered[Bar.symbol] # 0 /\ entered[Bar.symbol] < next
    PROVE  RoundTrips'
  <1>1. PICK N : N = Len(fills)
    OBVIOUS
  <1>2. PICK f \in Fill : f = FillOf(side) /\ f.side = side /\ f.bar = next
                          /\ f.symbol = Bar.symbol /\ f.symbol \in Symbols
    BY BarTypes DEF FillOf, Fill, Bar
  <1>3. /\ N \in Nat /\ Len(fills') = N + 1 /\ fills'[N + 1] = f
        /\ \A n \in 1 .. N : fills'[n] = fills[n]
        /\ \A s : \A n \in 0 .. N :
              /\ OwnFills(fills', s, n) = OwnFills(fills, s, n)
              /\ OwnFills(fills, s, n) # {} => Latest(fills', s, n) = Latest(fills, s, n)
              /\ IsHeld(fills', s, n) <=> IsHeld(fills, s, n)
        /\ \A s : s # f.symbol => OwnFills(fills', s, N + 1) = OwnFills(fills, s, N)
        /\ OwnFills(fills', f.symbol, N + 1) # {}
        /\ Latest(fills', f.symbol, N + 1) = f
    BY <1>1, <1>2, OneMoreFill DEF TypeInv
  <1>4. \A s \in Symbols : entered'[s] = IF s = f.symbol
                                           THEN IF side = "BUY" THEN next ELSE 0
                                           ELSE entered[s]
    BY <1>2 DEF TypeInv, TypeOK
  <1>5. ASSUME NEW s \in Symbols
        PROVE  /\ \A k \in OwnFills(fills', s, N + 1) :
                     IF fills'[k].side = "BUY" THEN ~IsHeld(fills', s, k - 1)
                     ELSE IsHeld(fills', s, k - 1) /\ Latest(fills', s, k - 1).bar < fills'[k].bar
               /\ entered'[s] = IF IsHeld(fills', s, N + 1) THEN Latest(fills', s, N + 1).bar ELSE 0
    <2>1. /\ \A k \in OwnFills(fills, s, N) :
                IF fills[k].side = "BUY" THEN ~IsHeld(fills, s, k - 1)
                ELSE IsHeld(fills, s, k - 1) /\ Latest(fills, s, k - 1).bar < fills[k].bar
          /\ entered[s] = IF IsHeld(fills, s, N) THEN Latest(fills, s, N).bar ELSE 0
      BY <1>1 DEF RoundTrips
    <2>2. ASSUME NEW k \in OwnFills(fills, s, N)
          PROVE  /\ fills'[k] = fills[k]
                 /\ IF fills'[k].side = "BUY" THEN ~IsHeld(fills', s, k - 1)
                    ELSE IsHeld(fills', s, k - 1) /\ Latest(fills', s, k - 1).bar < fills'[k].bar
      <3>1. k \in 1 .. N /\ k - 1 \in 0 .. N
        BY <1>3 DEF OwnFills
      <3>2. IsHeld(fills, s, k - 1) => OwnFills(fills, s, k - 1) # {}
        BY DEF IsHeld
      <3> QED BY <1>3, <2>1, <3>1, <3>2
    <2>3. CASE s # f.symbol
      <3>1. N \in 0 .. N /\ OwnFills(fills', s, N + 1) = OwnFills(fills, s, N)
        BY <1>3, <2>3
      <3>2. Latest(fills', s, N + 1) = Latest(fills', s, N) /\ (IsHeld(fills', s, N + 1) <=> IsHeld(fills', s, N))
        BY <1>3, <3>1 DEF Latest, IsHeld
      <3>3. IsHeld(fills, s, N) => OwnFills(fills, s, N) # {}
        BY DEF IsHeld
      <3>4. entered'[s] = entered[s]
        BY <1>4, <2>3
      <3> QED BY <1>3, <2>1, <2>2, <3>1, <3>2, <3>3, <3>4
    <2>4. CASE s = f.symbol
      <3>1. IsHeld(fills, s, N) <=> entered[s] # 0
        BY <1>1, HeldIsEntered
      <3>2. IsHeld(fills, s, N) => Latest(fills, s, N).bar = entered[s] /\ OwnFills(fills, s, N) # {}
        BY <2>1 DEF IsHeld
      <3>3. \A k \in OwnFills(fills', s, N + 1) : k = N + 1 \/ k \in OwnFills(fills, s, N)
        BY <1>3 DEF OwnFills
      <3>4. IF f.side = "BUY" THEN ~IsHeld(fills', s, N)
            ELSE IsHeld(fills', s, N) /\ Latest(fills', s, N).bar < f.bar
        BY <1>2, <1>3, <2>4, <3>1, <3>2
      <3>5. (IsHeld(fills', s, N + 1) <=> f.side = "BUY") /\ Latest(fills', s, N + 1).bar = next
        BY <1>2, <1>3, <2>4 DEF IsHeld
      <3>6. entered'[s] = IF IsHeld(fills', s, N + 1) THEN Latest(fills', s, N + 1).bar ELSE 0
        BY <1>2, <1>4, <2>4, <3>5
      <3>7. ASSUME NEW k \in OwnFills(fills', s, N + 1)
            PROVE  IF fills'[k].side = "BUY" THEN ~IsHeld(fills', s, k - 1)
                   ELSE IsHeld(fills', s, k - 1) /\ Latest(fills', s, k - 1).bar < fills'[k].bar
        <4>1. CASE k = N + 1
          <5>1. k - 1 = N /\ fills'[k] = f
            BY <1>3, <4>1
          <5> QED BY <3>4, <5>1
        <4>2. CASE k \in OwnFills(fills, s, N)
          BY <2>2, <4>2
        <4> QED BY <3>3, <4>1, <4>2
      <3> QED BY <3>6, <3>7
    <2> QED BY <2>3, <2>4
  <1>6. Len(fills') = N + 1
    BY <1>3
  <1> QED BY <1>5, <1>6, Zenon DEF RoundTrips

LEMMA TripStep ==
    ASSUME TypeInv, LoopInv, BoughtInv, RoundTrips, [Next]_vars
    PROVE  RoundTrips'
  <1>1. CASE Exit /\ fills' # fills
    <2>1. /\ pc = "exit" /\ next \in BarIds
          /\ ExitReason(Bar, entered[Bar.symbol]) # "NONE"
          /\ entered' = [entered EXCEPT ![Bar.symbol] = 0]
          /\ fills' = Append(fills, FillOf("SELL"))
      BY <1>1 DEF Exit, TypeInv, RunsOK, Working
    <2>2. entered[Bar.symbol] # 0 /\ entered[Bar.symbol] < next
      BY <2>1, SoldLater
    <2> QED BY <2>1, <2>2, TurnStep
  <1>2. CASE Entry /\ fills' # fills
    <2>1. /\ next \in BarIds
          /\ entered[Bar.symbol] = 0
          /\ entered' = [entered EXCEPT ![Bar.symbol] = next]
          /\ fills' = Append(fills, FillOf("BUY"))
      BY <1>2 DEF Entry, MayEnter, BaseSignals, TypeInv, RunsOK, Working
    <2> QED BY <2>1, TurnStep
  <1>3. CASE UNCHANGED <<entered, fills>>
    BY <1>3 DEF RoundTrips
  <1>4. CASE (Exit \/ Entry) /\ fills' = fills
    <2>1. \A side \in {"BUY", "SELL"} : Append(fills, FillOf(side)) # fills
      <3> SUFFICES ASSUME NEW side \in {"BUY", "SELL"}
                   PROVE  Append(fills, FillOf(side)) # fills
        OBVIOUS
      <3>1. FillOf(side) \in Fill /\ fills \in Seq(Fill)
        BY <1>4, BarTypes
        DEF Exit, Entry, TypeInv, TypeOK, RunsOK, Working, FillOf, Fill, Bar
      <3>2. Len(Append(fills, FillOf(side))) = Len(fills) + 1 /\ Len(fills) \in Nat
        <4> HIDE DEF Fill, FillOf
        <4> QED BY <3>1
      <3> QED BY <3>2
    <2> QED BY <1>3, <1>4, <2>1 DEF Exit, Entry
  <1> QED
    BY <1>1, <1>2, <1>3, <1>4
    DEF Next, ProcessBar, StartRun, SkipBar, ReadBar, StartCooldown, SaveProgress,
        RecordEod, Finish, Crash, vars, db

(* RoundTrips, which the run replay checks: for every file in UTC, and any *)
(* number of stops of the process.                                         *)
THEOREM TradesAreRoundTrips ==
    ASSUME Zone = 0
    PROVE  Spec => []RoundTrips
  <1> DEFINE IInv == TypeInv /\ LoopInv /\ BoughtInv /\ RoundTrips
  <1>1. Init => IInv
    <2>1. Init => BoughtInv
      BY DEF Init, BoughtInv
    <2>2. Init => RoundTrips
      BY DEF Init, RoundTrips, OwnFills, IsHeld
    <2> QED BY <2>1, <2>2, InitType, InitLoop
  <1>2. IInv /\ [Next]_vars => IInv'
    BY TypeStep, LoopStep, BoughtStep, TripStep
  <1> QED BY <1>1, <1>2, PTL DEF Spec

-----------------------------------------------------------------------------
(* The replay as a function of the file.                                   *)

State == [history : [Symbols -> Seq(BarIds)], entered : [Symbols -> 0 .. Len(Bars)],
          cooldown : [Symbols -> Nat], fills : Seq(Fill)]

LEMMA ReadType ==
    ASSUME NEW st \in State, NEW b \in BarIds
    PROVE  Read(st, b) \in State
  <1>1. Bars[b].symbol \in Symbols
    BY BarTypes
  <1>2. Append(st.history[Bars[b].symbol], b) \in Seq(BarIds)
    BY <1>1 DEF State
  <1> QED BY <1>1, <1>2 DEF Read, State

LEMMA SoldType ==
    ASSUME NEW st \in State, NEW b \in BarIds
    PROVE  Sold(st, b) \in State
  <1> DEFINE sell == [side |-> "SELL", bar |-> b, symbol |-> Bars[b].symbol]
  <1>1. Bars[b].symbol \in Symbols /\ Bars[b].end + StopCooldown \in Nat
    BY BarTypes, Parameters
  <1>2. sell \in Fill
    BY <1>1 DEF Fill
  <1>3. Append(st.fills, sell) \in Seq(Fill)
    BY <1>2 DEF State
  <1> HIDE DEF sell
  <1>4. [st EXCEPT !.entered[Bars[b].symbol] = 0,
                   !.cooldown[Bars[b].symbol] =
                      IF ExitReason(Bars[b], st.entered[Bars[b].symbol]) = "STOP"
                        THEN Bars[b].end + StopCooldown ELSE @,
                   !.fills = Append(@, sell)] \in State
    BY <1>1, <1>3, Parameters DEF State
  <1> QED BY <1>4 DEF Sold, sell

LEMMA BoughtType ==
    ASSUME NEW st \in State, NEW b \in BarIds
    PROVE  Bought(st, b) \in State
  <1> DEFINE buy == [side |-> "BUY", bar |-> b, symbol |-> Bars[b].symbol]
  <1>1. Bars[b].symbol \in Symbols
    BY BarTypes
  <1>2. buy \in Fill
    BY <1>1 DEF Fill
  <1>3. Append(st.fills, buy) \in Seq(Fill)
    BY <1>2 DEF State
  <1> HIDE DEF buy
  <1>4. [st EXCEPT !.entered[Bars[b].symbol] = b, !.fills = Append(@, buy)] \in State
    BY <1>1, <1>3, Parameters DEF State
  <1> QED BY <1>4 DEF Bought, buy

LEMMA ReplayedType ==
    ASSUME NEW st \in State, NEW b \in BarIds
    PROVE  Replayed(st, b) \in State
  BY ReadType, SoldType, BoughtType DEF Replayed

(* The function exists: after every bar it is what its definition says.    *)
LEMMA AfterDef ==
    /\ \A n \in 0 .. Len(Bars) : After[n] \in State
    /\ After[0] = AtStart
    /\ \A b \in BarIds : After[b] =
          IF IsRegular(Bars[b]) THEN Replayed(After[b - 1], b) ELSE After[b - 1]
  <1> DEFINE Onwards(st, b) == IF IsRegular(Bars[b]) THEN Replayed(st, b) ELSE st
             step == [b \in 1 .. Len(Bars) |-> [st \in State |-> Onwards(st, b)]]
             Def(f) == f = [b \in 0 .. Len(Bars) |->
                              IF b = 0 THEN AtStart ELSE Onwards(f[b - 1], b)]
  <1>1. \A b \in BarIds, st \in State : Onwards(st, b) \in State
    BY ReplayedType
  <1>2. AtStart \in State
    <2>1. <<>> \in Seq(Fill) /\ <<>> \in Seq(BarIds)
      OBVIOUS
    <2> HIDE DEF Fill
    <2> QED BY <2>1, Parameters DEF AtStart, State, NoHistory
  <1>3. \E f \in [0 .. Len(Bars) -> State] : Def(f)
    <2> HIDE DEF State, Onwards, AtStart
    <2>1. step \in [1 .. Len(Bars) -> [State -> State]]
      BY <1>1 DEF BarIds
    <2>2. PICK f : Leads(f, Len(Bars), State, AtStart, step)
      <3>1. Len(Bars) \in Nat
        BY BarTypes
      <3> HIDE DEF step
      <3> QED BY <1>2, <2>1, <3>1, Recursion
    <2>3. f \in [0 .. Len(Bars) -> State]
          /\ \A b \in 1 .. Len(Bars) : f[b - 1] \in State
      BY <2>2, BarTypes DEF Leads
    <2>4. \A b \in 1 .. Len(Bars) : f[b] = Onwards(f[b - 1], b)
      BY <2>2, <2>3 DEF Leads
    <2>5. Def(f)
      BY <2>2, <2>3, <2>4, BarTypes DEF Leads
    <2> QED BY <2>3, <2>5
  <1>4. Def(After)
    <2>1. After = CHOOSE f : Def(f)
      BY DEF After
    <2> HIDE DEF Def
    <2> QED BY <1>3, <2>1
  <1>5. \A b \in BarIds : b \in 0 .. Len(Bars) /\ b # 0
    BY BarTypes DEF BarIds
  <1>6. After[0] = AtStart /\ \A b \in BarIds : After[b] = Onwards(After[b - 1], b)
    <2> HIDE DEF Onwards, AtStart
    <2>1. \A b \in 0 .. Len(Bars) :
            After[b] = IF b = 0 THEN AtStart ELSE Onwards(After[b - 1], b)
      BY <1>4, Zenon
    <2> QED BY <1>5, <2>1, Parameters
  <1>7. \A n \in 0 .. Len(Bars) : After[n] \in State
    <2> DEFINE T == {n \in 0 .. Len(Bars) : After[n] \in State}
    <2> HIDE DEF State, Onwards, AtStart
    <2>1. 0 \in T
      BY <1>2, <1>6, Parameters
    <2>2. ASSUME NEW n \in 0 .. Len(Bars) - 1, n \in T
          PROVE  n + 1 \in T
      <3>1. n + 1 \in BarIds /\ n + 1 - 1 = n
        BY BarTypes DEF BarIds
      <3>2. After[n + 1] = Onwards(After[n], n + 1)
        BY <1>6, <3>1
      <3> QED BY <1>1, <1>5, <2>2, <3>1, <3>2
    <2>3. 0 .. Len(Bars) \subseteq T
      <3> HIDE DEF T
      <3> QED BY <2>1, <2>2, BarTypes, Induction
    <2> QED BY <2>3
  <1> QED BY <1>6, <1>7

(* A replay that has not been stopped and has not completed knows no       *)
(* checkpoint beyond the bars it has seen.                                 *)
FirstRun == crashes = 0 /\ ~completed

SeenInv ==
    FirstRun => \A s \in Symbols : checkpoint[s] # 0 =>
        /\ pc # "down"
        /\ \E c \in BarIds :
              /\ Bars[c].symbol = s /\ Bars[c].end = checkpoint[s]
              /\ c < next \/ (c = next /\ pc = "eod")

Current == [history |-> history, entered |-> entered, cooldown |-> cooldown, fills |-> fills]
CooledDown == [Current EXCEPT !.cooldown[Bar.symbol] = Bar.end + StopCooldown]

(* What it holds is what the function says, bar by bar and step by step.   *)
FollowsFunction ==
    /\ pc = "down" => recorded = {} /\ Current = AtStart
    /\ pc = "bar" => Current = After[next - 1]
    /\ pc = "exit" => Current = Read(After[next - 1], next)
    /\ pc = "cooldown" => CooledDown = Sold(Read(After[next - 1], next), next)
    /\ pc = "entry" => Current = Sold(Read(After[next - 1], next), next)
    /\ pc \in {"save", "eod"} => Current = After[next]

FunctionInv ==
    /\ FirstRun => FollowsFunction
    /\ crashes = 0 /\ completed => pc \in {"down", "bar"} /\ fills = Uninterrupted

(* The first run skips no regular bar.                                     *)
LEMMA NotAhead ==
    ASSUME NoBarTwice, TypeInv, SeenInv, FirstRun, pc = "bar", next \in BarIds
    PROVE  ~IsDone(next)
  <1> SUFFICES ASSUME IsDone(next) PROVE FALSE
    OBVIOUS
  <1>1. Bars[next].symbol \in Symbols /\ Bars[next].end \in Nat /\ Bars[next].end > 0
    BY BarTypes
  <1>2. checkpoint[Bars[next].symbol] # 0 /\ Bars[next].end <= checkpoint[Bars[next].symbol]
    BY <1>1 DEF IsDone
  <1>3. PICK c \in BarIds : /\ Bars[c].symbol = Bars[next].symbol
                            /\ Bars[c].end = checkpoint[Bars[next].symbol]
                            /\ c < next
    BY <1>1, <1>2 DEF SeenInv
  <1>4. Bars[c].end \in Nat /\ Bars[c].end <= Bars[next].end
    BY <1>3, BarTypes DEF BarIds
  <1>5. Bars[c].end = Bars[next].end
    BY <1>1, <1>2, <1>3, <1>4
  <1> QED BY <1>3, <1>5 DEF NoBarTwice, BarIds

LEMMA SeenStep ==
    ASSUME TypeInv, SeenInv, [Next]_vars
    PROVE  SeenInv'
  <1> SUFFICES ASSUME FirstRun' PROVE SeenInv'
    BY DEF SeenInv
  <1>1. next \in 1 .. Len(Bars) + 1 /\ Len(Bars) \in Nat /\ crashes \in Nat
    BY BarTypes, Parameters DEF TypeInv, TypeOK
  <1>2. CASE Crash \/ Finish
    BY <1>1, <1>2 DEF Crash, Finish, FirstRun
  <1>3. CASE SaveProgress
    <2>1. /\ FirstRun /\ pc = "save" /\ next \in BarIds
          /\ \A s \in Symbols :
                checkpoint'[s] = IF s = Bar.symbol THEN Bar.end ELSE checkpoint[s]
          /\ \/ pc' = "eod" /\ next' = next
             \/ pc' = "bar" /\ next' = next + 1
      BY <1>3 DEF SaveProgress, TypeInv, RunsOK, Working, FirstRun
    <2>2. ASSUME NEW s \in Symbols, checkpoint'[s] # 0
          PROVE  \E c \in BarIds : /\ Bars[c].symbol = s /\ Bars[c].end = checkpoint'[s]
                                   /\ c < next' \/ (c = next' /\ pc' = "eod")
      <3>1. CASE s = Bar.symbol
        BY <1>1, <2>1, <3>1 DEF Bar
      <3>2. CASE s # Bar.symbol
        <4>1. PICK c \in BarIds : Bars[c].symbol = s /\ Bars[c].end = checkpoint[s] /\ c < next
          BY <2>1, <2>2, <3>2 DEF SeenInv
        <4>2. checkpoint'[s] = checkpoint[s]
          BY <2>1, <3>2
        <4>3. c < next'
          BY <1>1, <2>1, <4>1 DEF BarIds
        <4> QED BY <4>1, <4>2, <4>3
      <3> QED BY <3>1, <3>2
    <2> QED BY <2>1, <2>2 DEF SeenInv
  <1>4. CASE SkipBar \/ RecordEod
    <2>1. /\ FirstRun /\ checkpoint' = checkpoint /\ next' = next + 1
          /\ pc # "down" /\ pc' # "down"
      BY <1>4 DEF SkipBar, RecordEod, FirstRun, db
    <2>2. \A c \in BarIds : c < next \/ c = next => c < next'
      BY <1>1, <2>1 DEF BarIds
    <2> QED BY <2>1, <2>2 DEF SeenInv
  <1>5. CASE StartRun
    BY <1>5 DEF StartRun, SeenInv, FirstRun, db
  <1>6. CASE ReadBar \/ Exit \/ StartCooldown \/ Entry \/ UNCHANGED vars
    <2>1. /\ FirstRun /\ UNCHANGED <<checkpoint, next>>
          /\ \/ pc' = pc
             \/ pc \notin {"down", "eod"} /\ pc' # "down"
      BY <1>6 DEF ReadBar, Exit, StartCooldown, Entry, FirstRun, vars, db
    <2> QED BY <2>1 DEF SeenInv
  <1> QED
    BY <1>2, <1>3, <1>4, <1>5, <1>6 DEF Next, ProcessBar

(* The three parts of the function, table by table.                        *)
LEMMA ReadParts ==
    ASSUME NEW st \in State, NEW b \in BarIds
    PROVE  /\ Read(st, b).history =
                 [st.history EXCEPT ![Bars[b].symbol] = Append(@, b)]
           /\ Read(st, b).entered = st.entered
           /\ Read(st, b).cooldown = st.cooldown
           /\ Read(st, b).fills = st.fills
  BY DEF Read, State

LEMMA SoldParts ==
    ASSUME NEW st \in State, NEW b \in BarIds, NEW reason,
           reason = ExitReason(Bars[b], st.entered[Bars[b].symbol])
    PROVE  /\ Sold(st, b).history = st.history
           /\ Sold(st, b).entered =
                 IF reason = "NONE" THEN st.entered
                 ELSE [st.entered EXCEPT ![Bars[b].symbol] = 0]
           /\ Sold(st, b).cooldown =
                 IF reason = "STOP"
                   THEN [st.cooldown EXCEPT ![Bars[b].symbol] = Bars[b].end + StopCooldown]
                   ELSE st.cooldown
           /\ Sold(st, b).fills =
                 IF reason = "NONE" THEN st.fills
                 ELSE Append(st.fills,
                             [side |-> "SELL", bar |-> b, symbol |-> Bars[b].symbol])
  <1>1. Bars[b].symbol \in Symbols
    BY BarTypes
  <1>2. [st.cooldown EXCEPT ![Bars[b].symbol] = @] = st.cooldown
    BY <1>1 DEF State
  <1>3. CASE reason = "NONE"
    BY <1>3 DEF Sold
  <1>4. CASE reason # "NONE"
    BY <1>2, <1>4 DEF Sold, State
  <1> QED BY <1>3, <1>4

LEMMA BoughtParts ==
    ASSUME NEW st \in State, NEW b \in BarIds, NEW may \in BOOLEAN,
           may <=> MayEnter(Bars[b], st.history, st.entered, st.cooldown)
    PROVE  /\ Bought(st, b).history = st.history
           /\ Bought(st, b).cooldown = st.cooldown
           /\ Bought(st, b).entered =
                 IF may THEN [st.entered EXCEPT ![Bars[b].symbol] = b] ELSE st.entered
           /\ Bought(st, b).fills =
                 IF may THEN Append(st.fills, [side |-> "BUY", bar |-> b,
                                               symbol |-> Bars[b].symbol])
                 ELSE st.fills
  BY DEF Bought, State

LEMMA ReplayedIs ==
    ASSUME NEW st \in State, NEW b \in BarIds
    PROVE  Replayed(st, b) = Bought(Sold(Read(st, b), b), b)
  <1>1. CASE st.entered[Bars[b].symbol] = 0
    <2>1. Read(st, b).entered[Bars[b].symbol] = 0
      BY <1>1, ReadParts
    <2>2. ExitReason(Bars[b], Read(st, b).entered[Bars[b].symbol]) = "NONE"
      BY <2>1 DEF ExitReason
    <2>3. Sold(Read(st, b), b) = Read(st, b)
      BY <2>2 DEF Sold
    <2> QED BY <1>1, <2>3 DEF Replayed
  <1>2. CASE st.entered[Bars[b].symbol] # 0
    BY <1>2 DEF Replayed
  <1> QED BY <1>1, <1>2

LEMMA CurrentIs ==
    ASSUME NEW st \in State
    PROVE  /\ Current = st <=>
                 /\ history = st.history /\ entered = st.entered
                 /\ cooldown = st.cooldown /\ fills = st.fills
           /\ Current' = st <=>
                 /\ history' = st.history /\ entered' = st.entered
                 /\ cooldown' = st.cooldown /\ fills' = st.fills
  BY DEF Current, State

(* A database without bars warms up to no history.                         *)
LEMMA NoBars ==
    ASSUME NEW s
    PROVE  BarsOf(s, {}) = <<>>
  <1> DEFINE T == {n \in 0 .. Len(Bars) : BarsUpTo(s, {})[n] = <<>>}
  <1>1. 0 \in T
    BY BarsUpToDef, Parameters
  <1>2. ASSUME NEW n \in 0 .. Len(Bars) - 1, n \in T
        PROVE  n + 1 \in T
    <2>1. n + 1 \in BarIds /\ n + 1 \in 0 .. Len(Bars) /\ n + 1 - 1 = n
      BY BarTypes DEF BarIds
    <2>2. BarsUpTo(s, {})[n + 1] = BarsUpTo(s, {})[n]
      BY <2>1, BarsUpToDef
    <2> QED BY <1>2, <2>1, <2>2
  <1>3. 0 .. Len(Bars) \subseteq T
    <2>1. Len(Bars) \in Nat
      BY BarTypes
    <2> HIDE DEF T
    <2> QED BY <1>1, <1>2, <2>1, Induction
  <1>4. Len(Bars) \in 0 .. Len(Bars)
    BY BarTypes
  <1> QED BY <1>3, <1>4 DEF BarsOf

(* In the first run every step is a part of the function.                  *)
LEMMA FollowStep ==
    ASSUME Zone >= 0, NoBarTwice, TypeInv, SeenInv, FirstRun, FirstRun', FollowsFunction,
           [Next]_vars
    PROVE  FollowsFunction'
  <1> DEFINE prev == After[next - 1]
             read == Read(prev, next)
             sold == Sold(read, next)
             sym == Bar.symbol
  <1>1. next \in 1 .. Len(Bars) + 1 /\ Len(Bars) \in Nat /\ crashes \in Nat
    BY BarTypes, Parameters DEF TypeInv, TypeOK
  <1>2. prev \in State
    BY <1>1, AfterDef
  <1>3. pc \in Working => next \in BarIds /\ IsRegular(Bars[next])
    BY DEF TypeInv, RunsOK, Bar
  <1>4. next \in BarIds => /\ read \in State /\ sold \in State /\ sym \in Symbols
                           /\ Bought(sold, next) = Replayed(prev, next)
    BY <1>2, ReadType, SoldType, ReplayedIs, BarTypes DEF Bar
  <1>5. next \in BarIds => After[next] \in State
    BY AfterDef, Parameters
  <1>6. next \in BarIds /\ IsRegular(Bars[next]) => After[next] = Replayed(prev, next)
    BY AfterDef
  <1>7. AtStart \in State /\ AtStart = After[0]
    BY AfterDef, Parameters
  <1> HIDE DEF prev, read, sold
  <1>8. CASE StartRun
    <2>1. pc = "down" /\ pc' = "bar" /\ next' = 1 /\ UNCHANGED <<entered, cooldown, fills>>
          /\ history' = [s \in Symbols |-> BarsOf(s, recorded)]
      BY <1>8 DEF StartRun, MarketBars, db
    <2>2. history' = NoHistory
      BY <2>1, NoBars DEF FollowsFunction, NoHistory
    <2>3. Current = AtStart
      BY <2>1 DEF FollowsFunction
    <2>4. Current' = AtStart
      BY <1>7, <2>1, <2>2, <2>3, CurrentIs DEF AtStart
    <2> QED BY <1>7, <2>1, <2>4 DEF FollowsFunction
  <1>9. CASE SkipBar
    <2>1. /\ pc = "bar" /\ pc' = "bar" /\ next \in BarIds /\ next' = next + 1
          /\ UNCHANGED <<history, entered, cooldown, fills>>
      BY <1>9 DEF SkipBar, Ready, db
    <2>2. ~IsRegular(Bars[next])
      BY <1>9, <2>1, NotAhead, ProcessedOnlyIfDone DEF SkipBar, Bar
    <2>3. After[next] = prev
      BY <2>1, <2>2, AfterDef DEF prev
    <2>4. Current' = Current
      BY <2>1 DEF Current
    <2>5. next' - 1 = next
      BY <1>1, <2>1
    <2> QED BY <2>1, <2>3, <2>4, <2>5 DEF FollowsFunction, prev
  <1>10. CASE ReadBar
    <2>1. /\ pc = "bar" /\ pc' = "exit" /\ next \in BarIds /\ next' = next
          /\ history' = [history EXCEPT ![sym] = Append(@, next)]
          /\ UNCHANGED <<entered, cooldown, fills>>
      BY <1>10 DEF ReadBar, Ready
    <2>2. Current = prev
      BY <2>1 DEF FollowsFunction, prev
    <2>3. history = prev.history /\ entered = prev.entered
          /\ cooldown = prev.cooldown /\ fills = prev.fills
      BY <1>2, <2>2, CurrentIs
    <2>4. /\ read.history = history'
          /\ read.entered = entered' /\ read.cooldown = cooldown' /\ read.fills = fills'
      BY <1>2, <2>1, <2>3, ReadParts DEF read, Bar
    <2>5. Current' = read
      BY <1>4, <2>1, <2>4, CurrentIs
    <2> QED BY <2>1, <2>5 DEF FollowsFunction, read, prev
  <1>11. CASE Exit
    <2>1. pc = "exit" /\ next \in BarIds /\ next' = next /\ UNCHANGED <<history, cooldown>>
      BY <1>3, <1>11 DEF Exit, Working
    <2>2. PICK reason : reason = ExitReason(Bar, entered[sym])
      OBVIOUS
    <2>3. /\ pc' = IF reason = "STOP" THEN "cooldown" ELSE "entry"
          /\ entered' = IF reason = "NONE" THEN entered ELSE [entered EXCEPT ![sym] = 0]
          /\ fills' = IF reason = "NONE" THEN fills ELSE Append(fills, FillOf("SELL"))
      BY <1>11, <2>2 DEF Exit
    <2>4. Current = read
      BY <2>1 DEF FollowsFunction, read, prev
    <2>5. history = read.history /\ entered = read.entered
          /\ cooldown = read.cooldown /\ fills = read.fills
      BY <1>4, <2>1, <2>4, CurrentIs
    <2>6. /\ sold.history = history
          /\ sold.entered = entered'
          /\ sold.cooldown = IF reason = "STOP"
                               THEN [cooldown EXCEPT ![sym] = Bar.end + StopCooldown]
                               ELSE cooldown
          /\ sold.fills = fills'
      BY <1>4, <2>1, <2>2, <2>3, <2>5, SoldParts DEF sold, FillOf, Bar
    <2>7. CASE reason = "STOP"
      <3>1. CooledDown' = sold
        BY <1>4, <2>1, <2>6, <2>7 DEF CooledDown, Current, Bar, State
      <3> QED BY <2>1, <2>3, <2>7, <3>1 DEF FollowsFunction, sold, read, prev
    <2>8. CASE reason # "STOP"
      <3>1. Current' = sold
        BY <1>4, <2>1, <2>6, <2>8, CurrentIs
      <3> QED BY <2>1, <2>3, <2>8, <3>1 DEF FollowsFunction, sold, read, prev
    <2> QED BY <2>7, <2>8
  <1>12. CASE StartCooldown
    <2>1. /\ pc = "cooldown" /\ pc' = "entry" /\ next' = next
          /\ cooldown' = [cooldown EXCEPT ![sym] = Bar.end + StopCooldown]
          /\ UNCHANGED <<history, entered, fills>>
      BY <1>12 DEF StartCooldown
    <2>2. CooledDown = sold
      BY <2>1 DEF FollowsFunction, sold, read, prev
    <2>3. Current' = sold
      BY <2>1, <2>2 DEF Current, CooledDown
    <2> QED BY <2>1, <2>3 DEF FollowsFunction, sold, read, prev
  <1>13. CASE Entry
    <2>1. pc = "entry" /\ pc' = "save" /\ next' = next /\ next \in BarIds
          /\ UNCHANGED <<history, cooldown>>
      BY <1>3, <1>13 DEF Entry, Working
    <2>2. PICK may \in BOOLEAN : may <=> MayEnter(Bar, history, entered, cooldown)
      OBVIOUS
    <2>3. /\ entered' = IF may THEN [entered EXCEPT ![sym] = next] ELSE entered
          /\ fills' = IF may THEN Append(fills, FillOf("BUY")) ELSE fills
      BY <1>13, <2>2 DEF Entry
    <2>4. Current = sold
      BY <2>1 DEF FollowsFunction, sold, read, prev
    <2>5. history = sold.history /\ entered = sold.entered
          /\ cooldown = sold.cooldown /\ fills = sold.fills
      BY <1>4, <2>1, <2>4, CurrentIs
    <2>6. /\ Bought(sold, next).history = history'
          /\ Bought(sold, next).entered = entered'
          /\ Bought(sold, next).cooldown = cooldown'
          /\ Bought(sold, next).fills = fills'
      BY <1>4, <2>1, <2>2, <2>3, <2>5, BoughtParts DEF FillOf, Bar
    <2>7. After[next] = Bought(sold, next)
      BY <1>3, <1>4, <1>6, <2>1 DEF Working
    <2>8. Current' = After[next]
      BY <1>5, <2>1, <2>6, <2>7, CurrentIs
    <2> QED BY <2>1, <2>8 DEF FollowsFunction
  <1>14. CASE SaveProgress \/ RecordEod
    <2>1. /\ pc \in {"save", "eod"} /\ UNCHANGED <<history, entered, cooldown, fills>>
          /\ \/ pc' = "eod" /\ next' = next
             \/ pc' = "bar" /\ next' = next + 1
      BY <1>14 DEF SaveProgress, RecordEod
    <2>2. Current' = After[next]
      BY <2>1 DEF FollowsFunction, Current
    <2>3. next' = next + 1 => next' - 1 = next
      BY <1>1
    <2> QED BY <2>1, <2>2, <2>3 DEF FollowsFunction
  <1>15. CASE Finish \/ Crash
    BY <1>1, <1>15 DEF Finish, Crash, FirstRun
  <1>16. CASE UNCHANGED vars
    BY <1>16 DEF FollowsFunction, Current, CooledDown, Bar, vars, db
  <1> QED
    BY <1>8, <1>9, <1>10, <1>11, <1>12, <1>13, <1>14, <1>15, <1>16 DEF Next, ProcessBar

LEMMA FunctionStep ==
    ASSUME Zone = 0, NoBarTwice, TypeInv, LoopInv, SeenInv, FunctionInv, [Next]_vars
    PROVE  FunctionInv'
  <1>1. crashes \in Nat /\ next \in 1 .. Len(Bars) + 1 /\ Len(Bars) \in Nat
    BY BarTypes, Parameters DEF TypeInv, TypeOK
  <1>2. ASSUME FirstRun'
        PROVE  FollowsFunction'
    <2>1. FirstRun
      BY <1>1, <1>2
      DEF Next, ProcessBar, StartRun, SkipBar, ReadBar, Exit, StartCooldown, Entry,
          SaveProgress, RecordEod, Finish, Crash, vars, db, FirstRun
    <2> QED BY <1>2, <2>1, FollowStep DEF FunctionInv
  <1>3. ASSUME crashes' = 0, completed'
        PROVE  pc' \in {"down", "bar"} /\ fills' = Uninterrupted
    <2>1. CASE Finish
      <3>1. pc = "bar" /\ next \notin BarIds /\ pc' = "down" /\ crashes = 0 /\ fills' = fills
        BY <1>3, <2>1 DEF Finish, Ready, db
      <3>2. next - 1 = Len(Bars)
        BY <1>1, <3>1 DEF BarIds
      <3>3. ~completed => fills = After[Len(Bars)].fills
        <4>1. After[Len(Bars)] \in State
          BY <1>1, AfterDef
        <4> QED BY <3>1, <3>2, <4>1, CurrentIs DEF FunctionInv, FirstRun, FollowsFunction
      <3> QED BY <3>1, <3>3 DEF FunctionInv, Uninterrupted
    <2>2. CASE ReadBar
      <3>1. next \in BarIds /\ IsRegular(Bars[next]) /\ completed
        BY <1>3, <2>2 DEF ReadBar, Ready, Bar
      <3>2. ~IsDone(next)
        BY <2>2, <3>1, ProcessedIsDone DEF ReadBar, Bar
      <3>3. next < Len(Bars) + 1
        BY <1>1, <3>1 DEF BarIds
      <3> QED BY <3>1, <3>2, <3>3 DEF LoopInv, AllDone
    <2>3. CASE Crash
      BY <1>1, <1>3, <2>3 DEF Crash
    <2>4. CASE ~(Finish \/ ReadBar \/ Crash)
      <3>1. crashes = 0 /\ completed
        BY <1>3, <2>4
        DEF Next, ProcessBar, StartRun, SkipBar, Exit, StartCooldown, Entry,
            SaveProgress, RecordEod, vars, db
      <3>2. pc \in {"down", "bar"} /\ fills = Uninterrupted
        BY <3>1 DEF FunctionInv
      <3>3. StartRun \/ SkipBar \/ UNCHANGED vars
        BY <2>4, <3>2
        DEF Next, ProcessBar, Exit, StartCooldown, Entry, SaveProgress, RecordEod
      <3> QED BY <3>2, <3>3 DEF StartRun, SkipBar, vars, db
    <2> QED BY <2>1, <2>2, <2>3, <2>4
  <1> QED BY <1>2, <1>3 DEF FunctionInv

(* ReplayIsFunction, which the run replay checks: for every file in UTC    *)
(* that names no bar twice, and however often it is replayed.              *)
THEOREM UninterruptedReplayIsFunction ==
    ASSUME Zone = 0, NoBarTwice
    PROVE  Spec => []ReplayIsFunction
  <1> DEFINE IInv == TypeInv /\ LoopInv /\ SeenInv /\ FunctionInv
  <1>1. Init => IInv
    <2>1. Init => SeenInv
      BY DEF Init, SeenInv
    <2>2. Init => FunctionInv
      BY DEF Init, FunctionInv, FollowsFunction, Current, AtStart
    <2> QED BY <2>1, <2>2, InitType, InitLoop
  <1>2. IInv /\ [Next]_vars => IInv'
    BY TypeStep, LoopStep, SeenStep, FunctionStep
  <1>3. IInv => ReplayIsFunction
    BY DEF FunctionInv, ReplayIsFunction
  <1> QED BY <1>1, <1>2, <1>3, PTL DEF Spec

(* What the first run of a file trades, for every file in UTC or in a zone *)
(* east of it that names no bar twice, hence for those of the downloader   *)
(* (run_replay.py 89): a first run that is not stopped ends with the       *)
(* trades that the function of the file says.                              *)
FirstReplayFollows ==
    [][(crashes = 0 /\ ~completed /\ completed') => fills' = Uninterrupted]_vars

THEOREM FirstReplayIsFunction ==
    ASSUME Zone >= 0, NoBarTwice
    PROVE  Spec => FirstReplayFollows
  <1> DEFINE IInv == TypeInv /\ SeenInv /\ (FirstRun => FollowsFunction)
  <1>1. Init => IInv
    BY InitType DEF Init, SeenInv, FollowsFunction, Current, AtStart
  <1>2. IInv /\ [Next]_vars => IInv'
    <2> SUFFICES ASSUME IInv, [Next]_vars, FirstRun' PROVE FollowsFunction'
      BY TypeStep, SeenStep
    <2>1. crashes \in Nat
      BY DEF TypeInv, TypeOK
    <2>2. FirstRun
      BY <2>1
      DEF Next, ProcessBar, StartRun, SkipBar, ReadBar, Exit, StartCooldown, Entry,
          SaveProgress, RecordEod, Finish, Crash, vars, db, FirstRun
    <2> QED BY <2>2, FollowStep
  <1>3. IInv /\ [Next]_vars =>
            [(crashes = 0 /\ ~completed /\ completed') => fills' = Uninterrupted]_vars
    <2> SUFFICES ASSUME IInv, Next, crashes = 0, ~completed, completed'
                 PROVE  fills' = Uninterrupted
      OBVIOUS
    <2>1. Finish
      BY DEF Next, ProcessBar, StartRun, SkipBar, ReadBar, Exit, StartCooldown, Entry,
             SaveProgress, RecordEod, Crash, vars, db
    <2>2. pc = "bar" /\ next \notin BarIds /\ fills' = fills
      BY <2>1 DEF Finish, Ready, db
    <2>3. next \in 1 .. Len(Bars) + 1 /\ Len(Bars) \in Nat
      BY BarTypes DEF TypeInv, TypeOK
    <2>4. next - 1 = Len(Bars)
      BY <2>2, <2>3 DEF BarIds
    <2>5. Current = After[Len(Bars)] /\ After[Len(Bars)] \in State
      BY <2>2, <2>3, <2>4, AfterDef DEF FollowsFunction, FirstRun
    <2> QED BY <2>2, <2>5, CurrentIs DEF Uninterrupted
  <1> QED BY <1>1, <1>2, <1>3, PTL DEF Spec, FirstReplayFollows
=============================================================================
