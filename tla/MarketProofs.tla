---------------------------- MODULE MarketProofs ----------------------------
(***************************************************************************)
(* Theorems about the market: HistoryDownload, for every number of         *)
(* symbols, days and retries, every length of a chunk and every moment of  *)
(* a crash; the daily bars of MarketRegime, for every market and whatever  *)
(* lists were where; and RegimeRules, for all measures.                    *)
(***************************************************************************)
EXTENDS HistoryDownload, MarketRegime, WellFoundedInduction, SequenceTheorems, TLAPS

Number == Nat \ {0}
RowsOf(p) == {<<SymbolOf(p), d>> : d \in DaysOf(p)}
PartOf(rows, p) == {row \in rows : row[1] = SymbolOf(p) /\ row[2] \in DaysOf(p)}

-----------------------------------------------------------------------------
(* The pieces do not overlap.                                              *)

LEMMA Numbers ==
    /\ MaxDays \in Number /\ StartDay \in Nat /\ EndDay \in Nat /\ StartDay <= EndDay
    /\ Len(SymbolList) \in Number
BY DownloadAssumption DEF Number

LEMMA SymbolsAreApart ==
    /\ DOMAIN SymbolList = 1 .. Len(SymbolList)
    /\ \A j, k \in DOMAIN SymbolList : SymbolList[j] = SymbolList[k] => j = k
BY DownloadAssumption

LEMMA DivMod ==
    ASSUME NEW a \in Nat, NEW c \in Number
    PROVE  a = c * (a \div c) + (a % c) /\ a \div c \in Nat /\ a % c \in Nat
BY SMTT(30) DEF Number

LEMMA TimesKeepsOrder ==
    ASSUME NEW a \in Nat, NEW b \in Nat, NEW c \in Number, a <= b
    PROVE  c * a <= c * b
BY SMTT(30) DEF Number

LEMMA Chunked == ChunkCount \in Number
BY Numbers, SMTT(30) DEF ChunkCount, Number

LEMMA ChunksAreApart ==
    ASSUME NEW k \in Number, NEW l \in Number,
           NEW d, d \in ChunkDays(k), d \in ChunkDays(l)
    PROVE  k = l
<1>1. ASSUME NEW i \in Number
      PROVE  ChunkDays(i) \subseteq
                 {x \in Int : /\ StartDay + (i - 1) * MaxDays <= x
                              /\ x <= StartDay + (i - 1) * MaxDays + MaxDays - 1}
  <2>1. (i - 1) * MaxDays \in Int
    BY Numbers DEF Number
  <2> QED BY <2>1, Numbers DEF ChunkDays, Smaller, Number
<1>2. ASSUME NEW i \in Number, NEW j \in Number, i < j
      PROVE  ~(d \in ChunkDays(i) /\ d \in ChunkDays(j))
  <2>1. i * MaxDays <= (j - 1) * MaxDays
    BY <1>2, Numbers, SMTT(30) DEF Number
  <2>2. i * MaxDays = (i - 1) * MaxDays + MaxDays
    BY <1>2, Numbers, SMTT(30) DEF Number
  <2>3. (i - 1) * MaxDays \in Int /\ (j - 1) * MaxDays \in Int
    BY Numbers DEF Number
  <2>4. ASSUME d \in ChunkDays(i), d \in ChunkDays(j) PROVE FALSE
    <3> DEFINE before == (i - 1) * MaxDays
               skipped == (j - 1) * MaxDays
    <3>1. d \in Int /\ d <= StartDay + before + MaxDays - 1 /\ StartDay + skipped <= d
      BY <1>1, <2>4
    <3>2. before + MaxDays <= skipped
      BY <2>1, <2>2
    <3>3. before \in Int /\ skipped \in Int /\ MaxDays \in Int /\ StartDay \in Int
      BY <2>3, Numbers DEF Number
    <3> HIDE DEF before, skipped
    <3> QED BY <3>1, <3>2, <3>3
  <2> QED BY <2>4
<1> QED BY <1>2 DEF Number

LEMMA PieceHasPlace ==
    ASSUME NEW p \in Pieces
    PROVE  /\ p \in Number
           /\ 1 + ((p - 1) \div ChunkCount) \in DOMAIN SymbolList
           /\ 1 + ((p - 1) % ChunkCount) \in Number
<1>1. Len(SymbolList) * ChunkCount \in Nat /\ p \in Number /\ p <= Len(SymbolList) * ChunkCount
  BY Chunked, Numbers DEF Pieces, Number
<1>2. /\ p - 1 = ChunkCount * ((p - 1) \div ChunkCount) + ((p - 1) % ChunkCount)
      /\ (p - 1) \div ChunkCount \in Nat
      /\ (p - 1) % ChunkCount \in Nat
  BY <1>1, Chunked, DivMod DEF Number
<1>3. ASSUME (p - 1) \div ChunkCount >= Len(SymbolList) PROVE FALSE
  <2>1. ChunkCount * ((p - 1) \div ChunkCount) >= ChunkCount * Len(SymbolList)
    BY <1>2, <1>3, Chunked, Numbers, TimesKeepsOrder DEF Number
  <2> QED BY <1>1, <1>2, <2>1, Chunked, Numbers, SMTT(30) DEF Number
<1> QED BY <1>1, <1>2, <1>3, Numbers, SymbolsAreApart DEF Number

(* A row belongs to one piece.                                             *)
LEMMA PiecesAreApart ==
    ASSUME NEW p \in Pieces, NEW q \in Pieces, NEW d,
           SymbolOf(p) = SymbolOf(q), d \in DaysOf(p), d \in DaysOf(q)
    PROVE  p = q
<1>1. (p - 1) \div ChunkCount = (q - 1) \div ChunkCount
  <2>1. 1 + ((p - 1) \div ChunkCount) = 1 + ((q - 1) \div ChunkCount)
    BY PieceHasPlace, SymbolsAreApart DEF SymbolOf
  <2>2. (p - 1) \div ChunkCount \in Int /\ (q - 1) \div ChunkCount \in Int
    BY PieceHasPlace, Chunked, SMTT(30) DEF Number
  <2> QED BY <2>1, <2>2
<1>2. (p - 1) % ChunkCount = (q - 1) % ChunkCount
  <2>1. 1 + ((p - 1) % ChunkCount) = 1 + ((q - 1) % ChunkCount)
    BY PieceHasPlace, ChunksAreApart DEF DaysOf
  <2>2. (p - 1) % ChunkCount \in Int /\ (q - 1) % ChunkCount \in Int
    BY PieceHasPlace, Chunked, SMTT(30) DEF Number
  <2> QED BY <2>1, <2>2
<1>3. /\ p - 1 = ChunkCount * ((p - 1) \div ChunkCount) + ((p - 1) % ChunkCount)
      /\ q - 1 = ChunkCount * ((q - 1) \div ChunkCount) + ((q - 1) % ChunkCount)
  <2>1. p - 1 \in Nat /\ q - 1 \in Nat
    BY PieceHasPlace DEF Number
  <2> QED BY <2>1, Chunked, DivMod
<1> QED BY <1>1, <1>2, <1>3, PieceHasPlace DEF Number

LEMMA RowIsOfOnePiece ==
    ASSUME NEW p \in Pieces, NEW q \in Pieces, NEW row \in RowsOf(p),
           row[1] = SymbolOf(q), row[2] \in DaysOf(q)
    PROVE  p = q
BY PiecesAreApart DEF RowsOf

LEMMA AvailableIsOfPiece == ASSUME NEW p PROVE Available(p) \subseteq RowsOf(p)
BY DEF Available, RowsOf

-----------------------------------------------------------------------------
(* What a run has merged before it comes to piece k: a whole answer for    *)
(* every piece before k, and nothing else.                                 *)
MergedUpTo(rows, k) ==
    /\ \A p \in Pieces : p < k => PartOf(rows, p) \in answers[p]
    /\ \A row \in rows : \E p \in Pieces : p < k /\ row \in RowsOf(p)

(* One more answer is merged.                                              *)
LEMMA MergeNext ==
    ASSUME NEW rows, NEW k \in Pieces, NEW bars \in answers[k],
           MergedUpTo(rows, k), bars \subseteq RowsOf(k)
    PROVE  MergedUpTo(rows \cup bars, k + 1)
<1>1. ASSUME NEW p \in Pieces, p < k PROVE PartOf(rows \cup bars, p) = PartOf(rows, p)
  <2>1. ASSUME NEW row \in bars, row[1] = SymbolOf(p), row[2] \in DaysOf(p) PROVE FALSE
    BY <1>1, <2>1, RowIsOfOnePiece, PieceHasPlace DEF Number
  <2> QED BY <2>1 DEF PartOf
<1>2. PartOf(rows \cup bars, k) = bars
  <2>1. ASSUME NEW row \in rows, row[1] = SymbolOf(k), row[2] \in DaysOf(k) PROVE FALSE
    <3>1. PICK p \in Pieces : p < k /\ row \in RowsOf(p)
      BY DEF MergedUpTo
    <3> QED BY <2>1, <3>1, RowIsOfOnePiece, PieceHasPlace DEF Number
  <2>2. ASSUME NEW row \in bars PROVE row[1] = SymbolOf(k) /\ row[2] \in DaysOf(k)
    BY <2>2 DEF RowsOf
  <2> QED BY <2>1, <2>2 DEF PartOf
<1>3. \A p \in Pieces : p < k + 1 => p < k \/ p = k
  BY PieceHasPlace DEF Number
<1>4. \A p \in Pieces : p < k => p < k + 1
  BY PieceHasPlace DEF Number
<1>5. k < k + 1
  BY PieceHasPlace DEF Number
<1>6. ASSUME NEW row \in rows \cup bars PROVE \E p \in Pieces : p < k + 1 /\ row \in RowsOf(p)
  BY <1>4, <1>5 DEF MergedUpTo
<1>7. ASSUME NEW p \in Pieces, p < k + 1 PROVE PartOf(rows \cup bars, p) \in answers[p]
  BY <1>1, <1>2, <1>3, <1>7 DEF MergedUpTo
<1> QED BY <1>6, <1>7 DEF MergedUpTo

(* The invariant: a file is a whole answer, and so is what the run holds   *)
(* at each place of the loop.                                              *)
ProcFields == {"at", "piece", "attempt", "merged", "bars", "temp", "lastRequest", "nap"}

AnswersFit ==
    /\ DOMAIN answers = Pieces
    /\ \A p \in Pieces : \A rows \in answers[p] : rows \subseteq RowsOf(p)

FilesFit == DOMAIN cache = Pieces /\ FilesAreWhole

Asking == proc.at \in {"request", "sent", "write", "replace"}
Ending == proc.at \in {"merge", "publish"}

ProcFits ==
    /\ DOMAIN proc = ProcFields
    /\ proc.piece \in Number
    /\ MergedUpTo(proc.merged, proc.piece)
    /\ Asking => proc.piece \in Pieces
    /\ At("write") \/ At("replace") => proc.bars \in answers[proc.piece]
    /\ At("replace") => proc.temp = proc.bars
    /\ Ending => proc.piece \notin Pieces
    /\ At("publish") => proc.temp = proc.merged

IInv == AnswersFit /\ FilesFit /\ ProcFits

LEMMA BegunFits == ASSUME AnswersFit PROVE MergedUpTo({}, 1)
BY PieceHasPlace DEF MergedUpTo, Number

LEMMA InitFits == Init => IInv
<1> SUFFICES ASSUME Init PROVE IInv
  OBVIOUS
<1>1. AnswersFit /\ FilesFit
  BY DEF Init, AnswersFit, FilesFit, FilesAreWhole
<1>2. MergedUpTo({}, 1)
  BY <1>1, BegunFits
<1> QED BY <1>1, <1>2 DEF Init, IInv, ProcFits, Down, Begun, ProcFields, At, Asking, Ending, Number

(* Steps that only add an answer, or none, leave what was merged as it is. *)
LEMMA MergedStays ==
    ASSUME NEW rows, NEW k, MergedUpTo(rows, k),
           \A p \in Pieces : answers[p] \subseteq answers'[p]
    PROVE  MergedUpTo(rows, k)'
BY DEF MergedUpTo, Pieces, PartOf, RowsOf, SymbolOf, DaysOf, ChunkDays, ChunkCount, Smaller

LEMMA StepFits == IInv /\ [Next]_vars => IInv'
<1> SUFFICES ASSUME IInv, [Next]_vars PROVE IInv'
  OBVIOUS
<1> USE DEF IInv
<1>a. ASSUME UNCHANGED answers PROVE AnswersFit'
  BY <1>a DEF AnswersFit
<1>f. ASSUME UNCHANGED <<answers, cache, output>> PROVE FilesFit'
  BY <1>f DEF FilesFit, FilesAreWhole
<1>d. ASSUME proc' = Begun \/ proc' = Down, UNCHANGED answers PROVE ProcFits'
  <2>1. MergedUpTo({}, 1)'
    BY BegunFits, MergedStays, <1>d
  <2> QED BY <1>d, <2>1 DEF ProcFits, Down, Begun, ProcFields, At, Asking, Ending, Number
<1>m. ASSUME UNCHANGED answers, proc'.merged = proc.merged, proc'.piece = proc.piece
      PROVE  MergedUpTo(proc.merged, proc.piece)'
  BY <1>m, MergedStays DEF ProcFits
<1>1. CASE Start
  BY <1>1, <1>a, <1>f, <1>d DEF Start
<1>2. CASE UseCache
  <2>1. cache[proc.piece] \in answers[proc.piece] /\ cache[proc.piece] \subseteq RowsOf(proc.piece)
    BY <1>2 DEF UseCache, IsCached, FilesFit, FilesAreWhole, AnswersFit
  <2>2. MergedUpTo(proc.merged \cup cache[proc.piece], proc.piece + 1)
    BY <1>2, <2>1, MergeNext DEF UseCache, ProcFits
  <2>3. MergedUpTo(proc.merged, proc.piece)'
    BY <1>2, <2>2, MergedStays DEF UseCache, ProcFits, ProcFields
  <2>4. ProcFits'
    BY <1>2, <2>3 DEF UseCache, ProcFits, ProcFields, At, Asking, Ending, Number
  <2> QED BY <1>2, <1>a, <1>f, <2>4 DEF UseCache
<1>3. CASE Fetch
  BY <1>3, <1>a, <1>f, <1>m DEF Fetch, ProcFits, ProcFields, At, Asking, Ending
<1>4. CASE Send
  BY <1>4, <1>a, <1>f, <1>m DEF Send, Sent, ProcFits, ProcFields, At, Asking, Ending
<1>5. ASSUME NEW p \in Pieces, Answer(p) PROVE IInv'
  <2>1. /\ \A q \in Pieces : answers[q] \subseteq answers'[q]
        /\ Available(p) \in answers'[p]
        /\ AnswersFit'
    BY <1>5, AvailableIsOfPiece DEF Answer, AnswersFit
  <2>2. FilesFit'
    BY <1>5, <2>1 DEF Answer, FilesFit, FilesAreWhole
  <2>3. MergedUpTo(proc.merged, proc.piece)'
    <3>1. \A k : MergedUpTo(proc.merged, k) => (\A q \in Pieces : q < k => PartOf(proc.merged, q) \in answers'[q])
      BY <2>1 DEF MergedUpTo
    <3>2. proc'.merged = proc.merged /\ proc'.piece = proc.piece
      BY <1>5 DEF Answer, ProcFits, ProcFields
    <3> QED BY <3>1, <3>2 DEF MergedUpTo, ProcFits
  <2>4. ProcFits'
    BY <1>5, <2>1, <2>3 DEF Answer, ProcFits, ProcFields, At, Asking, Ending
  <2> QED BY <2>1, <2>2, <2>4
<1>6. CASE RetryableError
  BY <1>6, <1>a, <1>f, <1>m DEF RetryableError, ProcFits, ProcFields, At, Asking, Ending
<1>7. CASE FatalError
  BY <1>7, <1>a, <1>f, <1>d DEF FatalError
<1>8. CASE Merge
  BY <1>8, <1>a, <1>f, <1>m DEF Merge, ProcFits, ProcFields, At, Asking, Ending
<1>9. CASE WriteRows
  BY <1>9, <1>a, <1>f, <1>m DEF WriteRows, ProcFits, ProcFields, At, Asking, Ending
<1>10. CASE SyncRows
  <2>1. proc'.merged = proc.merged /\ proc'.piece = proc.piece /\ UNCHANGED answers
    BY <1>10 DEF SyncRows, ProcFits, ProcFields
  <2>2. ProcFits'
    BY <1>10, <2>1, <1>m DEF SyncRows, ProcFits, ProcFields, At, Asking, Ending
  <2> QED BY <1>10, <1>a, <1>f, <2>2 DEF SyncRows
<1>11. CASE Replace
  <2>1. /\ proc.piece \in Pieces /\ proc.temp = proc.bars
        /\ proc.bars \in answers[proc.piece] /\ proc.bars \subseteq RowsOf(proc.piece)
    BY <1>11 DEF Replace, ProcFits, Asking, At, AnswersFit
  <2>2. FilesFit'
    BY <1>11, <2>1 DEF Replace, FilesFit, FilesAreWhole
  <2>3. MergedUpTo(proc.merged \cup proc.bars, proc.piece + 1)
    BY <2>1, MergeNext DEF ProcFits
  <2>4. MergedUpTo(proc.merged, proc.piece)'
    BY <1>11, <2>3, MergedStays DEF Replace, ProcFits, ProcFields
  <2>5. ProcFits'
    BY <1>11, <2>4 DEF Replace, ProcFits, ProcFields, At, Asking, Ending, Number
  <2> QED BY <1>11, <1>a, <2>2, <2>5 DEF Replace
<1>12. CASE Publish
  <2>1. proc.temp = proc.merged /\ MergedUpTo(proc.merged, proc.piece)
    BY <1>12 DEF Publish, ProcFits, At
  <2>2. \A p \in Pieces : p < proc.piece
    <3>1. Len(SymbolList) * ChunkCount \in Nat
      BY Chunked, Numbers, SMTT(30) DEF Number
    <3>2. proc.piece \in Number /\ proc.piece \notin Pieces
      BY <1>12 DEF Publish, ProcFits, Ending, At
    <3> QED BY <3>1, <3>2 DEF Pieces, Number
  <2>3. \A p \in Pieces : PartOf(output', p) \in answers[p]
    BY <1>12, <2>1, <2>2 DEF Publish, MergedUpTo
  <2>4. FilesFit'
    BY <1>12, <2>3 DEF Publish, FilesFit, FilesAreWhole, PartOf
  <2> QED BY <1>12, <1>a, <1>d, <2>4 DEF Publish
<1>13. CASE Crash
  BY <1>13, <1>a, <1>f, <1>d DEF Crash
<1>14. CASE Tick
  BY <1>14, <1>a, <1>f, <1>m DEF Tick, ProcFits, ProcFields, At, Asking, Ending
<1>15. CASE NextDay
  BY <1>15, <1>a, <1>f, <1>m DEF NextDay, ProcFits, ProcFields, At, Asking, Ending
<1>16. CASE UNCHANGED vars
  BY <1>16, <1>a, <1>f, <1>m DEF vars, ProcFits, ProcFields, At, Asking, Ending
<1> QED BY <1>1, <1>2, <1>3, <1>4, <1>5, <1>6, <1>7, <1>8, <1>9, <1>10, <1>11, <1>12, <1>13,
           <1>14, <1>15, <1>16 DEF Next, Proceed

(* A cache file is a whole answer of the service, and the output file the  *)
(* merger of one for every piece, wherever a run was stopped and however   *)
(* often the download was begun again (_write_csv, main).                  *)
THEOREM WholeFiles == Spec => []FilesAreWhole
<1>1. IInv => FilesAreWhole
  BY DEF IInv, FilesFit
<1> QED BY <1>1, InitFits, StepFits, PTL DEF Spec

-----------------------------------------------------------------------------
(* The pauses between the requests of a run.                               *)

Clocks ==
    /\ proc.lastRequest \in 0 .. MinInterval /\ proc.nap \in Int
    /\ proc.attempt \in 0 .. MaxRetries /\ silence \in Nat

(* The client's clock is never ahead of the silence there was, and what    *)
(* has been slept of a backoff and what is left of it make up the backoff. *)
Waits ==
    /\ Clocks
    /\ ~At("down") => proc.lastRequest <= silence
    /\ At("request") /\ proc.attempt > 0 =>
          \/ silence >= Backoff * 2^(proc.attempt - 1)
          \/ silence + proc.nap >= Backoff * 2^(proc.attempt - 1)

LEMMA PausesAreNumbers ==
    /\ MinInterval \in Nat /\ MaxRetries \in Nat
    /\ \A k \in Nat : Backoff * 2^k \in Int
<1>1. Backoff \in Nat
  BY DownloadAssumption
<1>2. \A k \in Nat : 2^k \in Int
  OBVIOUS
<1>3. \A n \in Int : Backoff * n \in Int
  BY <1>1, SMTT(30)
<1> QED BY <1>2, <1>3, DownloadAssumption

LEMMA BegunWaits ==
    /\ Begun.lastRequest = MinInterval /\ Begun.nap = 0 /\ Begun.attempt = 0 /\ Begun.at = "piece"
    /\ Down.lastRequest = MinInterval /\ Down.nap = 0 /\ Down.attempt = 0 /\ Down.at = "down"
BY DEF Begun, Down

LEMMA InitWaits == Init => Waits
BY BegunWaits, PausesAreNumbers DEF Init, Waits, Clocks, At

(* A step that leaves the clocks alone, and does not come to a request     *)
(* anew.                                                                   *)
LEMMA WaitsStay ==
    ASSUME Waits, UNCHANGED silence, ~At("down"), proc'.at # "request" \/ UNCHANGED proc,
           proc'.lastRequest = proc.lastRequest, proc'.nap = proc.nap,
           proc'.attempt = proc.attempt
    PROVE  Waits'
BY DEF Waits, Clocks, At

LEMMA StepWaits == IInv /\ Waits /\ [Next]_vars => Waits'
<1> SUFFICES ASSUME IInv, Waits, [Next]_vars PROVE Waits'
  OBVIOUS
<1>d. ASSUME proc' = Down, UNCHANGED silence PROVE Waits'
  BY <1>d, BegunWaits, PausesAreNumbers DEF Waits, Clocks, At
<1>f. DOMAIN proc = ProcFields
  BY DEF IInv, ProcFits
<1>1. CASE Start
  BY <1>1, BegunWaits, PausesAreNumbers DEF Start, Waits, Clocks, At
<1>2. CASE UseCache
  BY <1>2, <1>f, WaitsStay DEF UseCache, At, ProcFields
<1>3. CASE Fetch
  BY <1>3, <1>f, PausesAreNumbers DEF Fetch, Waits, Clocks, At, ProcFields
<1>4. CASE Send
  BY <1>4, <1>f, PausesAreNumbers DEF Send, Sent, Waits, Clocks, At, ProcFields
<1>5. ASSUME NEW p \in Pieces, Answer(p) PROVE Waits'
  BY <1>5, <1>f, WaitsStay DEF Answer, At, ProcFields
<1>6. CASE RetryableError
  <2>1. /\ proc'.at = "request" /\ proc'.attempt = proc.attempt + 1
        /\ proc'.nap = Backoff * 2^proc.attempt
        /\ proc'.lastRequest = proc.lastRequest /\ silence' = silence
        /\ proc.attempt < MaxRetries /\ ~At("down")
    BY <1>6, <1>f DEF RetryableError, At, ProcFields
  <2>2. proc.attempt \in Nat /\ proc'.attempt - 1 = proc.attempt /\ silence \in Nat
    BY <2>1 DEF Waits, Clocks
  <2>3. Backoff * 2^proc.attempt \in Int
    BY <2>2, PausesAreNumbers
  <2>4. silence' + proc'.nap >= Backoff * 2^(proc'.attempt - 1)
    BY <2>1, <2>2, <2>3
  <2>5. Clocks' /\ proc'.lastRequest <= silence'
    BY <2>1, <2>2, <2>3, PausesAreNumbers DEF Waits, Clocks
  <2> QED BY <2>4, <2>5 DEF Waits
<1>7. CASE FatalError
  BY <1>7, <1>d DEF FatalError
<1>8. CASE Merge
  BY <1>8, <1>f, WaitsStay DEF Merge, At, ProcFields
<1>9. CASE WriteRows
  BY <1>9, <1>f, WaitsStay DEF WriteRows, At, ProcFields
<1>10. CASE SyncRows
  BY <1>10, <1>f, WaitsStay DEF SyncRows, At, ProcFields
<1>11. CASE Replace
  BY <1>11, <1>f, WaitsStay DEF Replace, At, ProcFields
<1>12. CASE Publish
  BY <1>12, <1>d DEF Publish
<1>13. CASE Crash
  BY <1>13, <1>d DEF Crash
<1>14. CASE Tick
  <2>1. /\ proc'.lastRequest = Smaller(proc.lastRequest + 1, MinInterval)
        /\ proc'.nap = IF proc.nap = 0 THEN 0 ELSE proc.nap - 1
        /\ proc'.attempt = proc.attempt /\ proc'.at = proc.at
        /\ silence' = IF \E pause \in Pauses : silence < pause THEN silence + 1 ELSE silence
        /\ ~At("down")
    BY <1>14, <1>f DEF Tick, At, ProcFields
  <2>2. Clocks' /\ silence \in Nat /\ proc.lastRequest \in 0 .. MinInterval
        /\ proc.nap \in Int /\ proc.attempt \in 0 .. MaxRetries /\ proc.lastRequest <= silence
    BY <2>1, PausesAreNumbers DEF Waits, Clocks, Smaller
  <2>3. proc'.lastRequest <= silence'
    <3>1. ASSUME silence' = silence PROVE MinInterval <= silence
      <4>1. MinInterval \in Pauses
        BY DEF Pauses
      <4> QED BY <2>1, <2>2, <3>1, <4>1, PausesAreNumbers
    <3> QED BY <2>1, <2>2, <3>1, PausesAreNumbers DEF Smaller
  <2>4. ASSUME At("request"), proc.attempt > 0
        PROVE  \/ silence' >= Backoff * 2^(proc.attempt - 1)
               \/ silence' + proc'.nap >= Backoff * 2^(proc.attempt - 1)
    <3> DEFINE pause == Backoff * 2^(proc.attempt - 1)
    <3>1. pause \in Int /\ pause \in Pauses
      <4>1. proc.attempt \in 1 .. MaxRetries /\ proc.attempt - 1 \in Nat
        BY <2>2, <2>4, PausesAreNumbers
      <4> QED BY <4>1, PausesAreNumbers DEF Pauses
    <3>2. silence >= pause \/ silence + proc.nap >= pause
      BY <2>4 DEF Waits
    <3>3. silence < pause => silence' = silence + 1
      BY <2>1, <3>1
    <3>4. proc'.nap >= proc.nap - 1 /\ proc'.nap \in Int /\ silence' >= silence /\ silence' \in Int
      BY <2>1, <2>2
    <3> HIDE DEF pause
    <3>5. silence' >= pause \/ silence' + proc'.nap >= pause
      BY <2>2, <3>1, <3>2, <3>3, <3>4
    <3> QED BY <3>5 DEF pause
  <2> QED BY <2>1, <2>2, <2>3, <2>4 DEF Waits, At
<1>15. CASE NextDay
  BY <1>15 DEF NextDay, Waits, Clocks, At
<1>16. CASE UNCHANGED vars
  BY <1>16 DEF vars, Waits, Clocks, At
<1> QED BY <1>1, <1>2, <1>3, <1>4, <1>5, <1>6, <1>7, <1>8, <1>9, <1>10, <1>11, <1>12, <1>13,
           <1>14, <1>15, <1>16 DEF Next, Proceed

(* Between two requests of a run at least the interval passes, and before  *)
(* the k-th retry 2^(k-1) times the backoff, for every interval, backoff   *)
(* and number of retries (_pace, _request).                                *)
THEOREM PacedRequests == Spec => RequestsArePaced
<1>1. IInv /\ Waits => (Send => /\ silence >= MinInterval
                                /\ proc.attempt > 0 => silence >= Backoff * 2^(proc.attempt - 1))
  <2> SUFFICES ASSUME Waits, Send
               PROVE  /\ silence >= MinInterval
                      /\ proc.attempt > 0 => silence >= Backoff * 2^(proc.attempt - 1)
    OBVIOUS
  <2>1. /\ proc.lastRequest <= silence /\ proc.lastRequest >= MinInterval /\ proc.nap = 0
        /\ proc.lastRequest \in Int /\ silence \in Nat
        /\ proc.attempt > 0 => \/ silence >= Backoff * 2^(proc.attempt - 1)
                               \/ silence + proc.nap >= Backoff * 2^(proc.attempt - 1)
    BY PausesAreNumbers DEF Send, Waits, Clocks, At
  <2> QED BY <2>1, PausesAreNumbers
<1>2. IInv /\ Waits /\ [Next]_vars
        => [Send => /\ silence >= MinInterval
                    /\ proc.attempt > 0 => silence >= Backoff * 2^(proc.attempt - 1)]_vars
  BY <1>1
<1> QED BY <1>2, InitFits, StepFits, InitWaits, StepWaits, PTL DEF Spec, RequestsArePaced

-----------------------------------------------------------------------------
(* Induction, and functions defined by it.                                 *)

(* A set of naturals has a least member.                                   *)
LEMMA Least ==
    ASSUME NEW T, T \subseteq Nat, T # {}
    PROVE  \E n \in T : \A m \in T : n <= m
  <1>1. PICK x \in T : \A y \in T : ~(<<y, x>> \in OpToRel(<, Nat))
    BY NatLessThanWellFounded, WFMin, Zenon
  <1>2. \A y \in T : ~(y < x)
    BY <1>1 DEF OpToRel
  <1> QED BY <1>2

(* What holds at 0 and is handed on up to N holds up to N.                 *)
LEMMA Induction ==
    ASSUME NEW N \in Nat, NEW S, 0 \in S,
           \A n \in 0 .. N - 1 : n \in S => n + 1 \in S
    PROVE  0 .. N \subseteq S
  <1> SUFFICES ASSUME ~(0 .. N \subseteq S) PROVE FALSE
    OBVIOUS
  <1> DEFINE T == (0 .. N) \ S
  <1>1. PICK n \in T : \A m \in T : n <= m
    <2>1. T \subseteq Nat /\ T # {}
      OBVIOUS
    <2> HIDE DEF T
    <2> QED BY <2>1, Least
  <1>2. n - 1 \in 0 .. N - 1 /\ n - 1 \in S
    BY <1>1
  <1> QED BY <1>1, <1>2

(* From a in S along n steps, each a function on S: what f tells of it.    *)
Leads(f, n, S, a, step) ==
    /\ f \in [0 .. n -> S] /\ f[0] = a
    /\ \A k \in 1 .. n : f[k] = step[k][f[k - 1]]

LEMMA Recursion ==
    ASSUME NEW N \in Nat, NEW S, NEW a \in S, NEW step \in [1 .. N -> [S -> S]]
    PROVE  \E f : Leads(f, N, S, a, step)
  <1> DEFINE T == {n \in 0 .. N : \E f : Leads(f, n, S, a, step)}
  <1>1. 0 \in T
    <2>1. Leads([k \in 0 .. 0 |-> a], 0, S, a, step)
      BY DEF Leads
    <2> QED BY <2>1
  <1>2. ASSUME NEW n \in 0 .. N - 1, n \in T
        PROVE  n + 1 \in T
    <2>1. PICK f : Leads(f, n, S, a, step)
      BY <1>2
    <2> DEFINE g == [k \in 0 .. n + 1 |->
                       IF k = n + 1 THEN step[n + 1][f[n]] ELSE f[k]]
    <2>2. g \in [0 .. n + 1 -> S] /\ g[0] = a
      <3>1. step[n + 1][f[n]] \in S
        BY <2>1 DEF Leads
      <3> QED BY <2>1, <3>1 DEF Leads
    <2>3. ASSUME NEW k \in 1 .. n + 1
          PROVE  g[k] = step[k][g[k - 1]]
      <3>1. g[k - 1] = f[k - 1]
        <4>1. k - 1 \in 0 .. n + 1 /\ k - 1 # n + 1
          OBVIOUS
        <4> QED BY <4>1
      <3>2. CASE k = n + 1
        <4>1. g[k] = step[k][f[n]] /\ k - 1 = n
          BY <3>2
        <4> QED BY <3>1, <4>1
      <3>3. CASE k \in 1 .. n
        BY <2>1, <3>1, <3>3 DEF Leads
      <3> QED BY <3>2, <3>3
    <2>4. Leads(g, n + 1, S, a, step)
      BY <2>2, <2>3 DEF Leads
    <2> HIDE DEF g
    <2> QED BY <2>4
  <1>3. 0 .. N \subseteq T
    <2> HIDE DEF T
    <2> QED BY <1>1, <1>2, Induction
  <1> QED BY <1>3


-----------------------------------------------------------------------------
(* The largest and the least of some numbers.                              *)

LEMMA MaxIs ==
    ASSUME NEW S, S \subseteq Int, NEW x \in S, \A y \in S : y <= x
    PROVE  Max(S) = x
  <1>1. \A y \in S : x >= y
    OBVIOUS
  <1>2. Max(S) \in S /\ \A y \in S : Max(S) >= y
    <2>1. \E z \in S : \A y \in S : z >= y
      BY <1>1
    <2> QED BY <2>1 DEF Max
  <1>3. Max(S) \in Int /\ x \in Int /\ Max(S) <= x /\ x <= Max(S)
    BY <1>2
  <1> QED BY <1>3

LEMMA MinIs ==
    ASSUME NEW S, S \subseteq Int, NEW x \in S, \A y \in S : x <= y
    PROVE  Min(S) = x
  <1>1. Min(S) \in S /\ \A y \in S : Min(S) =< y
    <2>1. \E z \in S : \A y \in S : z =< y
      OBVIOUS
    <2> QED BY <2>1 DEF Min
  <1>2. Min(S) \in Int /\ x \in Int /\ Min(S) <= x /\ x <= Min(S)
    BY <1>1
  <1> QED BY <1>2

LEMMA MaxOfTwo ==
    ASSUME NEW a \in Int, NEW b \in Int, NEW x, x = a \/ x = b, a <= x, b <= x
    PROVE  Max({a, b}) = x
  <1>1. {a, b} \subseteq Int /\ x \in {a, b} /\ \A y \in {a, b} : y <= x
    OBVIOUS
  <1> QED BY <1>1, MaxIs

LEMMA MinOfTwo ==
    ASSUME NEW a \in Int, NEW b \in Int, NEW x, x = a \/ x = b, x <= a, x <= b
    PROVE  Min({a, b}) = x
  <1>1. {a, b} \subseteq Int /\ x \in {a, b} /\ \A y \in {a, b} : x <= y
    OBVIOUS
  <1> QED BY <1>1, MinIs

LEMMA OfOne == ASSUME NEW a \in Int PROVE Max({a}) = a /\ Min({a}) = a
  <1>1. {a} \subseteq Int /\ a \in {a} /\ (\A y \in {a} : y <= a) /\ (\A y \in {a} : a <= y)
    OBVIOUS
  <1>2. Max({a}) = a
    BY <1>1, MaxIs
  <1>3. Min({a}) = a
    BY <1>1, MinIs
  <1> QED BY <1>2, <1>3

(* Some of the first n of any numbers have a largest and a least.          *)
LEMMA Extremes ==
    ASSUME NEW n \in Nat, NEW f \in [1 .. n -> Int], NEW J, J \subseteq 1 .. n, J # {}
    PROVE  \E h, l \in J : \A k \in J : f[l] <= f[k] /\ f[k] <= f[h]
  <1> DEFINE T == {m \in 0 .. n : \A K \in SUBSET (1 .. m) :
                      K # {} => \E h, l \in K : \A k \in K : f[l] <= f[k] /\ f[k] <= f[h]}
  <1>1. 0 \in T
    <2>1. \A K \in SUBSET (1 .. 0) : K = {}
      OBVIOUS
    <2>2. 0 \in 0 .. n
      OBVIOUS
    <2> QED BY <2>1, <2>2, Zenon
  <1>2. ASSUME NEW m \in 0 .. n - 1, m \in T
        PROVE  m + 1 \in T
    <2>1. ASSUME NEW K \in SUBSET (1 .. m + 1), K # {}
          PROVE  \E h, l \in K : \A k \in K : f[l] <= f[k] /\ f[k] <= f[h]
      <3> DEFINE K0 == K \ {m + 1}
      <3>1. K0 \in SUBSET (1 .. m) /\ \A k \in K : k \in 1 .. n /\ f[k] \in Int
        OBVIOUS
      <3>2. CASE K0 = {}
        <4>1. K = {m + 1}
          BY <2>1, <3>2
        <4> QED BY <3>1, <4>1
      <3>3. CASE K0 # {}
        <4>1. PICK h \in K0, l \in K0 : \A k \in K0 : f[l] <= f[k] /\ f[k] <= f[h]
          BY <1>2, <3>1, <3>3
        <4>2. h \in K /\ l \in K /\ f[h] \in Int /\ f[l] \in Int /\ K \subseteq K0 \cup {m + 1}
          BY <3>1
        <4>3. CASE m + 1 \notin K
          BY <4>1, <4>2, <4>3
        <4>4. CASE m + 1 \in K
          <5> DEFINE hh == IF f[h] < f[m + 1] THEN m + 1 ELSE h
                     ll == IF f[m + 1] < f[l] THEN m + 1 ELSE l
          <5>1. hh \in K /\ ll \in K /\ f[m + 1] \in Int
            BY <3>1, <4>2, <4>4
          <5>2. \A k \in K : f[k] <= f[hh]
            BY <3>1, <4>1, <4>2, <5>1
          <5>3. \A k \in K : f[ll] <= f[k]
            BY <3>1, <4>1, <4>2, <5>1
          <5> HIDE DEF hh, ll
          <5> QED BY <5>1, <5>2, <5>3
        <4> QED BY <4>3, <4>4
      <3> QED BY <3>2, <3>3
    <2> QED BY <2>1
  <1>3. 0 .. n \subseteq T
    <2> HIDE DEF T
    <2> QED BY <1>1, <1>2, Induction
  <1>4. n \in T
    <2> HIDE DEF T
    <2> QED BY <1>3
  <1> QED BY <1>4

-----------------------------------------------------------------------------
(* The days of a list.                                                     *)

Sorted(bars) ==
    /\ bars \in Seq(MarketBar)
    /\ \A k \in 2 .. Len(bars) : bars[k - 1].day <= bars[k].day
Prefix(bars, n) == SubSeq(bars, 1, n)

LEMMA BarType ==
    ASSUME NEW bars \in Seq(MarketBar), NEW k \in 1 .. Len(bars)
    PROVE  /\ bars[k] \in MarketBar /\ bars[k].day \in Nat /\ bars[k].end \in Nat
           /\ bars[k].open \in Int /\ bars[k].high \in Int /\ bars[k].low \in Int
           /\ bars[k].close \in Int
  <1>1. bars[k] \in MarketBar
    OBVIOUS
  <1> QED BY <1>1 DEF MarketBar

LEMMA PrefixType ==
    ASSUME NEW bars \in Seq(MarketBar), NEW n \in 0 .. Len(bars)
    PROVE  /\ Prefix(bars, n) \in Seq(MarketBar) /\ Len(Prefix(bars, n)) = n
           /\ \A k \in 1 .. n : Prefix(bars, n)[k] = bars[k]
  BY DEF Prefix

(* DaysUpTo exists: at every bar it is what its definition says.           *)
LEMMA DaysUpToDef ==
    ASSUME NEW bars \in Seq(MarketBar)
    PROVE  /\ DaysUpTo(bars) \in [0 .. Len(bars) -> Seq(Nat)]
           /\ DaysUpTo(bars)[0] = <<>>
           /\ \A k \in 1 .. Len(bars) : DaysUpTo(bars)[k] =
                 IF bars[k].day \in Range(DaysUpTo(bars)[k - 1]) THEN DaysUpTo(bars)[k - 1]
                 ELSE Append(DaysUpTo(bars)[k - 1], bars[k].day)
  <1> DEFINE N == Len(bars)
             S == Seq(Nat)
             Longer(h, k) == IF bars[k].day \in Range(h) THEN h ELSE Append(h, bars[k].day)
             step == [k \in 1 .. N |-> [h \in S |-> Longer(h, k)]]
             Def(f) == f = [k \in 0 .. N |-> IF k = 0 THEN <<>> ELSE Longer(f[k - 1], k)]
  <1>0. N \in Nat
    OBVIOUS
  <1>1. \A k \in 1 .. N, h \in S : Longer(h, k) \in S
    BY BarType
  <1>2. <<>> \in S
    OBVIOUS
  <1>3. \E f \in [0 .. N -> S] : Def(f)
    <2> HIDE DEF S, Longer, N
    <2>1. step \in [1 .. N -> [S -> S]]
      BY <1>1
    <2>2. PICK f : Leads(f, N, S, <<>>, step)
      <3> HIDE DEF step
      <3> QED BY <1>0, <1>2, <2>1, Recursion
    <2>3. f \in [0 .. N -> S] /\ \A k \in 1 .. N : f[k - 1] \in S
      BY <1>0, <2>2 DEF Leads
    <2>4. \A k \in 1 .. N : f[k] = Longer(f[k - 1], k)
      BY <2>2, <2>3 DEF Leads
    <2>5. Def(f)
      BY <1>0, <2>2, <2>3, <2>4 DEF Leads
    <2> QED BY <2>3, <2>5
  <1> DEFINE days == DaysUpTo(bars)
  <1>4. Def(days)
    <2>1. days = CHOOSE f : Def(f)
      BY DEF DaysUpTo
    <2> HIDE DEF Def, days
    <2> QED BY <1>3, <2>1
  <1>5. days[0] = <<>> /\ \A k \in 1 .. N : days[k] = Longer(days[k - 1], k)
    <2> HIDE DEF Longer, days, N
    <2>1. \A k \in 0 .. N : days[k] = IF k = 0 THEN <<>> ELSE Longer(days[k - 1], k)
      BY <1>4, Zenon
    <2>2. 0 \in 0 .. N /\ \A k \in 1 .. N : k \in 0 .. N /\ k # 0
      BY <1>0
    <2> QED BY <2>1, <2>2
  <1>6. \A n \in 0 .. N : days[n] \in S
    <2> DEFINE T == {n \in 0 .. N : days[n] \in S}
    <2> HIDE DEF S, Longer, days, N
    <2>1. 0 \in T
      BY <1>0, <1>2, <1>5
    <2>2. ASSUME NEW n \in 0 .. N - 1, n \in T
          PROVE  n + 1 \in T
      <3>1. n + 1 \in 1 .. N /\ n + 1 \in 0 .. N /\ n + 1 - 1 = n
        BY <1>0
      <3>2. days[n + 1] = Longer(days[n], n + 1)
        BY <1>5, <3>1
      <3> QED BY <1>1, <2>2, <3>1, <3>2
    <2>3. 0 .. N \subseteq T
      <3> HIDE DEF T
      <3> QED BY <1>0, <2>1, <2>2, Induction
    <2> QED BY <2>3
  <1>7. days \in [0 .. N -> S]
    <2> HIDE DEF S, Longer, days, N
    <2> QED BY <1>4, <1>6
  <1> QED BY <1>5, <1>7

(* The days of a prefix are those of the list so far.                      *)
LEMMA DaysOfPrefix ==
    ASSUME NEW bars \in Seq(MarketBar), NEW n \in 0 .. Len(bars)
    PROVE  DaysUpTo(Prefix(bars, n))[n] = DaysUpTo(bars)[n]
  <1> DEFINE part == Prefix(bars, n)
             T == {k \in 0 .. n : DaysUpTo(part)[k] = DaysUpTo(bars)[k]}
  <1>1. part \in Seq(MarketBar) /\ Len(part) = n /\ \A k \in 1 .. n : part[k] = bars[k]
    BY PrefixType
  <1> HIDE DEF part
  <1>2. 0 \in T
    BY <1>1, DaysUpToDef
  <1>3. ASSUME NEW k \in 0 .. n - 1, k \in T
        PROVE  k + 1 \in T
    <2>1. k + 1 \in 1 .. n /\ k + 1 \in 1 .. Len(bars) /\ k + 1 - 1 = k /\ k + 1 \in 0 .. n
      OBVIOUS
    <2>2. part[k + 1] = bars[k + 1] /\ DaysUpTo(part)[k] = DaysUpTo(bars)[k]
      BY <1>1, <1>3, <2>1
    <2>3. DaysUpTo(part)[k + 1] =
            IF part[k + 1].day \in Range(DaysUpTo(part)[k]) THEN DaysUpTo(part)[k]
            ELSE Append(DaysUpTo(part)[k], part[k + 1].day)
      <3>1. \A i \in 1 .. Len(part) : DaysUpTo(part)[i] =
               IF part[i].day \in Range(DaysUpTo(part)[i - 1]) THEN DaysUpTo(part)[i - 1]
               ELSE Append(DaysUpTo(part)[i - 1], part[i].day)
        BY <1>1, DaysUpToDef
      <3>2. k + 1 \in 1 .. Len(part)
        BY <1>1, <2>1
      <3> QED BY <2>1, <3>1, <3>2
    <2>4. DaysUpTo(bars)[k + 1] =
            IF bars[k + 1].day \in Range(DaysUpTo(bars)[k]) THEN DaysUpTo(bars)[k]
            ELSE Append(DaysUpTo(bars)[k], bars[k + 1].day)
      BY <2>1, DaysUpToDef
    <2> QED BY <2>1, <2>2, <2>3, <2>4
  <1>4. n \in T
    <2> HIDE DEF T
    <2>1. n \in Nat
      OBVIOUS
    <2>2. 0 .. n \subseteq T
      BY <1>2, <1>3, <2>1, Induction
    <2> QED BY <2>1, <2>2
  <1> QED BY <1>4 DEF part

LEMMA DaysRise ==
    ASSUME NEW bars, Sorted(bars), NEW k \in 1 .. Len(bars), NEW j \in 1 .. k
    PROVE  bars[j].day <= bars[k].day
  <1> DEFINE T == {n \in 0 .. Len(bars) : \A i \in 1 .. n : bars[i].day <= bars[n].day}
  <1>0. bars \in Seq(MarketBar) /\ Len(bars) \in Nat
    BY DEF Sorted
  <1>1. 0 \in T
    BY <1>0
  <1>2. ASSUME NEW n \in 0 .. Len(bars) - 1, n \in T
        PROVE  n + 1 \in T
    <2>1. ASSUME NEW i \in 1 .. n + 1 PROVE bars[i].day <= bars[n + 1].day
      <3>1. CASE i = n + 1
        BY <1>0, <3>1, BarType
      <3>2. CASE i \in 1 .. n
        <4>1. n \in 1 .. Len(bars) /\ n + 1 \in 2 .. Len(bars) /\ i \in 1 .. Len(bars)
          BY <1>0, <3>2
        <4>2. bars[i].day <= bars[n].day /\ bars[n].day <= bars[n + 1].day
          <5>1. n + 1 - 1 = n
            OBVIOUS
          <5> QED BY <1>2, <3>2, <4>1, <5>1 DEF Sorted
        <4> QED BY <1>0, <4>1, <4>2, BarType
      <3> QED BY <3>1, <3>2
    <2> QED BY <1>0, <2>1
  <1>3. 0 .. Len(bars) \subseteq T
    <2> HIDE DEF T
    <2> QED BY <1>0, <1>1, <1>2, Induction
  <1>4. k \in T
    <2> HIDE DEF T
    <2> QED BY <1>0, <1>3
  <1> QED BY <1>4

(* The last day of some of the bars is the day of the last of them, it     *)
(* comes once, and every other day is the day of one of them.              *)
DaysFit(bars, k) ==
    LET days == DaysUpTo(bars)[k]
    IN  /\ Len(days) > 0 /\ days[Len(days)] = bars[k].day
        /\ \A i \in 1 .. Len(days) - 1 : days[i] # days[Len(days)]
        /\ \A i \in 1 .. Len(days) : \E j \in 1 .. k : bars[j].day = days[i]

(* One more bar is of the last day or of a new one.                        *)
LEMMA NextDayOf ==
    ASSUME NEW bars, Sorted(bars), NEW k \in 1 .. Len(bars) - 1, DaysFit(bars, k)
    PROVE  /\ DaysUpTo(bars)[k + 1] = IF bars[k + 1].day = bars[k].day THEN DaysUpTo(bars)[k]
                                      ELSE Append(DaysUpTo(bars)[k], bars[k + 1].day)
           /\ bars[k + 1].day # bars[k].day => \A j \in 1 .. k : bars[j].day # bars[k + 1].day
  <1> DEFINE days == DaysUpTo(bars)[k]
  <1>1. /\ bars \in Seq(MarketBar) /\ k + 1 \in 1 .. Len(bars) /\ k \in 1 .. Len(bars)
        /\ k + 1 - 1 = k /\ k \in 1 .. k + 1
    BY DEF Sorted
  <1>2. days \in Seq(Nat) /\ Len(days) \in Nat
    BY <1>1, DaysUpToDef
  <1>3. DaysUpTo(bars)[k + 1] =
          IF bars[k + 1].day \in Range(days) THEN days ELSE Append(days, bars[k + 1].day)
    BY <1>1, DaysUpToDef
  <1>4. ASSUME NEW j \in 1 .. k, bars[j].day = bars[k + 1].day
        PROVE  bars[k + 1].day = bars[k].day
    <2>1. bars[j].day <= bars[k].day /\ bars[k].day <= bars[k + 1].day
      BY <1>1, DaysRise
    <2>2. bars[k].day \in Nat /\ bars[k + 1].day \in Nat
      BY <1>1, BarType
    <2> QED BY <1>4, <2>1, <2>2
  <1>5. bars[k + 1].day \in Range(days) <=> bars[k + 1].day = bars[k].day
    <2> HIDE DEF days
    <2>1. ASSUME bars[k + 1].day \in Range(days) PROVE bars[k + 1].day = bars[k].day
      <3>1. PICK i \in 1 .. Len(days) : days[i] = bars[k + 1].day
        BY <1>2, <2>1 DEF Range
      <3>2. \E j \in 1 .. k : bars[j].day = days[i]
        BY DEF DaysFit, days
      <3> QED BY <1>4, <3>1, <3>2
    <2>2. bars[k].day \in Range(days)
      <3>1. Len(days) > 0 /\ days[Len(days)] = bars[k].day
        BY DEF DaysFit, days
      <3> QED BY <1>2, <3>1 DEF Range
    <2> QED BY <2>1, <2>2
  <1> QED BY <1>3, <1>4, <1>5

LEMMA DaysFitAll ==
    ASSUME NEW bars, Sorted(bars), NEW k \in 1 .. Len(bars)
    PROVE  DaysFit(bars, k)
  <1> DEFINE T == {n \in 0 .. Len(bars) : n = 0 \/ DaysFit(bars, n)}
  <1>0. bars \in Seq(MarketBar) /\ Len(bars) \in Nat
    BY DEF Sorted
  <1>1. 0 \in T
    BY <1>0
  <1>2. ASSUME NEW n \in 0 .. Len(bars) - 1, n \in T
        PROVE  n + 1 \in T
    <2> DEFINE days == DaysUpTo(bars)[n]
               more == DaysUpTo(bars)[n + 1]
    <2>1. n + 1 \in 1 .. Len(bars) /\ n + 1 - 1 = n /\ bars[n + 1].day \in Nat
          /\ days \in Seq(Nat) /\ Len(days) \in Nat
      <3>1. n + 1 \in 1 .. Len(bars) /\ n + 1 - 1 = n /\ n \in 0 .. Len(bars)
        BY <1>0
      <3>2. days \in Seq(Nat)
        BY <1>0, <3>1, DaysUpToDef
      <3> HIDE DEF days
      <3> QED BY <1>0, <3>1, <3>2, BarType
    <2>2. CASE n = 0
      <3>1. days = <<>> /\ more = <<bars[1].day>>
        <4>1. days = <<>> /\ Range(<<>>) = {}
          BY <1>0, <2>2, DaysUpToDef DEF Range
        <4>2. more = IF bars[n + 1].day \in Range(days) THEN days ELSE Append(days, bars[n + 1].day)
          BY <1>0, <2>1, DaysUpToDef
        <4>3. bars[n + 1].day \notin Range(days) /\ n + 1 = 1
          BY <2>2, <4>1
        <4> HIDE DEF more, days
        <4>4. more = Append(<<>>, bars[1].day)
          BY <4>1, <4>2, <4>3
        <4> QED BY <4>1, <4>4
      <3>2. DaysUpTo(bars)[1] = <<bars[1].day>> /\ n + 1 = 1
        BY <2>2, <3>1
      <3>3. DaysFit(bars, 1)
        BY <3>2 DEF DaysFit
      <3> QED BY <2>1, <2>2, <3>3
    <2>3. CASE n \in 1 .. Len(bars) - 1 /\ bars[n + 1].day = bars[n].day
      <3>1. more = days /\ DaysFit(bars, n)
        BY <1>2, <2>3, NextDayOf
      <3>2. \A j \in 1 .. n : j \in 1 .. n + 1
        OBVIOUS
      <3>3. DaysFit(bars, n + 1)
        BY <2>3, <3>1, <3>2 DEF DaysFit
      <3> QED BY <2>1, <3>3
    <2>4. CASE n \in 1 .. Len(bars) - 1 /\ bars[n + 1].day # bars[n].day
      <3>1. DaysFit(bars, n)
        BY <1>2, <2>4
      <3>2. more = Append(days, bars[n + 1].day)
            /\ \A j \in 1 .. n : bars[j].day # bars[n + 1].day
        BY <2>4, <3>1, NextDayOf
      <3> HIDE DEF more
      <3>3. \A i \in 1 .. Len(days) : \E j \in 1 .. n : bars[j].day = days[i]
        BY <3>1 DEF DaysFit
      <3> HIDE DEF days
      <3>4. /\ Len(more) = Len(days) + 1 /\ more[Len(more)] = bars[n + 1].day
            /\ \A i \in 1 .. Len(days) : more[i] = days[i]
        BY <2>1, <3>2
      <3>5. \A i \in 1 .. Len(more) - 1 : more[i] # more[Len(more)]
        BY <2>1, <3>2, <3>3, <3>4
      <3>6. \A i \in 1 .. Len(more) : \E j \in 1 .. n + 1 : bars[j].day = more[i]
        <4> TAKE i \in 1 .. Len(more)
        <4>1. CASE i = Len(more)
          BY <3>4, <4>1, <2>1
        <4>2. CASE i \in 1 .. Len(days)
          BY <3>3, <3>4, <4>2
        <4> QED BY <4>1, <4>2, <3>4, <2>1
      <3>7. DaysFit(bars, n + 1)
        BY <2>1, <3>4, <3>5, <3>6 DEF DaysFit, more
      <3> QED BY <2>1, <3>7
    <2> QED BY <2>2, <2>3, <2>4
  <1>3. 0 .. Len(bars) \subseteq T
    <2> HIDE DEF T
    <2> QED BY <1>0, <1>1, <1>2, Induction
  <1>4. k \in T
    <2> HIDE DEF T
    <2> QED BY <1>0, <1>3
  <1> QED BY <1>4

-----------------------------------------------------------------------------
(* One more bar in the daily bars.                                         *)

(* The bars J of a list as one bar of day d.                               *)
AsOne(bars, J, d) ==
    [day |-> d, end |-> bars[Max(J)].end, open |-> bars[Min(J)].open,
     high |-> Max({bars[k].high : k \in J}), low |-> Min({bars[k].low : k \in J}),
     close |-> bars[Max(J)].close]
GroupOf(bars, n, d) == {k \in 1 .. n : bars[k].day = d}

LEMMA AsOneParts ==
    ASSUME NEW bars \in Seq(MarketBar), NEW J, J \subseteq 1 .. Len(bars), J # {}
    PROVE  /\ Max(J) \in J /\ Min(J) \in J /\ \A k \in J : Min(J) <= k /\ k <= Max(J)
           /\ Max({bars[k].high : k \in J}) \in {bars[k].high : k \in J}
           /\ Min({bars[k].low : k \in J}) \in {bars[k].low : k \in J}
           /\ \A k \in J : /\ bars[k].high <= Max({bars[i].high : i \in J})
                           /\ Min({bars[i].low : i \in J}) <= bars[k].low
  <1>0. Len(bars) \in Nat /\ J \subseteq Nat
    OBVIOUS
  <1>a. \E x, y \in J : \A k \in J : bars[y].low <= bars[k].low /\ bars[k].low <= bars[x].low
    <2> DEFINE f == [k \in 1 .. Len(bars) |-> bars[k].low]
    <2>1. f \in [1 .. Len(bars) -> Int] /\ \A k \in J : f[k] = bars[k].low
      BY BarType
    <2> HIDE DEF f
    <2>2. \E x, y \in J : \A k \in J : f[y] <= f[k] /\ f[k] <= f[x]
      BY <1>0, <2>1, Extremes
    <2> QED BY <2>1, <2>2
  <1>1. PICK h, l \in J : \A k \in J : l <= k /\ k <= h
    <2> DEFINE f == [k \in 1 .. Len(bars) |-> k]
    <2>1. f \in [1 .. Len(bars) -> Int] /\ \A k \in J : f[k] = k
      OBVIOUS
    <2> HIDE DEF f
    <2>2. \E h, l \in J : \A k \in J : f[l] <= f[k] /\ f[k] <= f[h]
      BY <1>0, <2>1, Extremes
    <2> QED BY <2>1, <2>2
  <1>2. Max(J) = h /\ Min(J) = l
    <2>1. J \subseteq Int /\ (\A k \in J : k <= h) /\ (\A k \in J : l <= k)
      BY <1>0, <1>1
    <2>2. Max(J) = h
      BY <2>1, MaxIs
    <2>3. Min(J) = l
      BY <2>1, MinIs
    <2> QED BY <2>2, <2>3
  <1>3. PICK h2, l2 \in J : \A k \in J : bars[l2].high <= bars[k].high /\ bars[k].high <= bars[h2].high
    <2> DEFINE f == [k \in 1 .. Len(bars) |-> bars[k].high]
    <2>1. f \in [1 .. Len(bars) -> Int] /\ \A k \in J : f[k] = bars[k].high
      BY BarType
    <2> HIDE DEF f
    <2>2. \E h2, l2 \in J : \A k \in J : f[l2] <= f[k] /\ f[k] <= f[h2]
      BY <1>0, <2>1, Extremes
    <2> QED BY <2>1, <2>2
  <1>4. PICK h3, l3 \in J : \A k \in J : bars[l3].low <= bars[k].low /\ bars[k].low <= bars[h3].low
    BY <1>a
  <1>5. Max({bars[k].high : k \in J}) = bars[h2].high
    <2> DEFINE S == {bars[k].high : k \in J}
    <2>1. S \subseteq Int /\ bars[h2].high \in S /\ \A y \in S : y <= bars[h2].high
      BY <1>3, BarType
    <2> HIDE DEF S
    <2>2. Max(S) = bars[h2].high
      BY <2>1, MaxIs
    <2> QED BY <2>2 DEF S
  <1>6. Min({bars[k].low : k \in J}) = bars[l3].low
    <2> DEFINE S == {bars[k].low : k \in J}
    <2>1. S \subseteq Int /\ bars[l3].low \in S /\ \A y \in S : bars[l3].low <= y
      BY <1>4, BarType
    <2> HIDE DEF S
    <2>2. Min(S) = bars[l3].low
      BY <2>1, MinIs
    <2> QED BY <2>2 DEF S
  <1> QED BY <1>1, <1>2, <1>3, <1>4, <1>5, <1>6

LEMMA AsOneType ==
    ASSUME NEW bars \in Seq(MarketBar), NEW J, J \subseteq 1 .. Len(bars), J # {}, NEW d \in Nat
    PROVE  AsOne(bars, J, d) \in MarketBar
  <1>1. /\ Max(J) \in 1 .. Len(bars) /\ Min(J) \in 1 .. Len(bars)
        /\ Max({bars[k].high : k \in J}) \in Int /\ Min({bars[k].low : k \in J}) \in Int
    <2> DEFINE H == {bars[k].high : k \in J}
               L == {bars[k].low : k \in J}
    <2>1. H \subseteq Int /\ L \subseteq Int
      BY BarType
    <2>2. Max(J) \in J /\ Min(J) \in J /\ Max(H) \in H /\ Min(L) \in L
      BY AsOneParts
    <2> HIDE DEF H, L
    <2>3. Max(H) \in Int /\ Min(L) \in Int /\ Max(J) \in 1 .. Len(bars) /\ Min(J) \in 1 .. Len(bars)
      BY <2>1, <2>2
    <2> QED BY <2>3 DEF H, L
  <1> QED BY <1>1, BarType DEF AsOne, MarketBar

(* A bar later than those of its day joins them ...                        *)
LEMMA JoinedIs ==
    ASSUME NEW bars \in Seq(MarketBar), NEW n \in 1 .. Len(bars),
           NEW J, J \subseteq 1 .. n - 1, J # {}, NEW d \in Nat
    PROVE  AsOne(bars, J \cup {n}, d) = Joined(AsOne(bars, J, d), bars[n])
  <1> DEFINE K == J \cup {n}
             H(I) == {bars[k].high : k \in I}
             L(I) == {bars[k].low : k \in I}
  <1>0. /\ J \subseteq 1 .. Len(bars) /\ K \subseteq 1 .. Len(bars) /\ n \in Nat
        /\ \A k \in J : k \in Nat /\ k < n
    OBVIOUS
  <1>1. Max(K) = n
    <2>1. K \subseteq Int /\ n \in K /\ \A k \in K : k <= n
      BY <1>0
    <2> HIDE DEF K
    <2> QED BY <2>1, MaxIs
  <1>2. Min(K) = Min(J)
    <2>0. Min(J) \in J /\ \A k \in J : Min(J) <= k
      BY <1>0, AsOneParts
    <2>1. K \subseteq Int /\ Min(J) \in K
      BY <1>0, <2>0
    <2>2. ASSUME NEW k \in K PROVE Min(J) <= k
      <3>1. Min(J) \in Nat /\ Min(J) < n
        BY <1>0, <2>0
      <3>2. k \in J \/ k = n
        OBVIOUS
      <3> QED BY <1>0, <2>0, <3>1, <3>2
    <2> HIDE DEF K
    <2> QED BY <2>1, <2>2, MinIs
  <1>3. Max(H(K)) = Max({Max(H(J)), bars[n].high})
    <2> DEFINE m == Max(H(J))
               x == IF m < bars[n].high THEN bars[n].high ELSE m
    <2>1. m \in H(J) /\ \A k \in J : bars[k].high <= m
      BY <1>0, AsOneParts
    <2>2. m \in Int /\ bars[n].high \in Int
      BY <1>0, <2>1, BarType
    <2>3. H(K) = H(J) \cup {bars[n].high} /\ H(J) \subseteq Int
      BY <1>0, BarType
    <2>4. \A y \in H(J) : y <= m
      BY <2>1
    <2> HIDE DEF H, m
    <2>5. x \in Int /\ (x = m \/ x = bars[n].high) /\ m <= x /\ bars[n].high <= x
      BY <2>2
    <2> HIDE DEF x
    <2>6. Max(H(K)) = x
      <3>1. x \in H(K)
        BY <2>1, <2>3, <2>5
      <3>2. H(K) \subseteq Int
        BY <2>2, <2>3
      <3>3. ASSUME NEW y \in H(K) PROVE y <= x
        <4>1. y \in Int /\ (y <= m \/ y = bars[n].high)
          BY <2>2, <2>3, <2>4, <3>2
        <4> QED BY <2>2, <2>5, <4>1
      <3> QED BY <3>1, <3>2, <3>3, MaxIs
    <2>7. Max({m, bars[n].high}) = x
      BY <2>2, <2>5, MaxOfTwo
    <2> QED BY <2>6, <2>7 DEF m
  <1>4. Min(L(K)) = Min({Min(L(J)), bars[n].low})
    <2> DEFINE m == Min(L(J))
               x == IF bars[n].low < m THEN bars[n].low ELSE m
    <2>1. m \in L(J) /\ \A k \in J : m <= bars[k].low
      BY <1>0, AsOneParts
    <2>2. m \in Int /\ bars[n].low \in Int
      BY <1>0, <2>1, BarType
    <2>3. L(K) = L(J) \cup {bars[n].low} /\ L(J) \subseteq Int
      BY <1>0, BarType
    <2>4. \A y \in L(J) : m <= y
      BY <2>1
    <2> HIDE DEF L, m
    <2>5. x \in Int /\ (x = m \/ x = bars[n].low) /\ x <= m /\ x <= bars[n].low
      BY <2>2
    <2> HIDE DEF x
    <2>6. Min(L(K)) = x
      <3>1. x \in L(K)
        BY <2>1, <2>3, <2>5
      <3>2. L(K) \subseteq Int
        BY <2>2, <2>3
      <3>3. ASSUME NEW y \in L(K) PROVE x <= y
        <4>1. y \in Int /\ (m <= y \/ y = bars[n].low)
          BY <2>2, <2>3, <2>4, <3>2
        <4> QED BY <2>2, <2>5, <4>1
      <3> QED BY <3>1, <3>2, <3>3, MinIs
    <2>7. Min({m, bars[n].low}) = x
      BY <2>2, <2>5, MinOfTwo
    <2> QED BY <2>6, <2>7 DEF m
  <1> DEFINE one == AsOne(bars, J, d)
  <1>5. one = [day |-> d, end |-> bars[Max(J)].end, open |-> bars[Min(J)].open,
               high |-> Max(H(J)), low |-> Min(L(J)), close |-> bars[Max(J)].close]
    BY DEF AsOne
  <1>6. Joined(one, bars[n]) =
            [day |-> d, end |-> bars[n].end, open |-> bars[Min(J)].open,
             high |-> Max({Max(H(J)), bars[n].high}), low |-> Min({Min(L(J)), bars[n].low}),
             close |-> bars[n].close]
    <2> DEFINE b == bars[n]
               r == Joined(one, b)
    <2> HIDE DEF one, H, L, b
    <2>1. DOMAIN one = {"day", "end", "open", "high", "low", "close"}
      BY <1>5
    <2>2. /\ one.day = d /\ one.open = bars[Min(J)].open
          /\ one.high = Max(H(J)) /\ one.low = Min(L(J))
      BY <1>5
    <2>3. /\ r = [k \in DOMAIN r |-> r[k]]
          /\ DOMAIN r = {"day", "end", "open", "high", "low", "close"}
          /\ r.day = one.day /\ r.open = one.open /\ r.end = b.end /\ r.close = b.close
          /\ r.low = Min({one.low, b.low}) /\ r.high = Max({one.high, b.high})
      BY <2>1 DEF Joined
    <2> HIDE DEF r
    <2>4. r = [day |-> r.day, end |-> r.end, open |-> r.open, high |-> r.high, low |-> r.low,
               close |-> r.close]
      BY <2>3
    <2> QED BY <2>2, <2>3, <2>4 DEF r, b
  <1>7. AsOne(bars, K, d) =
            [day |-> d, end |-> bars[Max(K)].end, open |-> bars[Min(K)].open,
             high |-> Max(H(K)), low |-> Min(L(K)), close |-> bars[Max(K)].close]
    BY DEF AsOne
  <1> HIDE DEF K, H, L, one
  <1>8. AsOne(bars, K, d) = Joined(one, bars[n])
    BY <1>1, <1>2, <1>3, <1>4, <1>6, <1>7
  <1> QED BY <1>8 DEF K, one

(* ... and one of a new day is its daily bar.                              *)
LEMMA OneIsItself ==
    ASSUME NEW bars \in Seq(MarketBar), NEW n \in 1 .. Len(bars)
    PROVE  AsOne(bars, {n}, bars[n].day) = bars[n]
  <1>1. n \in Int /\ bars[n].high \in Int /\ bars[n].low \in Int
    BY BarType
  <1>2. Max({n}) = n /\ Min({n}) = n
    BY <1>1, OfOne
  <1>3. Max({bars[n].high}) = bars[n].high /\ Min({bars[n].low}) = bars[n].low
    BY <1>1, OfOne
  <1>4. {bars[k].high : k \in {n}} = {bars[n].high} /\ {bars[k].low : k \in {n}} = {bars[n].low}
    OBVIOUS
  <1> QED BY <1>2, <1>3, <1>4, BarType DEF AsOne, MarketBar

(* The daily bars of a prefix, from the list.                              *)
LEMMA DailyOfPrefix ==
    ASSUME NEW bars, Sorted(bars), NEW n \in 0 .. Len(bars)
    PROVE  DailyBars(Prefix(bars, n)) =
               [i \in 1 .. Len(DaysUpTo(bars)[n]) |->
                   AsOne(bars, GroupOf(bars, n, DaysUpTo(bars)[n][i]), DaysUpTo(bars)[n][i])]
  <1> DEFINE part == Prefix(bars, n)
             days == DaysUpTo(bars)[n]
  <1>0. bars \in Seq(MarketBar)
    BY DEF Sorted
  <1>1. part \in Seq(MarketBar) /\ Len(part) = n /\ \A k \in 1 .. n : part[k] = bars[k]
    BY <1>0, PrefixType
  <1>2. DaysUpTo(part)[n] = days /\ days \in Seq(Nat)
    BY <1>0, DaysOfPrefix, DaysUpToDef
  <1> HIDE DEF part, days
  <1>3. ASSUME NEW i \in 1 .. Len(days)
        PROVE  Whole(part, days[i]) = AsOne(bars, GroupOf(bars, n, days[i]), days[i])
    <2> DEFINE d == days[i]
               J == GroupOf(bars, n, d)
    <2>0. d \in Nat /\ n \in Nat /\ DaysUpTo(bars)[n] = days
      BY <1>2 DEF days
    <2>1. J \subseteq 1 .. Len(bars) /\ J \subseteq 1 .. n
      BY <1>0 DEF GroupOf
    <2>2. J # {}
      <3>1. n # 0
        <4>1. DaysUpTo(bars)[0] = <<>>
          BY <1>0, DaysUpToDef
        <4>2. Len(days) # 0
          BY <1>2
        <4> QED BY <2>0, <4>1, <4>2
      <3>2. DaysFit(bars, n)
        BY <3>1, DaysFitAll
      <3>3. \E j \in 1 .. n : bars[j].day = d
        BY <2>0, <3>2 DEF DaysFit
      <3> QED BY <3>3 DEF GroupOf
    <2>3. OfDay(part, d) = J
      BY <1>1 DEF OfDay, GroupOf
    <2>4. Max(J) \in 1 .. n /\ Min(J) \in 1 .. n
      <3> HIDE DEF J
      <3>1. Max(J) \in J /\ Min(J) \in J
        BY <1>0, <2>1, <2>2, AsOneParts
      <3> QED BY <2>1, <3>1
    <2>5. /\ {part[k].high : k \in J} = {bars[k].high : k \in J}
          /\ {part[k].low : k \in J} = {bars[k].low : k \in J}
      <3> HIDE DEF J
      <3>1. \A k \in J : part[k] = bars[k]
        BY <1>1, <2>1
      <3> QED BY <3>1
    <2>6. part[Max(J)] = bars[Max(J)] /\ part[Min(J)] = bars[Min(J)]
      BY <1>1, <2>4
    <2> HIDE DEF J, d
    <2>7. Whole(part, d) = AsOne(bars, J, d)
      BY <2>3, <2>5, <2>6 DEF Whole, AsOne
    <2> QED BY <2>7 DEF J, d
  <1>4. DailyBars(part) = [i \in 1 .. Len(days) |-> Whole(part, days[i])]
    BY <1>1, <1>2 DEF DailyBars
  <1> QED BY <1>3, <1>4 DEF part, days

LEMMA DailyType ==
    ASSUME NEW bars, Sorted(bars), NEW n \in 0 .. Len(bars)
    PROVE  /\ DailyBars(Prefix(bars, n)) \in Seq(MarketBar)
           /\ Len(DailyBars(Prefix(bars, n))) = Len(DaysUpTo(bars)[n])
  <1> DEFINE days == DaysUpTo(bars)[n]
             daily == DailyBars(Prefix(bars, n))
  <1>0. bars \in Seq(MarketBar) /\ Len(bars) \in Nat /\ n \in Nat
    BY DEF Sorted
  <1>1. days \in Seq(Nat) /\ (n = 0 => days = <<>>)
    BY <1>0, DaysUpToDef
  <1>2. daily = [i \in 1 .. Len(days) |-> AsOne(bars, GroupOf(bars, n, days[i]), days[i])]
    BY DailyOfPrefix
  <1>3. ASSUME NEW i \in 1 .. Len(days)
        PROVE  AsOne(bars, GroupOf(bars, n, days[i]), days[i]) \in MarketBar
    <2>1. n # 0
      BY <1>1
    <2>2. DaysFit(bars, n)
      BY <1>0, <2>1, DaysFitAll
    <2>3. GroupOf(bars, n, days[i]) \subseteq 1 .. Len(bars) /\ GroupOf(bars, n, days[i]) # {}
      <3>1. \E j \in 1 .. n : bars[j].day = days[i]
        BY <2>2 DEF DaysFit
      <3> HIDE DEF days
      <3> QED BY <1>0, <3>1 DEF GroupOf
    <2>4. days[i] \in Nat
      BY <1>1
    <2> QED BY <1>0, <2>3, <2>4, AsOneType
  <1> HIDE DEF days, daily
  <1>4. daily \in [1 .. Len(days) -> MarketBar] /\ Len(days) \in Nat
    BY <1>1, <1>2, <1>3
  <1>5. daily \in Seq(MarketBar) /\ Len(daily) = Len(days)
    BY <1>4
  <1> QED BY <1>5 DEF daily, days

(* AddBar makes the daily bars of a list from those of the list without    *)
(* its last bar.                                                           *)
LEMMA OneMoreBar ==
    ASSUME NEW bars, Sorted(bars), NEW n \in 1 .. Len(bars) - 1
    PROVE  DailyBars(Prefix(bars, n + 1)) = AddBar(DailyBars(Prefix(bars, n)), bars[n + 1])
  <1> DEFINE daily == DailyBars(Prefix(bars, n))
             next == DailyBars(Prefix(bars, n + 1))
             days == DaysUpTo(bars)[n]
             b == bars[n + 1]
             G(m, d) == GroupOf(bars, m, d)
  <1>0. /\ bars \in Seq(MarketBar) /\ Len(bars) \in Nat /\ n \in 1 .. Len(bars)
        /\ n + 1 \in 1 .. Len(bars) /\ n \in 0 .. Len(bars) /\ n + 1 \in 0 .. Len(bars)
        /\ n + 1 - 1 = n /\ n \in Nat
    BY DEF Sorted
  <1>1. DaysFit(bars, n)
    BY <1>0, DaysFitAll
  <1>2. /\ days \in Seq(Nat) /\ Len(days) \in Nat /\ Len(days) > 0
        /\ days[Len(days)] = bars[n].day
        /\ \A i \in 1 .. Len(days) - 1 : days[i] # bars[n].day
        /\ \A i \in 1 .. Len(days) : \E j \in 1 .. n : bars[j].day = days[i]
    <2>1. days \in Seq(Nat)
      BY <1>0, DaysUpToDef
    <2>2. /\ Len(days) > 0 /\ days[Len(days)] = bars[n].day
          /\ \A i \in 1 .. Len(days) - 1 : days[i] # days[Len(days)]
          /\ \A i \in 1 .. Len(days) : \E j \in 1 .. n : bars[j].day = days[i]
      BY <1>1 DEF DaysFit
    <2> HIDE DEF days
    <2> QED BY <2>1, <2>2
  <1>3. /\ daily = [i \in 1 .. Len(days) |-> AsOne(bars, G(n, days[i]), days[i])]
        /\ daily \in Seq(MarketBar) /\ Len(daily) = Len(days)
    BY <1>0, DailyOfPrefix, DailyType
  <1>4. /\ next = [i \in 1 .. Len(DaysUpTo(bars)[n + 1]) |->
                     AsOne(bars, G(n + 1, DaysUpTo(bars)[n + 1][i]), DaysUpTo(bars)[n + 1][i])]
        /\ next \in Seq(MarketBar) /\ Len(next) = Len(DaysUpTo(bars)[n + 1])
    BY <1>0, DailyOfPrefix, DailyType
  <1>5. \A d \in Nat : G(n + 1, d) = IF b.day = d THEN G(n, d) \cup {n + 1} ELSE G(n, d)
    BY <1>0 DEF GroupOf
  <1>6. \A d \in Nat : G(n, d) \subseteq 1 .. n
    BY DEF GroupOf
  <1>7. b \in MarketBar /\ b.day \in Nat
    BY <1>0, BarType
  <1>8. /\ DaysUpTo(bars)[n + 1] = IF b.day = bars[n].day THEN days ELSE Append(days, b.day)
        /\ b.day # bars[n].day => \A j \in 1 .. n : bars[j].day # b.day
    BY <1>1, NextDayOf
  <1>9. daily # <<>> /\ Last(daily) = daily[Len(days)] /\ daily[Len(days)].day = bars[n].day
    <2>1. daily[Len(days)] = AsOne(bars, G(n, bars[n].day), bars[n].day)
      BY <1>2, <1>3
    <2>2. daily[Len(days)].day = bars[n].day
      BY <2>1 DEF AsOne
    <2> HIDE DEF daily, days
    <2> QED BY <1>2, <1>3, <2>2 DEF Last
  <1> HIDE DEF daily, next, days, b, G
  <1>10. CASE b.day = bars[n].day
    <2> DEFINE m == Len(days)
               more == Append(Front(daily), Joined(Last(daily), b))
    <2>0. DaysUpTo(bars)[n + 1] = days /\ Len(next) = m /\ m \in Nat /\ m > 0
      BY <1>2, <1>4, <1>8, <1>10
    <2>1. AddBar(daily, b) = more
      BY <1>9, <1>10 DEF AddBar
    <2>2. Front(daily) \in Seq(MarketBar) /\ Len(Front(daily)) = m - 1
          /\ \A i \in 1 .. m - 1 : Front(daily)[i] = daily[i]
      BY <1>2, <1>3 DEF Front
    <2>3. next[m] = Joined(daily[m], b)
      <3>1. G(n, b.day) # {} /\ G(n, b.day) \subseteq 1 .. n /\ n = n + 1 - 1
        BY <1>0, <1>6, <1>7, <1>10 DEF G, GroupOf
      <3>2. AsOne(bars, G(n, b.day) \cup {n + 1}, b.day) = Joined(AsOne(bars, G(n, b.day), b.day), bars[n + 1])
        BY <1>0, <1>7, <3>1, JoinedIs
      <3>3. days[m] = b.day /\ m \in 1 .. m
        BY <1>2, <1>10, <2>0
      <3>4. next[m] = AsOne(bars, G(n + 1, b.day), b.day) /\ daily[m] = AsOne(bars, G(n, b.day), b.day)
        BY <1>3, <1>4, <2>0, <3>3
      <3> QED BY <1>5, <1>7, <3>2, <3>4 DEF b
    <2>4. next[m] \in MarketBar
      BY <1>4, <2>0
    <2>5. more \in Seq(MarketBar) /\ Len(more) = m /\ more[m] = next[m]
          /\ \A i \in 1 .. m - 1 : more[i] = daily[i]
      BY <1>9, <2>0, <2>2, <2>3, <2>4
    <2>6. ASSUME NEW i \in 1 .. m - 1 PROVE next[i] = daily[i]
      <3>1. days[i] # b.day /\ days[i] \in Nat /\ i \in 1 .. m
        BY <1>2, <1>10, <2>0
      <3> QED BY <1>3, <1>4, <1>5, <2>0, <3>1
    <2> HIDE DEF more, m
    <2>7. \A i \in 1 .. Len(next) : next[i] = more[i]
      BY <2>0, <2>5, <2>6
    <2>8. next = more
      BY <1>4, <2>0, <2>5, <2>7, SeqEqual
    <2> QED BY <2>1, <2>8 DEF next, daily, b
  <1>11. CASE b.day # bars[n].day
    <2> DEFINE m == Len(days)
               more == Append(daily, b)
               longer == DaysUpTo(bars)[n + 1]
    <2>0. longer = Append(days, b.day) /\ Len(longer) = m + 1 /\ Len(next) = m + 1 /\ m \in Nat
          /\ longer[m + 1] = b.day /\ \A i \in 1 .. m : longer[i] = days[i]
      BY <1>2, <1>4, <1>7, <1>8, <1>11
    <2>1. AddBar(daily, b) = more
      BY <1>9, <1>11 DEF AddBar
    <2>2. more \in Seq(MarketBar) /\ Len(more) = m + 1 /\ more[m + 1] = b
          /\ \A i \in 1 .. m : more[i] = daily[i]
      BY <1>3, <1>7, <2>0
    <2>3. next[m + 1] = b
      <3>1. G(n, b.day) = {}
        BY <1>8, <1>11 DEF G, GroupOf
      <3>2. G(n + 1, b.day) = {n + 1}
        BY <1>5, <1>7, <3>1
      <3>3. next[m + 1] = AsOne(bars, {n + 1}, b.day)
        <4>1. m + 1 \in 1 .. Len(longer) /\ longer[m + 1] = b.day
          BY <2>0
        <4> HIDE DEF longer, m
        <4>2. next[m + 1] = AsOne(bars, G(n + 1, longer[m + 1]), longer[m + 1])
          BY <1>4, <4>1 DEF longer
        <4> QED BY <3>2, <4>1, <4>2
      <3> QED BY <1>0, <3>3, OneIsItself DEF b
    <2>4. ASSUME NEW i \in 1 .. m PROVE next[i] = daily[i]
      <3>1. days[i] # b.day
        <4>1. PICK j \in 1 .. n : bars[j].day = days[i]
          BY <1>2
        <4> QED BY <1>8, <1>11, <4>1
      <3>2. days[i] \in Nat /\ i \in 1 .. m + 1
        BY <1>2, <2>0
      <3> QED BY <1>3, <1>4, <1>5, <2>0, <3>1, <3>2
    <2> HIDE DEF more, m, longer
    <2>5. \A i \in 1 .. Len(next) : next[i] = more[i]
      BY <2>0, <2>2, <2>3, <2>4
    <2>6. next = more
      BY <1>4, <2>0, <2>2, <2>5, SeqEqual
    <2> QED BY <2>1, <2>6 DEF next, daily, b
  <1> QED BY <1>10, <1>11

-----------------------------------------------------------------------------
(* The cache of daily bars.                                                *)

LEMMA WholeList == ASSUME NEW bars, Sorted(bars) PROVE Prefix(bars, Len(bars)) = bars
  <1>1. bars \in Seq(MarketBar) /\ Len(bars) \in 0 .. Len(bars)
    BY DEF Sorted
  <1>2. /\ Prefix(bars, Len(bars)) \in Seq(MarketBar) /\ Len(Prefix(bars, Len(bars))) = Len(bars)
        /\ \A k \in 1 .. Len(bars) : Prefix(bars, Len(bars))[k] = bars[k]
    BY <1>1, PrefixType
  <1> QED BY <1>1, <1>2, SeqEqual

LEMMA PrefixOfPrefix ==
    ASSUME NEW bars, Sorted(bars), NEW m \in 0 .. Len(bars), NEW n \in 0 .. m
    PROVE  Sorted(Prefix(bars, m)) /\ Prefix(Prefix(bars, m), n) = Prefix(bars, n)
  <1>1. bars \in Seq(MarketBar) /\ Len(bars) \in Nat /\ m \in Nat /\ n \in 0 .. Len(bars)
    BY DEF Sorted
  <1>2. /\ Prefix(bars, m) \in Seq(MarketBar) /\ Len(Prefix(bars, m)) = m
        /\ \A k \in 1 .. m : Prefix(bars, m)[k] = bars[k]
    BY <1>1, PrefixType
  <1>3. /\ Prefix(bars, n) \in Seq(MarketBar) /\ Len(Prefix(bars, n)) = n
        /\ \A k \in 1 .. n : Prefix(bars, n)[k] = bars[k]
    BY <1>1, PrefixType
  <1>4. /\ Prefix(Prefix(bars, m), n) \in Seq(MarketBar) /\ Len(Prefix(Prefix(bars, m), n)) = n
        /\ \A k \in 1 .. n : Prefix(Prefix(bars, m), n)[k] = Prefix(bars, m)[k]
    BY <1>2, PrefixType
  <1>5. \A k \in 1 .. n : Prefix(Prefix(bars, m), n)[k] = Prefix(bars, n)[k]
    BY <1>1, <1>2, <1>3, <1>4
  <1>6. Prefix(Prefix(bars, m), n) = Prefix(bars, n)
    BY <1>3, <1>4, <1>5, SeqEqual
  <1>7. \A k \in 2 .. m : Prefix(bars, m)[k - 1].day <= Prefix(bars, m)[k].day
    <2> SUFFICES ASSUME NEW k \in 2 .. m
                 PROVE  Prefix(bars, m)[k - 1].day <= Prefix(bars, m)[k].day
      OBVIOUS
    <2>1. k \in 1 .. m /\ k - 1 \in 1 .. m /\ k \in 2 .. Len(bars)
      BY <1>1
    <2> QED BY <1>2, <2>1 DEF Sorted
  <1> QED BY <1>2, <1>6, <1>7 DEF Sorted

(* The daily bars of the first n bars, extended by the rest, are those of  *)
(* the list.                                                               *)
LEMMA ExtendedIs ==
    ASSUME NEW bars, Sorted(bars), NEW n \in 1 .. Len(bars), NEW entry,
           entry.length = n, entry.daily = DailyBars(Prefix(bars, n))
    PROVE  Extended(entry, bars) = DailyBars(bars)
  <1> DEFINE N == Len(bars)
             D(k) == DailyBars(Prefix(bars, k))
             Def(f) == f = [k \in 0 .. N |-> IF k <= entry.length THEN entry.daily
                                             ELSE AddBar(f[k - 1], bars[k])]
             g == [k \in 0 .. N |-> IF k <= n THEN D(n) ELSE D(k)]
             daily == CHOOSE f : Def(f)
  <1>0. N \in Nat /\ n \in Nat /\ n <= N /\ 1 <= n
    BY DEF Sorted
  <1>1. \A k \in 1 .. N - 1 : D(k + 1) = AddBar(D(k), bars[k + 1])
    BY OneMoreBar
  <1>2. Def(g)
    <2> HIDE DEF D, N
    <2>1. ASSUME NEW k \in 0 .. N, ~(k <= n)
          PROVE  g[k] = AddBar(g[k - 1], bars[k])
      <3>1. k - 1 \in 1 .. N - 1 /\ k - 1 \in 0 .. N /\ (k - 1) + 1 = k
        BY <1>0, <2>1
      <3>2. g[k] = D(k)
        BY <2>1
      <3>3. g[k - 1] = D(k - 1)
        <4>1. CASE k - 1 <= n
          <5>1. k - 1 = n
            BY <1>0, <2>1, <4>1
          <5> QED BY <3>1, <4>1, <5>1
        <4>2. CASE ~(k - 1 <= n)
          BY <3>1, <4>2
        <4> QED BY <4>1, <4>2
      <3>4. D(k) = AddBar(D(k - 1), bars[k])
        BY <1>1, <3>1
      <3> QED BY <3>2, <3>3, <3>4
    <2>2. ASSUME NEW k \in 0 .. N, k <= n PROVE g[k] = entry.daily
      BY <2>2 DEF D
    <2>3. g = [k \in 0 .. N |-> g[k]]
      OBVIOUS
    <2> HIDE DEF g
    <2>4. \A k \in 0 .. N : g[k] = IF k <= entry.length THEN entry.daily
                                   ELSE AddBar(g[k - 1], bars[k])
      BY <2>1, <2>2
    <2> QED BY <2>3, <2>4
  <1>3. Def(daily)
    <2> HIDE DEF Def, g
    <2> QED BY <1>2
  <1>4. \A k \in 0 .. N : daily[k] = IF k <= n THEN entry.daily ELSE AddBar(daily[k - 1], bars[k])
    <2> HIDE DEF daily, N
    <2> QED BY <1>3, Zenon
  <1> HIDE DEF Def, g, daily
  <1>5. daily[N] = D(N)
    <2> DEFINE T == {k \in 0 .. N : k < n \/ daily[k] = D(k)}
    <2>1. 0 \in T
      BY <1>0
    <2>2. ASSUME NEW k \in 0 .. N - 1, k \in T PROVE k + 1 \in T
      <3>1. k + 1 \in 0 .. N /\ k + 1 - 1 = k
        BY <1>0
      <3>2. CASE k + 1 < n
        BY <3>1, <3>2
      <3>3. CASE k + 1 = n
        BY <1>4, <3>1, <3>3
      <3>4. CASE k + 1 > n
        <4>1. k \in 1 .. N - 1 /\ ~(k < n) /\ ~(k + 1 <= n)
          BY <1>0, <3>4
        <4>2. daily[k] = D(k)
          BY <2>2, <4>1
        <4>3. daily[k + 1] = AddBar(daily[k], bars[k + 1])
          BY <1>4, <3>1, <4>1
        <4> QED BY <1>1, <3>1, <4>1, <4>2, <4>3
      <3> QED BY <1>0, <3>2, <3>3, <3>4
    <2>3. 0 .. N \subseteq T
      <3> HIDE DEF T, N
      <3> QED BY <1>0, <2>1, <2>2, Induction
    <2>4. N \in T
      <3> HIDE DEF T, N
      <3> QED BY <1>0, <2>3
    <2> QED BY <1>0, <2>4
  <1>6. Extended(entry, bars) = daily[N]
    BY DEF Extended, daily, Def
  <1>7. Prefix(bars, N) = bars
    BY WholeList
  <1> QED BY <1>5, <1>6, <1>7

LEMMA NoDailyBars == DailyBars(<<>>) = <<>>
  <1>1. DaysUpTo(<<>>)[0] = <<>>
    <2>1. <<>> \in Seq(MarketBar) /\ Len(<<>>) = 0
      OBVIOUS
    <2> QED BY <2>1, DaysUpToDef
  <1> QED BY <1>1 DEF DailyBars

LEMMA MarketSorted == ASSUME NEW s \in Symbols PROVE Sorted(Market[s])
  BY MarketAssumption DEF Sorted

LEMMA EndsAreTimes == \A s \in Symbols : \A k \in DOMAIN Market[s] : Market[s][k].end \in Nat
  BY MarketSorted, BarType DEF Sorted

(* As time passes a list only becomes longer.                              *)
LEMMA CompleteGrows ==
    ASSUME NEW s \in Symbols, NEW t \in Nat, NEW u \in Nat, t <= u
    PROVE  /\ CompleteUpTo(s, t) \in 0 .. Len(Market[s])
           /\ CompleteUpTo(s, t) <= CompleteUpTo(s, u)
  <1> DEFINE K(x) == {k \in DOMAIN Market[s] : Market[s][k].end <= x}
  <1>0. Market[s] \in Seq(MarketBar) /\ Len(Market[s]) \in Nat /\ DOMAIN Market[s] = 1 .. Len(Market[s])
    BY MarketSorted DEF Sorted
  <1>1. ASSUME NEW x \in Nat
        PROVE  /\ CompleteUpTo(s, x) \in {0} \cup K(x)
               /\ \A k \in {0} \cup K(x) : k <= CompleteUpTo(s, x)
    <2>1. PICK h \in {0} \cup K(x) : \A k \in {0} \cup K(x) : k <= h
      <3>1. CASE K(x) = {}
        BY <3>1
      <3>2. CASE K(x) # {}
        <4>1. K(x) \subseteq 1 .. Len(Market[s])
          BY <1>0
        <4> HIDE DEF K
        <4>2. Max(K(x)) \in K(x) /\ \A k \in K(x) : k <= Max(K(x))
          BY <1>0, <3>2, <4>1, AsOneParts
        <4>3. 0 <= Max(K(x))
          BY <1>0, <4>1, <4>2
        <4> QED BY <4>2, <4>3
      <3> QED BY <3>1, <3>2
    <2>2. {0} \cup K(x) \subseteq Int
      BY <1>0
    <2>3. CompleteUpTo(s, x) = Max({0} \cup K(x))
      BY DEF CompleteUpTo
    <2> DEFINE S == {0} \cup K(x)
    <2> HIDE DEF S
    <2>4. Max(S) = h
      BY <2>1, <2>2, MaxIs DEF S
    <2> QED BY <2>1, <2>3, <2>4 DEF S
  <1>2. CompleteUpTo(s, t) \in {0} \cup K(t) /\ \A k \in {0} \cup K(u) : k <= CompleteUpTo(s, u)
    BY <1>1
  <1>3. K(t) \subseteq K(u) /\ {0} \cup K(t) \subseteq 0 .. Len(Market[s])
    BY <1>0, EndsAreTimes
  <1> HIDE DEF K
  <1> QED BY <1>2, <1>3

(* What the cache has at an address where only lists of s have been: the   *)
(* daily bars of the list as it was.                                       *)
EntryOf(s, n) ==
    [length |-> n, lastEnd |-> Market[s][n].end, daily |-> DailyBars(Prefix(Market[s], n))]
EntryFits(entry, s) ==
    entry = Missing \/ \E n \in 1 .. CompleteUpTo(s, now) : entry = EntryOf(s, n)

CacheInv ==
    /\ now \in Nat /\ DOMAIN dailyCache = Addresses /\ DOMAIN users = Addresses
    /\ \A a \in Addresses, s \in Symbols : users[a] \subseteq {s} => EntryFits(dailyCache[a], s)

(* Whatever it tells of a list, a calculation gets the daily bars of it.   *)
LEMMA CachedIs ==
    ASSUME NEW s \in Symbols, now \in Nat, NEW entry, EntryFits(entry, s)
    PROVE  /\ CachedDaily(entry, Complete(s, now)) = DailyBars(Complete(s, now))
           /\ EntryFits(EntryAfter(entry, Complete(s, now)), s)
  <1> DEFINE m == CompleteUpTo(s, now)
             bars == Complete(s, now)
  <1>0. m \in 0 .. Len(Market[s]) /\ m \in Nat
    <2>1. m \in 0 .. Len(Market[s])
      BY CompleteGrows
    <2> QED BY <2>1
  <1>1. Sorted(Market[s]) /\ Market[s] \in Seq(MarketBar)
    BY MarketSorted DEF Sorted
  <1>2. bars = Prefix(Market[s], m)
    BY DEF Complete, Prefix
  <1>3. /\ Sorted(bars) /\ bars \in Seq(MarketBar) /\ Len(bars) = m
        /\ \A k \in 1 .. m : bars[k] = Market[s][k]
    <2>1. Sorted(Prefix(Market[s], m))
      <3>1. 0 \in 0 .. m
        BY <1>0
      <3> QED BY <1>0, <1>1, <3>1, PrefixOfPrefix
    <2>2. /\ Prefix(Market[s], m) \in Seq(MarketBar) /\ Len(Prefix(Market[s], m)) = m
          /\ \A k \in 1 .. m : Prefix(Market[s], m)[k] = Market[s][k]
      BY <1>0, <1>1, PrefixType
    <2> HIDE DEF bars, m
    <2> QED BY <1>2, <2>1, <2>2
  <1> HIDE DEF bars, m
  <1>4. CachedDaily(entry, bars) = DailyBars(bars)
    <2>1. CASE bars = <<>>
      BY <2>1, NoDailyBars DEF CachedDaily
    <2>2. CASE entry = Missing /\ bars # <<>>
      BY <2>2 DEF CachedDaily
    <2>3. ASSUME NEW n \in 1 .. m, entry = EntryOf(s, n), bars # <<>>
          PROVE  CachedDaily(entry, bars) = DailyBars(bars)
      <3>1. n \in 1 .. Len(bars) /\ n \in 0 .. m
        BY <1>0, <1>3
      <3>2. entry.length = n /\ entry.daily = DailyBars(Prefix(Market[s], n))
        BY <2>3 DEF EntryOf
      <3>3. Prefix(bars, n) = Prefix(Market[s], n)
        BY <1>0, <1>1, <1>2, <3>1, PrefixOfPrefix
      <3>4. Extended(entry, bars) = DailyBars(bars)
        BY <1>3, <3>1, <3>2, <3>3, ExtendedIs
      <3> QED BY <2>3, <3>4 DEF CachedDaily
    <2> QED BY <2>1, <2>2, <2>3 DEF EntryFits, m
  <1>5. EntryFits(EntryAfter(entry, bars), s)
    <2>1. CASE bars = <<>>
      BY <2>1 DEF EntryAfter
    <2>2. CASE bars # <<>>
      <3>1. m \in 1 .. m /\ Len(bars) = m
        BY <1>0, <1>3, <2>2
      <3>2. Last(bars).end = Market[s][m].end
        BY <1>3, <3>1 DEF Last
      <3>3. EntryAfter(entry, bars) = EntryOf(s, m)
        BY <1>2, <1>4, <2>2, <3>1, <3>2 DEF EntryAfter, EntryOf
      <3> QED BY <3>1, <3>3 DEF EntryFits, m
    <2> QED BY <2>1, <2>2
  <1> QED BY <1>4, <1>5 DEF bars

LEMMA InitCache == MarketInit => CacheInv
  BY DEF MarketInit, CacheInv, EntryFits

LEMMA StepCache == CacheInv /\ [MarketNext]_marketVars => CacheInv'
  <1> SUFFICES ASSUME CacheInv, [MarketNext]_marketVars PROVE CacheInv'
    OBVIOUS
  <1>1. CASE Wait
    <2>1. now \in Nat /\ now' \in Nat /\ now <= now' /\ dailyCache' = dailyCache /\ users' = users
      <3>1. PICK t \in Ends : t > now /\ now' = t
        BY <1>1 DEF Wait
      <3>2. t \in Nat
        BY EndsAreTimes DEF Ends
      <3> QED BY <1>1, <3>1, <3>2 DEF Wait, CacheInv
    <2>2. ASSUME NEW entry, NEW s \in Symbols, EntryFits(entry, s)
          PROVE  EntryFits(entry, s)'
      <3>1. /\ CompleteUpTo(s, now) <= CompleteUpTo(s, now')
            /\ CompleteUpTo(s, now) \in Nat /\ CompleteUpTo(s, now') \in Nat
        <4>1. /\ CompleteUpTo(s, now) \in 0 .. Len(Market[s])
              /\ CompleteUpTo(s, now) <= CompleteUpTo(s, now')
          BY <2>1, CompleteGrows
        <4>2. CompleteUpTo(s, now') \in 0 .. Len(Market[s])
          BY <2>1, CompleteGrows
        <4> QED BY <4>1, <4>2
      <3>2. CASE entry = Missing
        BY <3>2 DEF EntryFits
      <3>3. ASSUME NEW n \in 1 .. CompleteUpTo(s, now), entry = EntryOf(s, n)
            PROVE  EntryFits(entry, s)'
        <4>1. n \in 1 .. CompleteUpTo(s, now')
          BY <3>1
        <4>2. CompleteUpTo(s, now)' = CompleteUpTo(s, now')
          BY DEF CompleteUpTo
        <4>3. EntryOf(s, n)' = EntryOf(s, n)
          BY DEF EntryOf, Prefix
        <4> QED BY <3>3, <4>1, <4>2, <4>3 DEF EntryFits
      <3> QED BY <2>2, <3>2, <3>3 DEF EntryFits
    <2> QED BY <2>1, <2>2 DEF CacheInv
  <1>2. ASSUME NEW place \in Placements, NEW healthy \in BOOLEAN, Calculate(place, healthy)
        PROVE  CacheInv'
    <2>0. now \in Nat /\ now' = now /\ DOMAIN dailyCache' = Addresses /\ DOMAIN users' = Addresses
      BY <1>2 DEF Calculate, CacheInv
    <2>1. ASSUME NEW a \in Addresses, NEW y \in Symbols, users'[a] \subseteq {y}
          PROVE  EntryFits(dailyCache'[a], y)
      <3>1. users'[a] = users[a] \cup {s \in Symbols : place[s] = a}
        BY <1>2 DEF Calculate
      <3>2. EntryFits(dailyCache[a], y)
        BY <2>1, <3>1 DEF CacheInv
      <3>3. CASE \E s \in Symbols : place[s] = a
        <4> DEFINE user == CHOOSE s \in Symbols : place[s] = a
        <4>1. user \in Symbols /\ place[user] = a
          BY <3>3
        <4> HIDE DEF user
        <4>2. user = y
          BY <2>1, <3>1, <4>1
        <4>3. dailyCache'[a] = EntryAfter(dailyCache[a], Complete(user, now))
          BY <1>2, <3>3 DEF Calculate, user
        <4> QED BY <2>0, <3>2, <4>2, <4>3, CachedIs
      <3>4. CASE ~ \E s \in Symbols : place[s] = a
        <4>1. dailyCache'[a] = dailyCache[a]
          BY <1>2, <3>4 DEF Calculate
        <4> QED BY <3>2, <4>1
      <3> QED BY <3>3, <3>4
    <2>2. ASSUME NEW a \in Addresses, NEW y \in Symbols, users'[a] \subseteq {y}
          PROVE  EntryFits(dailyCache[a], y)'
      BY <2>0, <2>1, <2>2 DEF EntryFits
    <2> QED BY <2>0, <2>2 DEF CacheInv
  <1>3. CASE UNCHANGED marketVars
    BY <1>3 DEF marketVars, CacheInv, EntryFits
  <1> QED BY <1>1, <1>2, <1>3 DEF MarketNext

(* DailyBarsAreOfTheList, which the run regime checks: for every market,   *)
(* and whatever lists there were at whichever addresses.                   *)
THEOREM CacheTellsOfTheList == MarketSpec => []DailyBarsAreOfTheList
  <1>1. CacheInv => DailyBarsAreOfTheList
    <2> SUFFICES ASSUME CacheInv, NEW place \in Placements, NEW s \in Symbols,
                        users[place[s]] \subseteq {s}
                 PROVE  DailyOf(place)[s] = DailyBars(Complete(s, now))
      BY DEF DailyBarsAreOfTheList
    <2>1. EntryFits(dailyCache[place[s]], s) /\ now \in Nat
      BY DEF CacheInv, Placements
    <2>2. CachedDaily(dailyCache[place[s]], Complete(s, now)) = DailyBars(Complete(s, now))
      BY <2>1, CachedIs
    <2> QED BY <2>2 DEF DailyOf
  <1> QED BY <1>1, InitCache, StepCache, PTL DEF MarketSpec

-----------------------------------------------------------------------------
(* The classification of a market: about an operator, not behaviours.      *)

Goodness == [r \in Regimes |->
    CASE r = "RISK_ON" -> 4 [] r = "RANGE_BOUND" -> 3 [] r = "CAUTIOUS" -> 2
      [] r = "RISK_OFF" -> 1 [] OTHER -> 0]

Measure == [close : Int, fast : Int, slow : Int, above : Nat, eligible : Nat \ {0},
            rank : Nat, of : Nat \ {0}, shock : BOOLEAN]

(* The index is lower at the same averages, fewer of as many shares are    *)
(* above theirs, the volatility is higher, or shock has been added.        *)
WorseThan(n, m) ==
    /\ n.close <= m.close /\ n.fast = m.fast /\ n.slow = m.slow
    /\ n.above <= m.above /\ n.eligible = m.eligible
    /\ n.rank >= m.rank /\ n.of = m.of
    /\ m.shock => n.shock

LEMMA Thresholds ==
    ASSUME NEW m \in Measure, NEW n \in Measure, WorseThan(n, m),
           NEW p \in Nat
    PROVE  /\ BreadthBelow(m, p) => BreadthBelow(n, p)
           /\ VolatilityBelow(n, p) => VolatilityBelow(m, p)
<1>1. /\ m.above \in Nat /\ n.above \in Nat /\ m.rank \in Nat /\ n.rank \in Nat
      /\ n.above <= m.above /\ n.rank >= m.rank
      /\ n.eligible = m.eligible /\ n.of = m.of
      /\ m.eligible \in Nat /\ m.of \in Nat
  BY DEF Measure, WorseThan
<1>2. p * m.eligible \in Int /\ p * m.of \in Int
  BY <1>1
<1> QED BY <1>1, <1>2 DEF BreadthBelow, VolatilityBelow

(* A market that is worse in every measure is never classified as a better *)
(* one, though the classification looks at the measures in six tests with  *)
(* thresholds of their own (engine.py 61-73).                              *)
THEOREM WorseMarketNoBetterRegime ==
    \A m, n \in Measure :
        WorseThan(n, m) => Goodness[Classify(n)] <= Goodness[Classify(m)]
<1> SUFFICES ASSUME NEW m \in Measure, NEW n \in Measure, WorseThan(n, m)
             PROVE  Goodness[Classify(n)] <= Goodness[Classify(m)]
  OBVIOUS
<1>1. \A p \in Nat : /\ BreadthBelow(m, p) => BreadthBelow(n, p)
                     /\ VolatilityBelow(n, p) => VolatilityBelow(m, p)
  BY Thresholds
<1>2. /\ BreadthBelow(m, 35) => BreadthBelow(n, 35)
      /\ BreadthBelow(m, 45) => BreadthBelow(n, 45)
      /\ BreadthBelow(m, 55) => BreadthBelow(n, 55)
      /\ VolatilityBelow(n, 80) => VolatilityBelow(m, 80)
      /\ VolatilityBelow(n, 95) => VolatilityBelow(m, 95)
  BY <1>1
<1>3. BreadthBelow(n, 45) => BreadthBelow(n, 55)
  BY DEF BreadthBelow, Measure
<1>4. /\ n.close <= m.close /\ n.fast = m.fast /\ n.slow = m.slow
      /\ n.close \in Int /\ m.close \in Int /\ m.fast \in Int /\ m.slow \in Int
      /\ m.shock => n.shock
  BY DEF WorseThan, Measure
<1>5. /\ Goodness["RISK_ON"] = 4 /\ Goodness["RANGE_BOUND"] = 3
      /\ Goodness["CAUTIOUS"] = 2 /\ Goodness["RISK_OFF"] = 1
  BY DEF Goodness, Regimes
<1>6. (n.close >= n.fast => m.close >= m.fast)
      /\ (m.close < m.fast => n.close < n.fast) /\ (m.close < m.slow => n.close < n.slow)
  BY <1>4
<1> HIDE DEF Goodness
<1>7. CASE Classify(m) = "RISK_ON"
  <2>1. Classify(n) \in {"RISK_ON", "RANGE_BOUND", "CAUTIOUS", "RISK_OFF"}
    BY DEF Classify
  <2> QED BY <1>5, <1>7, <2>1
<1>8. CASE Classify(m) = "RANGE_BOUND"
  <2>1. Classify(n) # "RISK_ON"
    BY <1>2, <1>4, <1>6, <1>8 DEF Classify
  <2>2. Classify(n) \in {"RANGE_BOUND", "CAUTIOUS", "RISK_OFF"}
    BY <2>1 DEF Classify
  <2> QED BY <1>5, <1>8, <2>2
<1>9. CASE Classify(m) = "CAUTIOUS"
  <2>1. Classify(n) # "RISK_ON" /\ Classify(n) # "RANGE_BOUND"
    BY <1>2, <1>3, <1>4, <1>6, <1>9 DEF Classify
  <2>2. Classify(n) \in {"CAUTIOUS", "RISK_OFF"}
    BY <2>1 DEF Classify
  <2> QED BY <1>5, <1>9, <2>2
<1>10. CASE Classify(m) = "RISK_OFF"
  <2>1. Classify(n) = "RISK_OFF"
    BY <1>2, <1>4, <1>6, <1>10 DEF Classify
  <2> QED BY <1>5, <1>10, <2>1
<1> QED BY <1>7, <1>8, <1>9, <1>10 DEF Classify
=============================================================================
