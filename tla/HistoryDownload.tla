--------------------------- MODULE HistoryDownload ---------------------------
(***************************************************************************)
(* scripts/download_fyers_history.py with data/fyers.py: the bars of some  *)
(* symbols and days are fetched in chunks of at most MaxDays days, each    *)
(* chunk is kept in a cache file, and when all are there they are merged   *)
(* into one output file.  A run that fails or is stopped is started again  *)
(* by hand with the same arguments.                                        *)
(*                                                                         *)
(* The bars of one symbol and day are one row.  The service answers with   *)
(* the days that have begun; a check of the answer that fails (status,     *)
(* shape and prices of a candle) ends the run as other fatal errors do.    *)
(***************************************************************************)
EXTENDS Integers, Sequences, FiniteSets

CONSTANTS
    SymbolList,      \* sequence of the symbols, sorted, each once
    StartDay, EndDay, MaxDays,
    FirstDay,        \* the day the download is begun
    MinInterval,     \* ticks between two requests
    Backoff, MaxRetries,
    MaxCrashes,      \* bound
    None

ASSUME DownloadAssumption ==
    /\ {MaxDays, MinInterval, Backoff} \subseteq Nat \ {0}
    /\ {StartDay, EndDay, FirstDay, MaxRetries, MaxCrashes} \subseteq Nat
    /\ StartDay <= EndDay /\ FirstDay <= EndDay
    /\ DOMAIN SymbolList = 1 .. Len(SymbolList) /\ Len(SymbolList) \in Nat \ {0}
    /\ \A j, k \in DOMAIN SymbolList : SymbolList[j] = SymbolList[k] => j = k

VARIABLES
    cache,           \* the file of each piece, or None
    output,          \* the output file, or None
    proc,            \* the process: see Begun
    today,
    crashes,
    answers,         \* of each piece: every whole answer the service gave
    silence          \* ticks since the process sent a request, as far as
                     \* the pauses go; before its first one MinInterval

vars == <<cache, output, proc, today, crashes, answers, silence>>

-----------------------------------------------------------------------------
(* The chunks of a symbol, and the pieces in the order of the two loops.   *)

Smaller(a, b) == IF a <= b THEN a ELSE b

ChunkCount == (EndDay - StartDay + MaxDays) \div MaxDays
ChunkDays(k) ==
    LET first == StartDay + (k - 1) * MaxDays
    IN  first .. Smaller(first + MaxDays - 1, EndDay)

Pieces == 1 .. Len(SymbolList) * ChunkCount
SymbolOf(p) == SymbolList[1 + ((p - 1) \div ChunkCount)]
DaysOf(p) == ChunkDays(1 + ((p - 1) % ChunkCount))

(* The service: what it has of a piece.                                    *)
Available(p) == {<<SymbolOf(p), d>> : d \in {x \in DaysOf(p) : x <= today}}

-----------------------------------------------------------------------------
(* What a run waits for: the interval, and the sleep before each retry.    *)
Pauses == {MinInterval} \cup {Backoff * 2^(k - 1) : k \in 1 .. MaxRetries}

(* The memory of a run: all_bars, the rows fetched, the rows of the        *)
(* temporary file, the time since _last_request_monotonic as far as it     *)
(* matters, and what is left of the sleep before a retry.                  *)
Begun == [at |-> "piece", piece |-> 1, attempt |-> 0, merged |-> {}, bars |-> {},
          temp |-> None, lastRequest |-> MinInterval, nap |-> 0]
Down == [Begun EXCEPT !.at = "down"]

At(place) == proc.at = place

Init ==
    /\ cache = [p \in Pieces |-> None] /\ output = None
    /\ proc = Down /\ today = FirstDay /\ crashes = 0
    /\ answers = [p \in Pieces |-> {}] /\ silence = MinInterval

Start ==
    /\ At("down")
    /\ proc' = Begun /\ silence' = MinInterval
    /\ UNCHANGED <<cache, output, today, crashes, answers>>

IsCached_Never(p) == FALSE
IsCached(p) == cache[p] # None

UseCache ==
    /\ At("piece") /\ proc.piece \in Pieces /\ IsCached(proc.piece)
    /\ proc' = [proc EXCEPT !.merged = @ \cup cache[proc.piece], !.piece = @ + 1]
    /\ UNCHANGED <<cache, output, today, crashes, answers, silence>>

Fetch ==
    /\ At("piece") /\ proc.piece \in Pieces /\ ~IsCached(proc.piece)
    /\ proc' = [proc EXCEPT !.at = "request", !.attempt = 0]
    /\ UNCHANGED <<cache, output, today, crashes, answers, silence>>

Sent_Unmarked(process) == [process EXCEPT !.at = "sent"]
Sent(process) == [process EXCEPT !.at = "sent", !.lastRequest = 0]

(* _pace, then the request.                                                *)
Send ==
    /\ At("request") /\ proc.nap = 0 /\ proc.lastRequest >= MinInterval
    /\ proc' = Sent(proc) /\ silence' = 0
    /\ UNCHANGED <<cache, output, today, crashes, answers>>

Answer(p) ==
    /\ At("sent") /\ proc.piece = p
    /\ proc' = [proc EXCEPT !.at = "write", !.bars = Available(p)]
    /\ answers' = [answers EXCEPT ![p] = @ \cup {Available(p)}]
    /\ UNCHANGED <<cache, output, today, crashes, silence>>

(* An overloaded service, no connection, a timeout, or broken JSON.        *)
RetryableError ==
    /\ At("sent") /\ proc.attempt < MaxRetries
    /\ proc' = [proc EXCEPT !.at = "request", !.attempt = @ + 1,
                            !.nap = Backoff * 2^proc.attempt]
    /\ UNCHANGED <<cache, output, today, crashes, answers, silence>>

(* The last retry failed as well, or the error is not worth one.           *)
FatalError ==
    /\ At("sent")
    /\ proc' = Down
    /\ UNCHANGED <<cache, output, today, crashes, answers, silence>>

Merge ==
    /\ At("piece") /\ proc.piece \notin Pieces
    /\ proc' = [proc EXCEPT !.at = "merge"]
    /\ UNCHANGED <<cache, output, today, crashes, answers, silence>>

WriteRows_InPlace ==
    /\ (At("write") \/ At("merge")) /\ proc.temp = None
    /\ proc' = [proc EXCEPT !.temp = {}]
    /\ IF At("write") THEN cache' = [cache EXCEPT ![proc.piece] = {}] /\ UNCHANGED output
       ELSE output' = {} /\ UNCHANGED cache
    /\ UNCHANGED <<today, crashes, answers, silence>>

(* _write_csv: the temporary file is there, and not all of its rows ...    *)
WriteRows ==
    /\ (At("write") \/ At("merge")) /\ proc.temp = None
    /\ proc' = [proc EXCEPT !.temp = {}]
    /\ UNCHANGED <<cache, output, today, crashes, answers, silence>>

(* ... then all of them, and fsync.                                        *)
SyncRows ==
    /\ (At("write") \/ At("merge")) /\ proc.temp # None
    /\ proc' = [proc EXCEPT !.temp = IF At("write") THEN proc.bars ELSE proc.merged,
                            !.at = IF At("write") THEN "replace" ELSE "publish"]
    /\ UNCHANGED <<cache, output, today, crashes, answers, silence>>

(* os.replace of a cache file.                                             *)
Replace ==
    /\ At("replace")
    /\ cache' = [cache EXCEPT ![proc.piece] = proc.temp]
    /\ proc' = [proc EXCEPT !.at = "piece", !.temp = None, !.merged = @ \cup proc.bars,
                            !.piece = @ + 1]
    /\ UNCHANGED <<output, today, crashes, answers, silence>>

(* os.replace of the output file; the run is over.                         *)
Publish ==
    /\ At("publish")
    /\ output' = proc.temp
    /\ proc' = Down
    /\ UNCHANGED <<cache, today, crashes, answers, silence>>

(* The process is killed, or a file cannot be written: a temporary file    *)
(* may stay, and no run reads it.                                          *)
Crash ==
    /\ ~At("down") /\ crashes < MaxCrashes
    /\ proc' = Down /\ crashes' = crashes + 1
    /\ UNCHANGED <<cache, output, today, answers, silence>>

Tick ==
    /\ At("request") \/ At("sent")
    /\ proc' = [proc EXCEPT !.lastRequest = Smaller(@ + 1, MinInterval),
                            !.nap = IF @ = 0 THEN 0 ELSE @ - 1]
    /\ silence' = IF \E pause \in Pauses : silence < pause THEN silence + 1 ELSE silence
    /\ UNCHANGED <<cache, output, today, crashes, answers>>

NextDay ==
    /\ today < EndDay
    /\ today' = today + 1
    /\ UNCHANGED <<cache, output, proc, crashes, answers, silence>>

Proceed ==
    UseCache \/ Fetch \/ Send \/ WriteRows \/ SyncRows \/ Replace \/ Merge \/ Publish

Next ==
    \/ Start \/ Proceed \/ \E p \in Pieces : Answer(p)
    \/ RetryableError \/ FatalError \/ Crash \/ Tick \/ NextDay

(* A run proceeds while the computer does, every request ends, and whoever *)
(* wants the file starts the download again.  The service may fail over    *)
(* and over, for one piece more than for another, but it does not fail     *)
(* every request for ever.                                                 *)
Fairness ==
    /\ WF_vars(Start) /\ WF_vars(Proceed) /\ WF_vars(Tick)
    /\ WF_vars(RetryableError \/ FatalError \/ \E p \in Pieces : Answer(p))
    /\ SF_vars(\E p \in Pieces : Answer(p))

Spec == Init /\ [][Next]_vars /\ Fairness

-----------------------------------------------------------------------------
(* Whenever a run is stopped, a file that is found is a whole answer of    *)
(* the service, or the merger of one for every piece                       *)
(* (download_fyers_history.py 45-72, fyers.py 94-118).                     *)
FilesAreWhole ==
    /\ \A p \in Pieces : cache[p] # None => cache[p] \in answers[p]
    /\ output # None =>
          \A p \in Pieces :
              {row \in output : row[1] = SymbolOf(p) /\ row[2] \in DaysOf(p)} \in answers[p]

(* Between two requests of a run at least the interval passes, and before  *)
(* the k-th retry 2^(k-1) times the backoff, however the request before it *)
(* ended (fyers.py 52-59, 73-92).                                          *)
RequestsArePaced ==
    [][Send => /\ silence >= MinInterval
               /\ proc.attempt > 0 => silence >= Backoff * 2^(proc.attempt - 1)]_vars

(* Restarted often enough, the download completes, with every day that had *)
(* begun when it was first tried: no run repeats the chunks that an        *)
(* earlier one completed (docs/FYERS_DATA.md, download_fyers_history.py    *)
(* 119-134).                                                               *)
Wanted == {<<SymbolList[k], d>> : k \in DOMAIN SymbolList, d \in StartDay .. FirstDay}
DownloadCompletes == <>(output # None /\ Wanted \subseteq output)
=============================================================================
