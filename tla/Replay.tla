------------------------------- MODULE Replay -------------------------------
(***************************************************************************)
(* scripts/run_replay.py: bars of a file are replayed through the broker   *)
(* in the order of their ends, and a checkpoint per symbol lets a replay   *)
(* that stopped be run again on the same database.  A bar takes several    *)
(* commits; the process can stop between any two.  The regimes it records  *)
(* are not read again.                                                     *)
(***************************************************************************)
EXTENDS ReplayRules

CONSTANTS
    Zone,            \* the offset from UTC in which the file writes its times
    MaxRuns,         \* bound: runs after one has completed
    MaxCrashes       \* bound: runs that stop before the end

ASSUME ReplayAssumption == {MaxRuns, MaxCrashes} \subseteq Nat /\ Zone \in Int

VARIABLES
    \* committed to SQLite
    recorded,        \* table market_bars: the bars recorded
    entered,         \* table positions: the bar a held symbol was bought at, or 0
    cooldown,        \* table cooldowns: until when, or 0
    fills,           \* table simulated_fills
    checkpoint,      \* kv_state "checkpoint:<symbol>": an instant in UTC, or 0
    snapshots,       \* table account_snapshots: rows of a bar
    marked,          \* table account_snapshots where is_eod: the dates
    \* in the memory of the process
    pc, next, history,
    \* about the runs
    completed, runs, crashes

db == <<recorded, entered, cooldown, fills, checkpoint, snapshots, marked>>
vars == <<db, pc, next, history, completed, runs, crashes>>

Bar == Bars[next]
Ready == next \in BarIds
Fill == [side : {"BUY", "SELL"}, bar : BarIds, symbol : Symbols]

Ends(s) == {Bars[b].end : b \in {c \in BarIds : Bars[c].symbol = s /\ IsRegular(Bars[c])}}

TypeOK ==
    /\ recorded \subseteq BarIds
    /\ entered \in [Symbols -> 0 .. Len(Bars)]
    /\ cooldown \in [Symbols -> Nat]
    /\ \A s \in Symbols : checkpoint[s] \in {0} \cup Ends(s)
    /\ fills \in Seq(Fill)
    /\ snapshots \in [BarIds -> Nat]
    /\ marked \subseteq Nat
    /\ pc \in {"down", "bar", "exit", "cooldown", "entry", "save", "eod"}
    /\ next \in 1 .. Len(Bars) + 1
    /\ history \in [Symbols -> Seq(BarIds)]
    /\ completed \in BOOLEAN /\ runs \in 0 .. MaxRuns + 1 /\ crashes \in 0 .. MaxCrashes

NoHistory == [s \in Symbols |-> <<>>]

Init ==
    /\ recorded = {} /\ fills = <<>> /\ marked = {}
    /\ entered = [s \in Symbols |-> 0]
    /\ cooldown = [s \in Symbols |-> 0] /\ checkpoint = [s \in Symbols |-> 0]
    /\ snapshots = [b \in BarIds |-> 0]
    /\ pc = "down" /\ next = 1 /\ history = NoHistory
    /\ completed = FALSE /\ runs = 0 /\ crashes = 0

-----------------------------------------------------------------------------
(* What is done with one bar, as functions of what has been read.          *)

MayEnter(bar, histories, held, until) ==
    LET own == histories[bar.symbol]
    IN  /\ IsEvaluated(bar, own)
        /\ BaseSignals(bar, own, RegimeOf(histories), held, until)
        /\ HasRoom(held)

IsProcessed_NotAtCheckpoint(bar, until) ==
    until # 0 /\ bar.end + Zone < until

(* now.isoformat() <= checkpoint compares two texts: the time of the file  *)
(* in its own zone with a time in UTC, and if these read the same, "+00:00"*)
(* is the smallest offset.                                                 *)
IsProcessed(bar, until) ==
    /\ until # 0
    /\ bar.end + Zone < until \/ (bar.end + Zone = until /\ Zone = 0)

-----------------------------------------------------------------------------
(* A run.                                                                  *)

(* Repository.market_bars, ordered by end.                                 *)
MarketBars(s) == BarsOf(s, recorded)

StartRun ==
    /\ pc = "down"
    /\ completed => runs <= MaxRuns
    /\ pc' = "bar" /\ next' = 1
    /\ history' = [s \in Symbols |-> MarketBars(s)]
    /\ UNCHANGED <<db, completed, runs, crashes>>

SkipBar ==
    /\ pc = "bar" /\ Ready
    /\ ~IsRegular(Bar) \/ IsProcessed(Bar, checkpoint[Bar.symbol])
    /\ next' = next + 1
    /\ UNCHANGED <<db, pc, history, completed, runs, crashes>>

ReadBar ==
    /\ pc = "bar" /\ Ready
    /\ IsRegular(Bar) /\ ~IsProcessed(Bar, checkpoint[Bar.symbol])
    /\ history' = [history EXCEPT ![Bar.symbol] = Append(@, next)]
    /\ recorded' = recorded \cup {next}
    /\ pc' = "exit"
    /\ UNCHANGED <<entered, cooldown, fills, checkpoint, snapshots, marked, next,
                   completed, runs, crashes>>

FillOf(side) == [side |-> side, bar |-> next, symbol |-> Bar.symbol]

Exit_KeepsPosition ==
    /\ pc = "exit"
    /\ LET reason == ExitReason(Bar, entered[Bar.symbol])
       IN  /\ pc' = IF reason = "STOP" THEN "cooldown" ELSE "entry"
           /\ fills' = IF reason = "NONE" THEN fills ELSE Append(fills, FillOf("SELL"))
    /\ UNCHANGED <<recorded, entered, cooldown, checkpoint, snapshots, marked, next,
                   history, completed, runs, crashes>>

(* PaperBroker.sell, if an exit rule applies.                              *)
Exit ==
    /\ pc = "exit"
    /\ LET reason == ExitReason(Bar, entered[Bar.symbol])
       IN  /\ pc' = IF reason = "STOP" THEN "cooldown" ELSE "entry"
           /\ IF reason = "NONE"
                THEN UNCHANGED <<entered, fills>>
                ELSE /\ entered' = [entered EXCEPT ![Bar.symbol] = 0]
                     /\ fills' = Append(fills, FillOf("SELL"))
    /\ UNCHANGED <<recorded, cooldown, checkpoint, snapshots, marked, next, history,
                   completed, runs, crashes>>

StartCooldown_FromStart ==
    /\ pc = "cooldown"
    /\ cooldown' = [cooldown EXCEPT ![Bar.symbol] = Bar.start + StopCooldown]
    /\ pc' = "entry"
    /\ UNCHANGED <<recorded, entered, fills, checkpoint, snapshots, marked, next,
                   history, completed, runs, crashes>>

StartCooldown ==
    /\ pc = "cooldown"
    /\ cooldown' = [cooldown EXCEPT ![Bar.symbol] = Bar.end + StopCooldown]
    /\ pc' = "entry"
    /\ UNCHANGED <<recorded, entered, fills, checkpoint, snapshots, marked, next,
                   history, completed, runs, crashes>>

(* PaperBroker.buy, if the strategy signals and can_buy allows it.         *)
Entry ==
    /\ pc = "entry"
    /\ IF MayEnter(Bar, history, entered, cooldown)
         THEN /\ entered' = [entered EXCEPT ![Bar.symbol] = next]
              /\ fills' = Append(fills, FillOf("BUY"))
         ELSE UNCHANGED <<entered, fills>>
    /\ pc' = "save"
    /\ UNCHANGED <<recorded, cooldown, checkpoint, snapshots, marked, next, history,
                   completed, runs, crashes>>

SaveProgress_AtStart ==
    /\ pc = "save"
    /\ snapshots' = [snapshots EXCEPT ![next] = @ + 1]
    /\ checkpoint' = [checkpoint EXCEPT ![Bar.symbol] = Bar.start]
    /\ IF SessionState(Bar.end) = "EOD"
         THEN pc' = "eod" /\ UNCHANGED next
         ELSE pc' = "bar" /\ next' = next + 1
    /\ UNCHANGED <<recorded, entered, cooldown, fills, marked, history, completed,
                   runs, crashes>>

(* record_account_snapshot_and_checkpoint, one transaction.                *)
SaveProgress ==
    /\ pc = "save"
    /\ snapshots' = [snapshots EXCEPT ![next] = @ + 1]
    /\ checkpoint' = [checkpoint EXCEPT ![Bar.symbol] = Bar.end]
    /\ IF SessionState(Bar.end) = "EOD"
         THEN pc' = "eod" /\ UNCHANGED next
         ELSE pc' = "bar" /\ next' = next + 1
    /\ UNCHANGED <<recorded, entered, cooldown, fills, marked, history, completed,
                   runs, crashes>>

(* record_eod: once for a date.                                            *)
RecordEod ==
    /\ pc = "eod"
    /\ marked' = marked \cup {Date(Bar.end)}
    /\ pc' = "bar" /\ next' = next + 1
    /\ UNCHANGED <<recorded, entered, cooldown, fills, checkpoint, snapshots, history,
                   completed, runs, crashes>>

Finish ==
    /\ pc = "bar" /\ ~Ready
    /\ pc' = "down" /\ next' = 1 /\ history' = NoHistory
    /\ completed' = TRUE /\ runs' = runs + 1
    /\ UNCHANGED <<db, crashes>>

Crash ==
    /\ pc # "down" /\ crashes < MaxCrashes
    /\ crashes' = crashes + 1
    /\ pc' = "down" /\ next' = 1 /\ history' = NoHistory
    /\ UNCHANGED <<db, completed, runs>>

ProcessBar == ReadBar \/ Exit \/ StartCooldown \/ Entry \/ SaveProgress \/ RecordEod

Next == StartRun \/ SkipBar \/ ProcessBar \/ Finish \/ Crash

Spec == Init /\ [][Next]_vars

-----------------------------------------------------------------------------
(* The replay in one piece, as a function of the file.                     *)

Read(state, b) == [state EXCEPT !.history[Bars[b].symbol] = Append(@, b)]

Sold(state, b) ==
    LET s == Bars[b].symbol
        reason == ExitReason(Bars[b], state.entered[s])
    IN  IF reason = "NONE" THEN state
        ELSE [state EXCEPT
                !.entered[s] = 0,
                !.cooldown[s] = IF reason = "STOP" THEN Bars[b].end + StopCooldown ELSE @,
                !.fills = Append(@, [side |-> "SELL", bar |-> b, symbol |-> s])]

Bought(state, b) ==
    LET s == Bars[b].symbol
    IN  IF MayEnter(Bars[b], state.history, state.entered, state.cooldown)
          THEN [state EXCEPT
                  !.entered[s] = b,
                  !.fills = Append(@, [side |-> "BUY", bar |-> b, symbol |-> s])]
          ELSE state

Replayed(state, b) ==
    IF state.entered[Bars[b].symbol] = 0 THEN Bought(Read(state, b), b)
    ELSE Bought(Sold(Read(state, b), b), b)

AtStart == [history |-> NoHistory, entered |-> [s \in Symbols |-> 0],
            cooldown |-> [s \in Symbols |-> 0], fills |-> <<>>]

After[b \in 0 .. Len(Bars)] ==
    IF b = 0 THEN AtStart
    ELSE IF IsRegular(Bars[b]) THEN Replayed(After[b - 1], b)
    ELSE After[b - 1]

Uninterrupted == After[Len(Bars)].fills

-----------------------------------------------------------------------------
(* However often the process stopped and was started again, no bar is      *)
(* accounted for twice, and none is missed in a run that completes         *)
(* (run_replay.py 88-90, repository.py record_account_snapshot_and_        *)
(* checkpoint).                                                            *)
EveryBarOnce ==
    \A b \in BarIds :
        /\ snapshots[b] <= 1
        /\ completed /\ IsRegular(Bars[b]) => snapshots[b] = 1

(* The fills of a symbol among the first n, and whether it is held then.   *)
OwnFills(all, s, n) == {k \in 1 .. n : all[k].symbol = s}
Latest(all, s, n) == all[Max(OwnFills(all, s, n))]
IsHeld(all, s, n) == OwnFills(all, s, n) # {} /\ Latest(all, s, n).side = "BUY"

(* A symbol is bought and sold in turns, and a bar that is processed again *)
(* after a restart neither repeats a trade nor sells what the same bar     *)
(* bought (run_replay.py 96-127).                                          *)
RoundTrips ==
    \A s \in Symbols :
        /\ \A k \in OwnFills(fills, s, Len(fills)) :
              IF fills[k].side = "BUY" THEN ~IsHeld(fills, s, k - 1)
              ELSE IsHeld(fills, s, k - 1) /\ Latest(fills, s, k - 1).bar < fills[k].bar
        /\ entered[s] = IF IsHeld(fills, s, Len(fills)) THEN Latest(fills, s, Len(fills)).bar ELSE 0

(* A replay that is not interrupted trades as the function above says, and *)
(* running it again changes nothing.                                       *)
ReplayIsFunction == (completed /\ crashes = 0) => fills = Uninterrupted
=============================================================================
