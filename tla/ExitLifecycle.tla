---------------------------- MODULE ExitLifecycle ----------------------------
(***************************************************************************)
(* research/exit_lifecycle.py and scripts/experiment_v1_exits.py: what     *)
(* other exits would have made of an entry that a replay made.  Each       *)
(* policy goes through the bars of the entry's session until it sells.     *)
(* Here all policies go through them together, one bar at a time.          *)
(*                                                                         *)
(* Levels are integers and distances stand for percentages, of which only  *)
(* the order matters.  Quantity, fees and slippage are left out.           *)
(***************************************************************************)
EXTENDS Integers, FiniteSetsExt

CONSTANTS
    EntryPrice,
    HardStop, HardTarget,            \* levels
    Policies,        \* [kind, stop, target, activation, amount, minutes]
    Prices,          \* of bars
    SessionEnd,      \* ticks from the entry to the last bar a day can have
    None

LifecycleKinds == {"EOD", "TIME", "PROTECT", "TRAIL"}
ExperimentKinds == {"BRACKET", "PLAIN_TIME"}

(* A lifecycle policy has the hard levels, a bracket no wider ones, and a  *)
(* protection locks less than what arms it.                                *)
ASSUME ExitAssumption ==
    /\ HardStop < EntryPrice /\ EntryPrice < HardTarget
    /\ \A p \in Policies :
          /\ p.kind \in LifecycleKinds \cup ExperimentKinds
          /\ p.kind \in LifecycleKinds => p.stop = HardStop /\ p.target = HardTarget
          /\ p.kind = "BRACKET" => HardStop <= p.stop /\ p.stop < EntryPrice
                                   /\ EntryPrice < p.target /\ p.target <= HardTarget
          /\ p.kind = "PROTECT" => 0 <= p.amount /\ p.amount <= p.activation
          /\ p.kind = "TRAIL" => 0 <= p.amount
    /\ \A p \in Policies : {p.stop, p.target, p.activation, p.amount} \subseteq Int
    /\ {EntryPrice, HardStop, HardTarget} \subseteq Int
    /\ Prices \subseteq Int /\ SessionEnd \in Nat

SomeBar == [end : Int, high : Int, low : Int, close : Int]
Result == [at : Int, reason : {"STOP", "TARGET", "PROTECT", "TRAIL", "TIME", "EOD"},
           price : Int, high : Int, low : Int]

ASSUME NoneAssumption == None \notin Int \cup SomeBar \cup Result

VARIABLES
    now,             \* ticks from the entry to the end of the last bar
    last,            \* that bar, or None
    highest, lowest, \* of the bars so far (path)
    level,           \* of each policy: protection_stop or trailing_stop, or None
    result,          \* of each policy: [at, reason, price, high, low], or None
    over             \* the session has no more bars

vars == <<now, last, highest, lowest, level, result, over>>

-----------------------------------------------------------------------------
Larger(a, b) == IF a >= b THEN a ELSE b

(* simulate: the hard exits come before those of the policy.               *)
HardExit_TargetFirst(p, bar) ==
    IF bar.high >= p.target THEN "TARGET"
    ELSE IF bar.low <= p.stop THEN "STOP"
    ELSE "NONE"

HardExit(p, bar) ==
    IF bar.low <= p.stop THEN "STOP"
    ELSE IF bar.high >= p.target THEN "TARGET"
    ELSE "NONE"

(* simulate_bracket: a bar does not tell which of two prices came first,   *)
(* and the stop is assumed.                                                *)
BracketExit(p, bar) ==
    CASE bar.low <= p.stop -> "STOP"
      [] bar.low > p.stop /\ bar.high >= p.target -> "TARGET"
      [] OTHER -> "NONE"

FixedExit(p, bar) ==
    CASE p.kind \in LifecycleKinds -> HardExit(p, bar)
      [] p.kind = "BRACKET" -> BracketExit(p, bar)
      [] OTHER -> "NONE"

Activates(p, bar) ==
    p.kind \in {"PROTECT", "TRAIL"} /\ bar.high >= EntryPrice + p.activation

LevelAfter_FollowsDown(p, old, bar) ==
    CASE old = None /\ ~Activates(p, bar) -> None
      [] old = None /\ Activates(p, bar) ->
            IF p.kind = "PROTECT" THEN EntryPrice + p.amount ELSE bar.high - p.amount
      [] old # None -> IF p.kind = "PROTECT" THEN old ELSE bar.high - p.amount

(* The level after a bar that no hard exit ended.  A protection stays      *)
(* where it is; a trailing stop is raised by the high of the bar.          *)
LevelAfter(p, old, bar) ==
    CASE old = None /\ ~Activates(p, bar) -> None
      [] old = None /\ Activates(p, bar) ->
            IF p.kind = "PROTECT" THEN EntryPrice + p.amount ELSE bar.high - p.amount
      [] old # None ->
            IF p.kind = "PROTECT" THEN old ELSE Larger(old, bar.high - p.amount)

(* A level is tested from the bar after the one that set it.               *)
ResearchExit(p, old, bar) ==
    CASE p.kind \in {"PROTECT", "TRAIL"} ->
            IF old # None /\ bar.low <= LevelAfter(p, old, bar) THEN p.kind ELSE "NONE"
      [] p.kind \in {"TIME", "PLAIN_TIME"} ->
            IF bar.end >= p.minutes THEN "TIME" ELSE "NONE"
      [] OTHER -> "NONE"

Reason(p, old, bar) ==
    IF FixedExit(p, bar) # "NONE" THEN FixedExit(p, bar) ELSE ResearchExit(p, old, bar)

ExitPrice(p, old, bar) ==
    CASE Reason(p, old, bar) = "STOP" -> p.stop
      [] Reason(p, old, bar) = "TARGET" -> p.target
      [] Reason(p, old, bar) \in {"PROTECT", "TRAIL"} -> LevelAfter(p, old, bar)
      [] OTHER -> bar.close

-----------------------------------------------------------------------------
Init ==
    /\ now = 0 /\ last = None /\ over = FALSE
    /\ highest = None /\ lowest = None
    /\ level = [p \in Policies |-> None]
    /\ result = [p \in Policies |-> None]

NewHigh(bar) == IF highest = None THEN bar.high ELSE Larger(highest, bar.high)
NewLow(bar) == IF lowest = None \/ bar.low < lowest THEN bar.low ELSE lowest

(* One turn of the loop, of every policy that has not sold.                *)
NextBar(bar) ==
    /\ ~over /\ now < bar.end
    /\ now' = bar.end /\ last' = bar
    /\ highest' = NewHigh(bar) /\ lowest' = NewLow(bar)
    /\ level' = [p \in Policies |->
                   IF result[p] = None /\ FixedExit(p, bar) = "NONE"
                     THEN LevelAfter(p, level[p], bar) ELSE level[p]]
    /\ result' = [p \in Policies |->
                    IF result[p] = None /\ Reason(p, level[p], bar) # "NONE"
                      THEN [at |-> bar.end, reason |-> Reason(p, level[p], bar),
                            price |-> ExitPrice(p, level[p], bar),
                            high |-> NewHigh(bar), low |-> NewLow(bar)]
                      ELSE result[p]]
    /\ UNCHANGED over

(* No more bars: what has not been sold is sold at the close of the last   *)
(* one; simulate_time_exit finds no result.                                *)
EndSession ==
    /\ ~over /\ over' = TRUE
    /\ result' = [p \in Policies |->
                    IF result[p] = None /\ last # None /\ p.kind # "PLAIN_TIME"
                      THEN [at |-> last.end, reason |-> "EOD", price |-> last.close,
                            high |-> highest, low |-> lowest]
                      ELSE result[p]]
    /\ UNCHANGED <<now, last, highest, lowest, level>>

SessionBars ==
    {bar \in [end : 1 .. SessionEnd, high : Prices, low : Prices, close : Prices] :
        bar.low <= bar.close /\ bar.close <= bar.high}

Next == EndSession \/ \E bar \in SessionBars : NextBar(bar)

Spec == Init /\ [][Next]_vars

-----------------------------------------------------------------------------
Baselines == {p \in Policies : p.kind = "EOD"}
IsHard(r) == r.reason \in {"STOP", "TARGET"}

(* "Hard safety exits remain immutable": no policy, and no bracket that is *)
(* not wider, sells later than the hard levels alone would, and where      *)
(* these sell, a lifecycle policy that still holds sells at their price.   *)
(* The two implementations agree on equal levels (exit_lifecycle.py        *)
(* 206-222, experiment_v1_exits.py 115-128).                               *)
HardExitsAreImmutable ==
    \A b \in Baselines, p \in Policies :
        (result[b] # None /\ p.kind # "PLAIN_TIME") =>
            /\ result[p] # None
            /\ result[p].at <= result[b].at
            /\ IsHard(result[b]) /\ result[p].at = result[b].at /\ p.kind \in LifecycleKinds
                 => result[p] = result[b]
            /\ p.kind \in LifecycleKinds /\ IsHard(result[p]) => result[p] = result[b]
            /\ p.kind = "BRACKET" /\ p.stop = HardStop /\ p.target = HardTarget
                 => result[p] = result[b]

(* A fill outside the range of its bar is at a level that stood before the *)
(* bar and was gapped over: below the low only the target, above the high  *)
(* only the stop or a level of an earlier bar (which README.md:180 would   *)
(* fill lower).  A trailing stop sells at its distance from the best price *)
(* since the entry, that of the bar it sells in included, whatever order   *)
(* the bars rise and fall in (exit_lifecycle.py 203-277).                  *)
FillsAreOfTheBar ==
    [][\A p \in Policies : (result[p] = None /\ result'[p] # None) =>
         /\ result'[p].price < last'.low => result'[p].reason = "TARGET"
         /\ result'[p].price > last'.high =>
               result'[p].reason = "STOP" \/ result'[p].price = level[p]
         /\ result'[p].reason = "TRAIL" =>
               result'[p].price = result'[p].high - p.amount]_vars
=============================================================================
