------------------------- MODULE ExitLifecycleProofs -------------------------
(***************************************************************************)
(* Theorems about ExitLifecycle, for every set of policies, levels and     *)
(* bars.                                                                   *)
(***************************************************************************)
EXTENDS ExitLifecycle, TLAPS

Holds(p) == result[p] = None

(* The path is that of the bars so far.                                    *)
PathOK ==
    /\ now \in Nat
    /\ result \in [Policies -> Result \cup {None}]
    /\ level \in [Policies -> Int \cup {None}]
    /\ over \in BOOLEAN
    /\ last # None =>
          /\ last \in SomeBar /\ highest \in Int /\ lowest \in Int
          /\ last.end = now /\ last.low <= last.close /\ last.close <= last.high
    /\ last = None => highest = None /\ lowest = None

(* A trailing stop that has not sold is armed once the best price activates*)
(* it, and then lies its distance below that price.                        *)
Trailing ==
    \A p \in Policies : p.kind = "TRAIL" /\ Holds(p) =>
        /\ level[p] # None =>
              /\ last # None /\ highest >= EntryPrice + p.activation
              /\ level[p] = highest - p.amount
        /\ level[p] = None => last = None \/ highest < EntryPrice + p.activation

(* A policy that still holds when the baseline sells is none of these.     *)
Ordered ==
    /\ \A p \in Policies : ~Holds(p) => result[p].at <= now
    /\ \A b \in Baselines, p \in Policies :
          p.kind # "PLAIN_TIME" => (Holds(p) => Holds(b))
    /\ \A b \in Baselines, p \in Policies :
          p.kind \in LifecycleKinds /\ ~Holds(p) /\ IsHard(result[p]) => result[p] = result[b]
    /\ \A b \in Baselines, p \in Policies :
          p.kind = "BRACKET" /\ p.stop = HardStop /\ p.target = HardTarget
             => result[p] = result[b]

IInv == PathOK /\ Trailing /\ Ordered /\ HardExitsAreImmutable

-----------------------------------------------------------------------------
LEMMA BarType ==
    ASSUME NEW bar \in SessionBars
    PROVE  /\ bar \in SomeBar /\ bar.end \in Nat
           /\ bar.low <= bar.close /\ bar.close <= bar.high
<1>1. Prices \subseteq Int /\ SessionEnd \in Nat
  BY ExitAssumption
<1>2. /\ bar \in [end : 1 .. SessionEnd, high : Prices, low : Prices, close : Prices]
      /\ bar.low <= bar.close /\ bar.close <= bar.high
  BY DEF SessionBars
<1>3. /\ bar.end \in 1 .. SessionEnd
      /\ bar.high \in Prices /\ bar.low \in Prices /\ bar.close \in Prices
      /\ bar = [end |-> bar.end, high |-> bar.high, low |-> bar.low, close |-> bar.close]
  BY <1>2
<1>4. bar.end \in Nat
  BY <1>1, <1>3
<1>5. bar \in SomeBar
  BY <1>1, <1>3, <1>4 DEF SomeBar
<1> QED BY <1>2, <1>4, <1>5

LEMMA LevelType ==
    ASSUME NEW p \in Policies, NEW old \in Int \cup {None}, NEW bar \in SomeBar
    PROVE  /\ LevelAfter(p, old, bar) \in Int \cup {None}
           /\ old # None => LevelAfter(p, old, bar) \in Int
           /\ old # None => \/ LevelAfter(p, old, bar) = old
                            \/ p.kind # "PROTECT" /\ LevelAfter(p, old, bar) = bar.high - p.amount
<1>1. /\ {p.stop, p.target, p.activation, p.amount} \subseteq Int /\ EntryPrice \in Int
  BY ExitAssumption
<1>2. bar.high \in Int
  BY DEF SomeBar
<1>3. None \notin Int
  BY NoneAssumption
<1>4. CASE old = None
  BY <1>1, <1>2, <1>4 DEF LevelAfter
<1>5. CASE old # None
  BY <1>1, <1>2, <1>5 DEF LevelAfter, Larger
<1> QED BY <1>4, <1>5

(* The hard levels of a lifecycle policy are those of the baseline, and    *)
(* the two implementations of a fixed exit agree.                          *)
LEMMA SameHardExit ==
    ASSUME NEW b \in Baselines, NEW p \in Policies, NEW bar \in SomeBar,
           \/ p.kind \in LifecycleKinds
           \/ p.kind = "BRACKET" /\ p.stop = HardStop /\ p.target = HardTarget
    PROVE  FixedExit(p, bar) = FixedExit(b, bar) /\ p.stop = b.stop /\ p.target = b.target
<1>1. b \in Policies /\ b.kind = "EOD"
  BY DEF Baselines
<1>2. /\ b.stop = HardStop /\ b.target = HardTarget
      /\ p.stop = HardStop /\ p.target = HardTarget
      /\ HardStop \in Int /\ HardTarget \in Int
  BY <1>1, ExitAssumption DEF LifecycleKinds
<1>3. bar.low \in Int /\ bar.high \in Int
  BY DEF SomeBar
<1> QED
  BY <1>1, <1>2, <1>3 DEF FixedExit, HardExit, BracketExit, LifecycleKinds

(* A bracket within the hard levels exits whenever they do.                *)
LEMMA BracketIsTighter ==
    ASSUME NEW b \in Baselines, NEW p \in Policies, NEW bar \in SomeBar,
           p.kind = "BRACKET", FixedExit(b, bar) # "NONE"
    PROVE  FixedExit(p, bar) # "NONE"
<1>1. b \in Policies /\ b.kind = "EOD"
  BY DEF Baselines
<1>2. /\ b.stop = HardStop /\ b.target = HardTarget
      /\ HardStop <= p.stop /\ p.target <= HardTarget
      /\ {HardStop, HardTarget, p.stop, p.target} \subseteq Int
  BY <1>1, ExitAssumption DEF LifecycleKinds
<1>3. bar.low \in Int /\ bar.high \in Int
  BY DEF SomeBar
<1> QED
  BY <1>1, <1>2, <1>3 DEF FixedExit, HardExit, BracketExit, LifecycleKinds

(* The reasons there are; the baseline sells on its hard levels only.      *)
LEMMA Reasons ==
    ASSUME NEW p \in Policies, NEW old \in Int \cup {None}, NEW bar \in SomeBar
    PROVE  /\ FixedExit(p, bar) \in {"STOP", "TARGET", "NONE"}
           /\ ResearchExit(p, old, bar) \in {"PROTECT", "TRAIL", "TIME", "NONE"}
           /\ p.kind = "EOD" => Reason(p, old, bar) = FixedExit(p, bar)
           /\ Reason(p, old, bar) \in {"STOP", "TARGET"} <=> FixedExit(p, bar) # "NONE"
           /\ FixedExit(p, bar) # "NONE" => Reason(p, old, bar) = FixedExit(p, bar)
           /\ Reason(p, old, bar) \in {"STOP", "TARGET", "PROTECT", "TRAIL", "TIME", "NONE"}
<1>1. FixedExit(p, bar) \in {"STOP", "TARGET", "NONE"}
  <2>1. HardExit(p, bar) \in {"STOP", "TARGET", "NONE"}
    BY DEF HardExit
  <2>2. BracketExit(p, bar) \in {"STOP", "TARGET", "NONE"}
    BY DEF BracketExit
  <2> QED BY <2>1, <2>2 DEF FixedExit
<1>2. ResearchExit(p, old, bar) \in {"PROTECT", "TRAIL", "TIME", "NONE"}
  BY DEF ResearchExit
<1>3. p.kind = "EOD" => ResearchExit(p, old, bar) = "NONE"
  BY DEF ResearchExit
<1> QED BY <1>1, <1>2, <1>3 DEF Reason

LEMMA PriceType ==
    ASSUME NEW p \in Policies, NEW old \in Int \cup {None}, NEW bar \in SomeBar,
           Reason(p, old, bar) # "NONE"
    PROVE  /\ ExitPrice(p, old, bar) \in Int
           /\ Reason(p, old, bar) \in {"PROTECT", "TRAIL"} =>
                 /\ old # None /\ Reason(p, old, bar) = p.kind
                 /\ ExitPrice(p, old, bar) = LevelAfter(p, old, bar)
                 /\ bar.low <= ExitPrice(p, old, bar)
           /\ Reason(p, old, bar) = "TIME" => ExitPrice(p, old, bar) = bar.close
<1>1. /\ {p.stop, p.target} \subseteq Int /\ bar.close \in Int
  BY ExitAssumption DEF SomeBar
<1>2. ASSUME Reason(p, old, bar) \in {"PROTECT", "TRAIL"}
      PROVE  /\ old # None /\ Reason(p, old, bar) = p.kind
             /\ ExitPrice(p, old, bar) = LevelAfter(p, old, bar)
             /\ bar.low <= ExitPrice(p, old, bar) /\ ExitPrice(p, old, bar) \in Int
  <2>1. FixedExit(p, bar) = "NONE" /\ ResearchExit(p, old, bar) = Reason(p, old, bar)
    BY <1>2, Reasons DEF Reason
  <2>2. /\ old # None /\ bar.low <= LevelAfter(p, old, bar)
        /\ Reason(p, old, bar) = p.kind
    BY <1>2, <2>1 DEF ResearchExit
  <2> QED BY <1>2, <2>2, LevelType DEF ExitPrice
<1> QED BY <1>1, <1>2, Reasons DEF ExitPrice

(* Only a target is filled below the bar, only a stop or a level that stood*)
(* before it above the bar.                                                *)
LEMMA FillIsOfTheBar ==
    ASSUME NEW p \in Policies, NEW old \in Int \cup {None}, NEW bar \in SessionBars,
           Reason(p, old, bar) # "NONE"
    PROVE  /\ ExitPrice(p, old, bar) < bar.low => Reason(p, old, bar) = "TARGET"
           /\ ExitPrice(p, old, bar) > bar.high =>
                 Reason(p, old, bar) = "STOP" \/ ExitPrice(p, old, bar) = old
<1>1. /\ bar \in SomeBar /\ bar.low <= bar.close /\ bar.close <= bar.high
      /\ bar.low \in Int /\ bar.high \in Int /\ bar.close \in Int
  BY BarType DEF SomeBar
<1>2. {p.stop, p.target, p.amount} \subseteq Int
  BY ExitAssumption
<1>3. CASE Reason(p, old, bar) = "STOP"
  <2>1. FixedExit(p, bar) = "STOP"
    BY <1>3, <1>1, Reasons
  <2>2. bar.low <= p.stop
    BY <2>1 DEF FixedExit, HardExit, BracketExit
  <2> QED BY <1>1, <1>2, <1>3, <2>2 DEF ExitPrice
<1>4. CASE Reason(p, old, bar) = "TARGET"
  <2>1. FixedExit(p, bar) = "TARGET"
    BY <1>4, <1>1, Reasons
  <2>2. bar.high >= p.target
    BY <2>1 DEF FixedExit, HardExit, BracketExit
  <2> QED BY <1>1, <1>2, <1>4, <2>2 DEF ExitPrice
<1>5. CASE Reason(p, old, bar) \in {"PROTECT", "TRAIL"}
  <2>1. /\ old # None /\ bar.low <= ExitPrice(p, old, bar)
        /\ ExitPrice(p, old, bar) \in Int
        /\ ExitPrice(p, old, bar) = LevelAfter(p, old, bar)
        /\ Reason(p, old, bar) = p.kind
    BY <1>1, <1>5, PriceType
  <2>2. CASE LevelAfter(p, old, bar) = old
    BY <1>1, <2>1, <2>2
  <2>3. CASE LevelAfter(p, old, bar) = bar.high - p.amount /\ p.kind = "TRAIL"
    <3>1. 0 <= p.amount
      BY <2>3, ExitAssumption
    <3> QED BY <1>1, <1>2, <2>1, <2>3, <3>1
  <2> QED BY <1>1, <1>5, <2>1, <2>2, <2>3, LevelType
<1>6. CASE Reason(p, old, bar) = "TIME"
  BY <1>1, <1>6, PriceType
<1>7. Reason(p, old, bar) \in {"STOP", "TARGET", "PROTECT", "TRAIL", "TIME"}
  BY <1>1, Reasons
<1> QED BY <1>3, <1>4, <1>5, <1>6, <1>7

-----------------------------------------------------------------------------
LEMMA Initially == Init => IInv
<1> SUFFICES ASSUME Init PROVE IInv
  OBVIOUS
<1>1. \A p \in Policies : result[p] = None /\ level[p] = None
  BY DEF Init
<1>2. PathOK
  BY <1>1 DEF Init, PathOK
<1>3. Baselines \subseteq Policies
  BY DEF Baselines
<1>4. Trailing
  BY <1>1 DEF Init, Trailing
<1> QED BY <1>1, <1>2, <1>3, <1>4 DEF IInv, Ordered, Holds, HardExitsAreImmutable

(* The path grows by the bar.                                              *)
LEMMA PathGrows ==
    ASSUME IInv, NEW bar \in SessionBars, NextBar(bar)
    PROVE  /\ bar \in SomeBar /\ bar.end \in Nat /\ now \in Nat /\ now < bar.end
           /\ NewHigh(bar) \in Int /\ NewLow(bar) \in Int
           /\ bar.high <= NewHigh(bar) /\ NewLow(bar) <= bar.low
           /\ highest # None => highest <= NewHigh(bar)
<1>1. /\ bar \in SomeBar /\ bar.end \in Nat
      /\ bar.high \in Int /\ bar.low \in Int
  BY BarType DEF SomeBar
<1>2. now \in Nat /\ now < bar.end
  BY DEF IInv, PathOK, NextBar
<1>3. highest \in Int \cup {None} /\ lowest \in Int \cup {None}
  BY DEF IInv, PathOK
<1> QED BY <1>1, <1>2, <1>3 DEF NewHigh, NewLow, Larger

(* What a bar does to one policy.                                          *)
LEMMA PolicyStep ==
    ASSUME IInv, NEW bar \in SessionBars, NextBar(bar), NEW p \in Policies
    PROVE  /\ ~Holds(p) => result'[p] = result[p] /\ level'[p] = level[p]
           /\ Holds(p) /\ Reason(p, level[p], bar) = "NONE" => result'[p] = None
           /\ Holds(p) /\ Reason(p, level[p], bar) # "NONE" =>
                 /\ result'[p] = [at |-> bar.end, reason |-> Reason(p, level[p], bar),
                                  price |-> ExitPrice(p, level[p], bar),
                                  high |-> NewHigh(bar), low |-> NewLow(bar)]
                 /\ result'[p] \in Result
                 /\ result'[p].at = bar.end
<1>1. ~Holds(p) => result'[p] = result[p] /\ level'[p] = level[p]
  BY DEF NextBar, Holds
<1>2. Holds(p) /\ Reason(p, level[p], bar) = "NONE" => result'[p] = None
  BY DEF NextBar, Holds
<1>3. ASSUME Holds(p), Reason(p, level[p], bar) # "NONE"
      PROVE  result'[p] = [at |-> bar.end, reason |-> Reason(p, level[p], bar),
                           price |-> ExitPrice(p, level[p], bar),
                           high |-> NewHigh(bar), low |-> NewLow(bar)]
  BY <1>3 DEF NextBar, Holds
<1>4. level[p] \in Int \cup {None} /\ bar \in SomeBar
  BY PathGrows DEF IInv, PathOK
<1>5. ASSUME Holds(p), Reason(p, level[p], bar) # "NONE"
      PROVE  result'[p] \in Result /\ result'[p].at = bar.end
  <2>1. ExitPrice(p, level[p], bar) \in Int
    BY <1>4, <1>5, PriceType
  <2>2. Reason(p, level[p], bar) \in {"STOP", "TARGET", "PROTECT", "TRAIL", "TIME"}
    BY <1>4, <1>5, Reasons
  <2> QED BY <1>3, <1>5, <2>1, <2>2, PathGrows DEF Result
<1> QED BY <1>1, <1>2, <1>3, <1>5

(* A trailing stop is raised with the best price and never lowered.        *)
LEMMA TrailStep ==
    ASSUME IInv, NEW bar \in SessionBars, NextBar(bar), NEW p \in Policies,
           p.kind = "TRAIL", Holds(p)
    PROVE  /\ LevelAfter(p, level[p], bar) # None =>
                 /\ NewHigh(bar) >= EntryPrice + p.activation
                 /\ LevelAfter(p, level[p], bar) = NewHigh(bar) - p.amount
           /\ LevelAfter(p, level[p], bar) = None =>
                 NewHigh(bar) < EntryPrice + p.activation
<1>1. /\ {p.activation, p.amount} \subseteq Int /\ EntryPrice \in Int
      /\ None \notin Int /\ bar.high \in Int
  BY PathGrows, ExitAssumption, NoneAssumption DEF SomeBar
<1>2. /\ last # None => highest \in Int
      /\ last = None => highest = None
      /\ level[p] \in Int \cup {None}
  BY DEF IInv, PathOK
<1>3. CASE level[p] = None
  <2>1. highest = None \/ (highest \in Int /\ highest < EntryPrice + p.activation)
    BY <1>2, <1>3 DEF IInv, Trailing
  <2>2. CASE Activates(p, bar)
    <3>1. bar.high >= EntryPrice + p.activation
      BY <2>2 DEF Activates
    <3>2. NewHigh(bar) = bar.high
      BY <1>1, <2>1, <3>1 DEF NewHigh, Larger
    <3> QED BY <1>1, <1>3, <2>2, <3>1, <3>2 DEF LevelAfter
  <2>3. CASE ~Activates(p, bar)
    <3>1. bar.high < EntryPrice + p.activation
      BY <1>1, <2>3 DEF Activates
    <3>2. NewHigh(bar) < EntryPrice + p.activation
      BY <1>1, <2>1, <3>1 DEF NewHigh, Larger
    <3> QED BY <1>3, <2>3, <3>2 DEF LevelAfter
  <2> QED BY <2>2, <2>3
<1>4. CASE level[p] # None
  <2>1. /\ highest \in Int /\ highest >= EntryPrice + p.activation
        /\ level[p] = highest - p.amount
    BY <1>2, <1>4 DEF IInv, Trailing
  <2>2. NewHigh(bar) = Larger(highest, bar.high)
    BY <1>1, <2>1 DEF NewHigh
  <2>3. LevelAfter(p, level[p], bar) = Larger(level[p], bar.high - p.amount)
    BY <1>4 DEF LevelAfter
  <2> QED BY <1>1, <2>1, <2>2, <2>3 DEF Larger
<1> QED BY <1>3, <1>4

LEMMA BarKeepsPath ==
    ASSUME IInv, NEW bar \in SessionBars, NextBar(bar)
    PROVE  PathOK'
<1>1. /\ now' = bar.end /\ last' = bar /\ over' = over
      /\ highest' = NewHigh(bar) /\ lowest' = NewLow(bar)
  BY DEF NextBar
<1>2. /\ bar \in SomeBar /\ bar.high \in Int /\ bar.low \in Int /\ bar.close \in Int
      /\ bar.low <= bar.close /\ bar.close <= bar.high
  BY BarType DEF SomeBar
<1>3. last' # None /\ last' \in SomeBar /\ highest' \in Int /\ lowest' \in Int
      /\ last'.end = now' /\ last'.low <= last'.close /\ last'.close <= last'.high
      /\ now' \in Nat /\ over' \in BOOLEAN
  BY <1>1, <1>2, PathGrows, NoneAssumption DEF IInv, PathOK
<1>4. result' \in [Policies -> Result \cup {None}]
  <2>1. \A p \in Policies : result'[p] \in Result \cup {None}
    BY PolicyStep DEF IInv, PathOK
  <2>2. result' = [p \in Policies |-> result'[p]]
    BY DEF NextBar
  <2> QED BY <2>1, <2>2
<1>5. ASSUME NEW p \in Policies PROVE level'[p] \in Int \cup {None}
  <2>1. level'[p] \in {level[p], LevelAfter(p, level[p], bar)}
    BY DEF NextBar
  <2>2. level[p] \in Int \cup {None}
    BY DEF IInv, PathOK
  <2> QED BY <1>2, <2>1, <2>2, LevelType
<1>6. level' \in [Policies -> Int \cup {None}]
  <2>1. level' = [p \in Policies |-> level'[p]]
    BY DEF NextBar
  <2> QED BY <1>5, <2>1
<1> QED BY <1>3, <1>4, <1>5, <1>6 DEF PathOK

(* Where the baseline sells within a bar, so does every other policy that  *)
(* still holds; a lifecycle policy, and a bracket of the hard levels, on   *)
(* the same terms, and it sells hard nowhere else.                         *)
LEMMA HardStep ==
    ASSUME IInv, NEW bar \in SessionBars, NextBar(bar),
           NEW b \in Baselines, NEW p \in Policies, p.kind # "PLAIN_TIME",
           Holds(b), Holds(p)
    PROVE  /\ ~(result'[b] = None) =>
                 /\ ~(result'[p] = None)
                 /\ result'[p].at = bar.end /\ result'[b].at = bar.end
                 /\ IsHard(result'[b])
                 /\ p.kind \in LifecycleKinds => result'[p] = result'[b]
           /\ ~(result'[p] = None) /\ IsHard(result'[p]) /\ p.kind \in LifecycleKinds
                 => result'[p] = result'[b]
           /\ p.kind = "BRACKET" /\ p.stop = HardStop /\ p.target = HardTarget
                 => result'[p] = result'[b]
<1>1. b \in Policies /\ b.kind = "EOD"
  BY DEF Baselines
<1>2. p.kind \in LifecycleKinds \/ p.kind = "BRACKET"
  BY ExitAssumption DEF ExperimentKinds
<1>3. bar \in SomeBar /\ level[p] \in Int \cup {None} /\ level[b] \in Int \cup {None}
  BY <1>1, PathGrows DEF IInv, PathOK
<1> DEFINE rp == Reason(p, level[p], bar)
           rb == Reason(b, level[b], bar)
<1>4. rb = FixedExit(b, bar) /\ rb \in {"STOP", "TARGET", "NONE"}
  BY <1>1, <1>3, Reasons
<1>5. /\ rb = "NONE" => result'[b] = None
      /\ rb # "NONE" => /\ result'[b] = [at |-> bar.end, reason |-> rb,
                                        price |-> ExitPrice(b, level[b], bar),
                                        high |-> NewHigh(bar), low |-> NewLow(bar)]
                       /\ result'[b] \in Result
  BY <1>1, PolicyStep
<1>6. /\ rp = "NONE" => result'[p] = None
      /\ rp # "NONE" => /\ result'[p] = [at |-> bar.end, reason |-> rp,
                                        price |-> ExitPrice(p, level[p], bar),
                                        high |-> NewHigh(bar), low |-> NewLow(bar)]
                       /\ result'[p] \in Result
  BY PolicyStep
<1>7. None \notin Result
  BY NoneAssumption
<1>8. /\ FixedExit(p, bar) # "NONE" => rp = FixedExit(p, bar)
      /\ rp \in {"STOP", "TARGET"} => FixedExit(p, bar) # "NONE"
  BY <1>3, Reasons
<1>9. ASSUME \/ p.kind \in LifecycleKinds
             \/ p.kind = "BRACKET" /\ p.stop = HardStop /\ p.target = HardTarget
      PROVE  /\ FixedExit(p, bar) = rb
             /\ rb # "NONE" => ExitPrice(p, level[p], bar) = ExitPrice(b, level[b], bar)
  <2>1. FixedExit(p, bar) = FixedExit(b, bar) /\ p.stop = b.stop /\ p.target = b.target
    BY <1>3, <1>9, SameHardExit
  <2>2. rb # "NONE" => rp = rb
    BY <1>4, <1>8, <2>1
  <2> QED BY <1>4, <2>1, <2>2 DEF ExitPrice
<1>10. rb # "NONE" => rp # "NONE"
  <2>1. CASE p.kind \in LifecycleKinds
    BY <1>8, <1>9, <2>1
  <2>2. CASE p.kind = "BRACKET"
    BY <1>3, <1>4, <1>8, <2>2, BracketIsTighter
  <2> QED BY <1>2, <2>1, <2>2
<1>11. /\ rb # "NONE" => IsHard(result'[b])
       /\ rp # "NONE" /\ IsHard(result'[p]) => rp \in {"STOP", "TARGET"}
  BY <1>4, <1>5, <1>6 DEF IsHard
<1>12. rb # "NONE" /\ (\/ p.kind \in LifecycleKinds
                       \/ p.kind = "BRACKET" /\ p.stop = HardStop /\ p.target = HardTarget)
          => result'[p] = result'[b]
  BY <1>5, <1>6, <1>8, <1>9
<1>13. p.kind = "BRACKET" /\ p.stop = HardStop /\ p.target = HardTarget
          => (rb = "NONE" => rp = "NONE")
  <2> SUFFICES ASSUME p.kind = "BRACKET", p.stop = HardStop, p.target = HardTarget,
                      rb = "NONE"
               PROVE  rp = "NONE"
    OBVIOUS
  <2>1. FixedExit(p, bar) = "NONE"
    BY <1>9
  <2>2. ResearchExit(p, level[p], bar) = "NONE"
    BY DEF ResearchExit
  <2> QED BY <2>1, <2>2 DEF Reason
<1> HIDE DEF rp, rb
<1> QED
  <2>1. ASSUME ~(result'[b] = None)
        PROVE  /\ ~(result'[p] = None)
               /\ result'[p].at = bar.end /\ result'[b].at = bar.end
               /\ IsHard(result'[b])
               /\ p.kind \in LifecycleKinds => result'[p] = result'[b]
    BY <1>5, <1>6, <1>7, <1>10, <1>11, <1>12, <2>1
  <2>2. ~(result'[p] = None) /\ IsHard(result'[p]) /\ p.kind \in LifecycleKinds
           => result'[p] = result'[b]
    BY <1>6, <1>8, <1>9, <1>11, <1>12
  <2>3. p.kind = "BRACKET" /\ p.stop = HardStop /\ p.target = HardTarget
           => result'[p] = result'[b]
    BY <1>5, <1>6, <1>12, <1>13
  <2> QED BY <2>1, <2>2, <2>3

LEMMA BarStep ==
    ASSUME IInv, NEW bar \in SessionBars, NextBar(bar)
    PROVE  IInv'
<1>1. PathOK'
  BY BarKeepsPath
<1>2. /\ now' = bar.end /\ now < bar.end /\ now \in Nat /\ bar.end \in Nat
      /\ None \notin Result
  BY PathGrows, NoneAssumption DEF NextBar
<1>3. \A p \in Policies : ~Holds(p) => result'[p] = result[p] /\ result[p] \in Result
  BY PolicyStep DEF Holds, IInv, PathOK
<1>4. \A p \in Policies : result'[p] # None => result'[p].at <= now'
  <2> TAKE p \in Policies
  <2>1. CASE ~Holds(p)
    <3>1. result'[p] = result[p] /\ result[p].at <= now /\ result[p].at \in Int
      BY <1>3, <2>1 DEF IInv, Ordered, Result
    <3> QED BY <1>2, <3>1
  <2>2. CASE Holds(p)
    <3>1. result'[p] # None => result'[p].at = bar.end
      BY ONLY IInv, bar \in SessionBars, NextBar(bar), p \in Policies, <2>2, PolicyStep
    <3> QED BY <1>2, <3>1
  <2> QED BY <2>1, <2>2
<1>5. ASSUME NEW b \in Baselines, NEW p \in Policies, p.kind # "PLAIN_TIME"
      PROVE  /\ result'[p] = None => result'[b] = None
             /\ p.kind \in LifecycleKinds /\ result'[p] # None /\ IsHard(result'[p])
                   => result'[p] = result'[b]
             /\ p.kind = "BRACKET" /\ p.stop = HardStop /\ p.target = HardTarget
                   => result'[p] = result'[b]
             /\ result'[b] # None =>
                   /\ result'[p].at <= result'[b].at
                   /\ IsHard(result'[b]) /\ result'[p].at = result'[b].at
                        /\ p.kind \in LifecycleKinds => result'[p] = result'[b]
  <2>1. b \in Policies
    BY DEF Baselines
  <2>2. CASE ~Holds(b)
    <3>1. ~Holds(p)
      BY <2>2, <1>5 DEF IInv, Ordered
    <3>2. result'[p] = result[p] /\ result'[b] = result[b] /\ result[b] # None
      BY <1>3, <2>1, <2>2, <3>1 DEF Holds
    <3> QED BY <1>5, <2>1, <3>1, <3>2 DEF IInv, Ordered, HardExitsAreImmutable, Holds
  <2>3. CASE Holds(b) /\ ~Holds(p)
    <3>1. result'[p] = result[p] /\ result[p] \in Result /\ result[p] # None
      BY <1>3, <2>3 DEF Holds
    <3>2. result[b] = None
      BY <2>3 DEF Holds
    <3>3. ~(p.kind \in LifecycleKinds /\ IsHard(result[p]))
      BY <2>3, <3>1, <3>2 DEF IInv, Ordered
    <3>4. ~(p.kind = "BRACKET" /\ p.stop = HardStop /\ p.target = HardTarget)
      BY <3>1, <3>2 DEF IInv, Ordered
    <3>5. result[p].at <= now /\ result[p].at \in Int
      BY <2>3, <3>1 DEF IInv, Ordered, Result
    <3>6. result'[b] # None => result'[b].at = bar.end
      BY <2>1, <2>3, PolicyStep
    <3> QED BY <1>2, <3>1, <3>3, <3>4, <3>5, <3>6
  <2>4. CASE Holds(b) /\ Holds(p)
    BY <1>2, <1>5, <2>4, HardStep
  <2> QED BY <2>2, <2>3, <2>4
<1>6. \A p \in Policies : p.kind \in LifecycleKinds \/ p.kind = "BRACKET"
                            => p.kind # "PLAIN_TIME"
  BY DEF LifecycleKinds
<1>7. Ordered'
  BY <1>4, <1>5, <1>6 DEF Ordered, Holds
<1>8. HardExitsAreImmutable'
  BY <1>5 DEF HardExitsAreImmutable
<1>9. Trailing'
  <2> SUFFICES ASSUME NEW p \in Policies, p.kind = "TRAIL", result'[p] = None
               PROVE  /\ level'[p] # None =>
                            /\ last' # None /\ highest' >= EntryPrice + p.activation
                            /\ level'[p] = highest' - p.amount
                      /\ level'[p] = None => highest' < EntryPrice + p.activation
    BY DEF Trailing, Holds
  <2>1. Holds(p)
    BY <1>2, <1>3
  <2>2. FixedExit(p, bar) = "NONE"
    <3>1. Reason(p, level[p], bar) = "NONE"
      BY <1>2, <2>1, PolicyStep
    <3> QED BY <3>1 DEF Reason
  <2>3. level'[p] = LevelAfter(p, level[p], bar) /\ highest' = NewHigh(bar) /\ last' = bar
    BY <2>1, <2>2 DEF NextBar, Holds
  <2>4. bar # None
    BY PathGrows, NoneAssumption
  <2> QED BY <2>1, <2>3, <2>4, TrailStep
<1> QED BY <1>1, <1>7, <1>8, <1>9 DEF IInv

LEMMA EndStep ==
    ASSUME IInv, EndSession
    PROVE  IInv'
<1> DEFINE Closing == [at |-> last.end, reason |-> "EOD", price |-> last.close,
                       high |-> highest, low |-> lowest]
<1>1. \A p \in Policies :
         result'[p] = IF Holds(p) /\ last # None /\ p.kind # "PLAIN_TIME"
                        THEN Closing ELSE result[p]
  BY DEF EndSession, Holds
<1>2. UNCHANGED <<now, last, highest, lowest, level>> /\ over' = TRUE
  BY DEF EndSession
<1>3. last # None => /\ Closing \in Result /\ Closing.at = now
                     /\ ~IsHard(Closing)
  <2> SUFFICES ASSUME last # None
               PROVE  /\ Closing \in Result /\ Closing.at = now
                       /\ ~IsHard(Closing)
    OBVIOUS
  <2>1. /\ last.end \in Int /\ last.close \in Int /\ highest \in Int /\ lowest \in Int
        /\ last.end = now
    BY DEF IInv, PathOK, SomeBar
  <2>2. Closing \in Result
    BY <2>1 DEF Result
  <2> QED BY <2>1, <2>2 DEF IsHard
<1>4. None \notin Result
  BY NoneAssumption
<1> HIDE DEF Closing
<1>5. PathOK'
  <2>1. result' \in [Policies -> Result \cup {None}]
    <3>1. \A p \in Policies : result'[p] \in Result \cup {None}
      BY <1>1, <1>3 DEF IInv, PathOK
    <3>2. result' = [p \in Policies |-> result'[p]]
      BY DEF EndSession
    <3> QED BY <3>1, <3>2
  <2> QED BY <1>2, <2>1 DEF IInv, PathOK
<1>6. \A p \in Policies : result[p] # None => result[p] \in Result /\ result[p].at <= now
                                               /\ result'[p] = result[p]
  BY <1>1 DEF IInv, PathOK, Ordered, Holds
<1>7. \A p \in Policies : result'[p] # None => result'[p].at <= now'
  BY <1>1, <1>2, <1>3, <1>6 DEF Holds, IInv, PathOK
<1>8. ASSUME NEW b \in Baselines, NEW p \in Policies, p.kind # "PLAIN_TIME"
      PROVE  /\ result'[p] = None => result'[b] = None
             /\ p.kind \in LifecycleKinds /\ result'[p] # None /\ IsHard(result'[p])
                   => result'[p] = result'[b]
             /\ p.kind = "BRACKET" /\ p.stop = HardStop /\ p.target = HardTarget
                   => result'[p] = result'[b]
             /\ result'[b] # None =>
                   /\ result'[p].at <= result'[b].at
                   /\ IsHard(result'[b]) /\ result'[p].at = result'[b].at
                        /\ p.kind \in LifecycleKinds => result'[p] = result'[b]
  <2>1. b \in Policies /\ b.kind # "PLAIN_TIME"
    BY DEF Baselines
  <2>2. CASE last = None
    <3>1. result'[p] = result[p] /\ result'[b] = result[b]
      BY <1>1, <2>1, <2>2
    <3> QED BY <1>8, <3>1 DEF IInv, Ordered, HardExitsAreImmutable, Holds
  <2>3. CASE ~Holds(b)
    <3>1. ~Holds(p)
      BY <1>8, <2>3 DEF IInv, Ordered
    <3>2. result'[p] = result[p] /\ result'[b] = result[b]
      BY <1>6, <2>1, <2>3, <3>1 DEF Holds
    <3> QED BY <1>8, <3>1, <3>2 DEF IInv, Ordered, HardExitsAreImmutable, Holds
  <2>4. CASE last # None /\ Holds(b) /\ ~Holds(p)
    <3>1. result'[p] = result[p] /\ result[p] # None /\ result[p].at <= now /\ result[b] = None
      BY <1>6, <2>4 DEF Holds
    <3>2. result'[b] = Closing
      BY <1>1, <2>1, <2>4
    <3>3. ~(p.kind \in LifecycleKinds /\ IsHard(result[p]))
      BY <2>4, <3>1 DEF IInv, Ordered
    <3>4. ~(p.kind = "BRACKET" /\ p.stop = HardStop /\ p.target = HardTarget)
      BY <3>1 DEF IInv, Ordered
    <3> QED BY <1>3, <1>4, <2>4, <3>1, <3>2, <3>3, <3>4
  <2>5. CASE last # None /\ Holds(b) /\ Holds(p)
    <3>1. result'[p] = Closing /\ result'[b] = Closing
      BY <1>1, <1>8, <2>1, <2>5
    <3>2. Closing.at \in Int
      BY <1>3, <2>5 DEF Result
    <3> QED BY <1>3, <1>4, <2>5, <3>1, <3>2
  <2> QED BY <2>2, <2>3, <2>4, <2>5
<1>9. \A p \in Policies : p.kind \in LifecycleKinds \/ p.kind = "BRACKET"
                            => p.kind # "PLAIN_TIME"
  BY DEF LifecycleKinds
<1>10. Ordered'
  BY <1>7, <1>8, <1>9 DEF Ordered, Holds
<1>11. HardExitsAreImmutable'
  BY <1>8 DEF HardExitsAreImmutable
<1>12. Trailing'
  BY <1>1, <1>2, <1>3, <1>4 DEF Trailing, IInv, Holds
<1> QED BY <1>5, <1>10, <1>11, <1>12 DEF IInv

(* The path, the order of the exits and the two properties hold together.  *)
THEOREM Invariance == Spec => []IInv
<1>1. Init => IInv
  BY Initially
<1>2. IInv /\ [Next]_vars => IInv'
  <2> SUFFICES ASSUME IInv, [Next]_vars PROVE IInv'
    OBVIOUS
  <2>1. CASE EndSession
    BY <2>1, EndStep
  <2>2. CASE \E bar \in SessionBars : NextBar(bar)
    BY <2>2, BarStep
  <2>3. CASE UNCHANGED vars
    BY <2>3 DEF vars, IInv, PathOK, Ordered, Holds, HardExitsAreImmutable, Trailing,
                IsHard
  <2> QED BY <2>1, <2>2, <2>3 DEF Next
<1> QED BY <1>1, <1>2, PTL DEF Spec

(* HardExitsAreImmutable: whatever the policies of a study are, none sells *)
(* later, or on other terms, than its hard levels do.                      *)
THEOREM HardExitsHold == Spec => []HardExitsAreImmutable
<1>1. IInv => HardExitsAreImmutable
  BY DEF IInv
<1> QED BY <1>1, Invariance, PTL

(* FillsAreOfTheBar: outside the range of its bar no study fills anything  *)
(* but a target below and an older level or a stop above, and a trailing   *)
(* stop sells at its distance from the best price since the entry.         *)
THEOREM FillsFit == Spec => FillsAreOfTheBar
<1> DEFINE Fits(p) ==
      (result[p] = None /\ result'[p] # None) =>
         /\ result'[p].price < last'.low => result'[p].reason = "TARGET"
         /\ result'[p].price > last'.high =>
               result'[p].reason = "STOP" \/ result'[p].price = level[p]
         /\ result'[p].reason = "TRAIL" => result'[p].price = result'[p].high - p.amount
<1>1. ASSUME IInv, NEW bar \in SessionBars, NextBar(bar), NEW p \in Policies PROVE Fits(p)
  <2> SUFFICES ASSUME result[p] = None, result'[p] # None PROVE Fits(p)
    OBVIOUS
  <2>1. Holds(p) /\ last' = bar /\ level[p] \in Int \cup {None} /\ bar \in SomeBar
    BY <1>1, PathGrows DEF Holds, NextBar, IInv, PathOK
  <2>2. /\ Reason(p, level[p], bar) # "NONE"
        /\ result'[p].reason = Reason(p, level[p], bar)
        /\ result'[p].price = ExitPrice(p, level[p], bar) /\ result'[p].high = NewHigh(bar)
    <3>1. /\ Reason(p, level[p], bar) = "NONE" => result'[p] = None
          /\ Reason(p, level[p], bar) # "NONE" =>
                result'[p] = [at |-> bar.end, reason |-> Reason(p, level[p], bar),
                              price |-> ExitPrice(p, level[p], bar),
                              high |-> NewHigh(bar), low |-> NewLow(bar)]
      BY <1>1, <2>1, PolicyStep
    <3> QED BY <3>1
  <2>3. /\ result'[p].price < last'.low => result'[p].reason = "TARGET"
        /\ result'[p].price > last'.high =>
              result'[p].reason = "STOP" \/ result'[p].price = level[p]
    BY <1>1, <2>1, <2>2, FillIsOfTheBar
  <2>4. ASSUME result'[p].reason = "TRAIL"
        PROVE  result'[p].price = result'[p].high - p.amount
    <3>1. /\ level[p] # None /\ p.kind = "TRAIL"
          /\ ExitPrice(p, level[p], bar) = LevelAfter(p, level[p], bar)
      <4>1. Reason(p, level[p], bar) = "TRAIL"
        BY <2>2, <2>4
      <4> QED BY <2>1, <4>1, PriceType
    <3>2. LevelAfter(p, level[p], bar) # None
      BY <1>1, <2>1, <3>1, LevelType, NoneAssumption
    <3> QED BY <1>1, <2>1, <2>2, <3>1, <3>2, TrailStep
  <2> QED BY <2>3, <2>4
<1>2. ASSUME IInv, EndSession, NEW p \in Policies PROVE Fits(p)
  <2> SUFFICES ASSUME result[p] = None, result'[p] # None PROVE Fits(p)
    OBVIOUS
  <2>1. /\ result'[p].price = last.close /\ result'[p].reason = "EOD"
        /\ last # None /\ last' = last
    BY <1>2 DEF EndSession
  <2>2. /\ last.low <= last.close /\ last.close <= last.high
        /\ {last.low, last.close, last.high} \subseteq Int
    BY <1>2, <2>1 DEF IInv, PathOK, SomeBar
  <2> QED BY <2>1, <2>2
<1>3. IInv /\ [Next]_vars => [\A p \in Policies : Fits(p)]_vars
  <2> SUFFICES ASSUME IInv, Next PROVE \A p \in Policies : Fits(p)
    OBVIOUS
  <2> HIDE DEF Fits
  <2> QED BY <1>1, <1>2 DEF Next
<1>4. [\A p \in Policies : Fits(p)]_vars =>
         [\A p \in Policies : (result[p] = None /\ result'[p] # None) =>
             /\ result'[p].price < last'.low => result'[p].reason = "TARGET"
             /\ result'[p].price > last'.high =>
                   result'[p].reason = "STOP" \/ result'[p].price = level[p]
             /\ result'[p].reason = "TRAIL" =>
                   result'[p].price = result'[p].high - p.amount]_vars
  OBVIOUS
<1> HIDE DEF Fits
<1> QED BY <1>3, <1>4, Invariance, PTL DEF Spec, FillsAreOfTheBar
=============================================================================
