----------------------------- MODULE RaceToWrite -----------------------------
(***************************************************************************)
(* What research/production.py promises of the production identity: a      *)
(* register that is empty at first and that only those ever write who found*)
(* it empty, each of them once.  When the last of them is through, it is   *)
(* settled for good.                                                       *)
(***************************************************************************)
CONSTANTS Writers, Values, Empty

VARIABLES
    value,
    racing           \* the writers that found it empty and are not through

Init == value = Empty /\ racing = {}

FindEmpty(w) ==
    /\ value = Empty
    /\ racing' = racing \cup {w} /\ UNCHANGED value

Write(w, v) ==
    /\ w \in racing
    /\ racing' = racing \ {w} /\ value' = v

GiveUp(w) ==
    /\ w \in racing
    /\ racing' = racing \ {w} /\ UNCHANGED value

Next == \E w \in Writers :
    FindEmpty(w) \/ GiveUp(w) \/ \E v \in Values : Write(w, v)

Spec == Init /\ [][Next]_<<value, racing>>
=============================================================================
