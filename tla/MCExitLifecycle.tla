-------------------------- MODULE MCExitLifecycle --------------------------
(* Three bars at most, with prices from below the stop to above the target, *)
(* and a policy of every kind; of brackets the one with the hard levels and *)
(* one that is tighter.                                                     *)
EXTENDS ExitLifecycle

P(kind, stop, target, activation, amount, minutes) ==
    [kind |-> kind, stop |-> stop, target |-> target, activation |-> activation,
     amount |-> amount, minutes |-> minutes]

MCPolicies ==
    {P("EOD", 7, 14, 0, 0, 0), P("TIME", 7, 14, 0, 0, 2), P("PLAIN_TIME", 7, 14, 0, 0, 2),
     P("PROTECT", 7, 14, 2, 0, 0), P("PROTECT", 7, 14, 3, 1, 0), P("TRAIL", 7, 14, 2, 1, 0),
     P("BRACKET", 7, 14, 0, 0, 0), P("BRACKET", 8, 12, 0, 0, 0)}
=============================================================================
