------------------------------ MODULE Session ------------------------------
(***************************************************************************)
(* The exchange calendar and trading session of nse_paper_agent: what      *)
(* session.py (SessionGuard) and data/calendar.py (TradingCalendar) answer *)
(* for an instant.  An instant is a number of clock ticks; day d is the    *)
(* ticks d * DayLength .. (d + 1) * DayLength - 1, all of them in IST, the *)
(* zone every decision of SessionGuard is made in.                         *)
(***************************************************************************)
EXTENDS Integers

CONSTANTS
    DayLength,       \* ticks in a calendar day
    PreOpen,         \* session.pre_open, a tick of the day
    Open,            \* session.open
    EntryCutoff,     \* session.entry_cutoff
    Close,           \* session.close
    TradingDays,     \* the days that are neither a weekend nor a holiday
    SpecialSessions  \* function from some days to [open, close]

(* SessionGuard.__init__ rejects times that are out of order.              *)
TimesAreInOrder ==
    /\ {PreOpen, Open, EntryCutoff, Close} \subseteq Nat
    /\ PreOpen <= Open /\ Open <= EntryCutoff /\ EntryCutoff <= Close

ASSUME SessionAssumption ==
    /\ DayLength \in Nat \ {0}
    /\ TimesAreInOrder
    /\ \A d \in DOMAIN SpecialSessions :
          SpecialSessions[d] \in [open : Nat, close : Nat]

SessionStates == {"CLOSED", "PRE_OPEN", "OPEN", "ENTRY_CUTOFF", "EOD"}

Date(t) == t \div DayLength
TimeOfDay(t) == t % DayLength

(* TradingCalendar.session_window: the special session of that date, or    *)
(* the regular one.                                                        *)
SessionWindow(d) ==
    IF d \in DOMAIN SpecialSessions
      THEN SpecialSessions[d]
      ELSE [open |-> Open, close |-> Close]

Earlier(a, b) == IF a <= b THEN a ELSE b

StateIn_IgnoresSpecialClose(w, t) ==
    CASE t < w.open /\ t < PreOpen -> "CLOSED"
      [] t < w.open /\ t >= PreOpen -> "PRE_OPEN"
      [] t >= w.open /\ t < EntryCutoff -> "OPEN"
      [] t >= w.open /\ t >= EntryCutoff /\ t < w.close -> "ENTRY_CUTOFF"
      [] OTHER -> "EOD"

(* SessionGuard.state at time of day t in session window w.                *)
StateIn(w, t) ==
    CASE t < w.open /\ t < PreOpen -> "CLOSED"
      [] t < w.open /\ t >= PreOpen -> "PRE_OPEN"
      [] t >= w.open /\ t < Earlier(EntryCutoff, w.close) -> "OPEN"
      [] t >= w.open /\ t >= Earlier(EntryCutoff, w.close) /\ t < w.close
           -> "ENTRY_CUTOFF"
      [] OTHER -> "EOD"

SessionState(t) ==
    IF Date(t) \notin TradingDays
      THEN "CLOSED"
      ELSE StateIn(SessionWindow(Date(t)), TimeOfDay(t))

(* SessionGuard.snapshot: what a cycle that starts at t may do.            *)
EntriesAllowed(t) == SessionState(t) = "OPEN"
ExitsAllowed_UntilClose(t) == SessionState(t) \in {"OPEN", "ENTRY_CUTOFF"}
ExitsAllowed(t) == SessionState(t) \in {"OPEN", "ENTRY_CUTOFF", "EOD"}
=============================================================================
