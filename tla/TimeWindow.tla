----------------------------- MODULE TimeWindow -----------------------------
(***************************************************************************)
(* The time windows (triggers) of WinSheduler: the record the scheduler    *)
(* reads from the table time_windows and the decision is_in_window makes   *)
(* about it (scheduler.cpp).  Times of day are minutes since midnight: the *)
(* strings "HH:MM" are read by time_to_minutes, whose only effect is that  *)
(* number.  A moment is a record with the fields is_in_window looks at:    *)
(* the minute of the day, the day of the week (0 is Sunday) and the day of *)
(* the month; "day" (the calendar day) is there for the documented dates,  *)
(* which the code does not look at.                                        *)
(***************************************************************************)
EXTENDS Integers

CONSTANTS
    Absent,         \* the value of an optional field that is not set
    MinutesPerDay   \* 1440 in the code; smaller in the model-checked instances

ASSUME DayAssumption == MinutesPerDay \in Nat \ {0}

MinutesOfDay == 0..(MinutesPerDay - 1)

Optional(S) == S \cup {Absent}

(***************************************************************************)
(* time_windows as is_in_window sees it.  Each empty set of days stands    *)
(* for the empty vector, which filters nothing.  The repeat interval is    *)
(* any integer but 0: the code divides by it, and 0 is undefined           *)
(* behaviour.                                                              *)
(***************************************************************************)
WindowType(Times) ==
    [type            : {"ExactTimes", "Interval"},
     days_of_week    : SUBSET (0..6),
     days_of_month   : SUBSET (1..31),
     exact_times     : SUBSET Times,
     start_time      : Optional(Times),
     end_time        : Optional(Times),
     repeat_interval : Optional(Int \ {0}),
     repeat_until    : Optional(Times),
     start_date      : Optional(Nat),
     end_date        : Optional(Nat),
     specific_dates  : SUBSET Nat]

Moment == [minute : MinutesOfDay, dow : 0..6, dom : 1..31, day : Nat]

(* elapsed % repeat_interval < 1, with an elapsed time that is never       *)
(* negative: in C the sign of the divisor does not matter.                 *)
Divides(interval, elapsed) ==
    elapsed % (IF interval < 0 THEN -interval ELSE interval) < 1

DayMatches(w, now) ==
    /\ w.days_of_week # {} => now.dow \in w.days_of_week
    /\ w.days_of_month # {} => now.dom \in w.days_of_month

(* A mutation: the interval counted from midnight.                         *)
IntervalMatchesUnanchored(w, now) ==
    /\ Absent \notin {w.start_time, w.end_time, w.repeat_interval}
    /\ now.minute \in w.start_time..w.end_time
    /\ w.repeat_until # Absent => now.minute <= w.repeat_until
    /\ Divides(w.repeat_interval, now.minute)

IntervalMatches(w, now) ==
    /\ Absent \notin {w.start_time, w.end_time, w.repeat_interval}
    /\ now.minute \in w.start_time..w.end_time
    /\ w.repeat_until # Absent => now.minute <= w.repeat_until
    /\ Divides(w.repeat_interval, now.minute - w.start_time)

(* abs(now - exact) < 1, in whole minutes.                                 *)
ExactMatches(w, now) == now.minute \in w.exact_times

(* is_in_window: the start and end dates and the specific dates have no    *)
(* part in it (the date comparison is announced by a comment and absent).  *)
IsInWindow(w, now) ==
    /\ DayMatches(w, now)
    /\ IF w.type = "ExactTimes" THEN ExactMatches(w, now)
                                ELSE IntervalMatches(w, now)
=============================================================================
