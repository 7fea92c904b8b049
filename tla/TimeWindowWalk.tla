--------------------------- MODULE TimeWindowWalk ---------------------------
(***************************************************************************)
(* Walks the clock minute by minute over a few days, under a window chosen *)
(* at the start, and collects the minutes of the current day at which      *)
(* is_in_window said yes.                                                  *)
(***************************************************************************)
EXTENDS TimeWindow, FiniteSetsExt

CONSTANTS
    Days,      \* how many days the walk lasts
    Windows    \* the windows it may be taken under

(* A time of day may be any number: nothing checks the strings "HH:MM".    *)
ASSUME WalkAssumption ==
    /\ Days \in Nat \ {0}
    /\ Windows \subseteq WindowType(Int)

VARIABLES
    window,   \* the window under test, fixed in Init
    clock,    \* minutes since the first midnight
    fired     \* minutes of the current day at which the window was open

vars == <<window, clock, fired>>

(* The calendar of the walk: it starts on a Sunday, the first of a month.  *)
At(c) ==
    LET day == c \div MinutesPerDay
    IN  [minute |-> c % MinutesPerDay, dow |-> day % 7, dom |-> 1 + (day % 31), day |-> day]

Observe(w, c) == IF IsInWindow(w, At(c)) THEN {At(c).minute} ELSE {}

Init ==
    /\ window \in Windows
    /\ clock = 0
    /\ fired = Observe(window, 0)

(* After the last day the walk starts over.                                *)
NextMinute ==
    /\ clock' = (clock + 1) % (Days * MinutesPerDay)
    /\ fired' = (IF At(clock').minute = 0 THEN {} ELSE fired) \cup Observe(window, clock')
    /\ UNCHANGED window

Spec == Init /\ [][NextMinute]_vars
-----------------------------------------------------------------------------
(* The minutes at which an interval should run: start_time and then every  *)
(* repeat_interval minutes, up to the earlier of end_time and repeat_until.*)
Grid(w) ==
    LET step == IF w.repeat_interval < 0 THEN -w.repeat_interval ELSE w.repeat_interval
        end  == Min({w.end_time} \cup ({w.repeat_until} \ {Absent}))
    IN  {m \in MinutesOfDay : \E k \in 0..(m - w.start_time) :
            m = w.start_time + k * step /\ m <= end}

(* On a day its filters admit, an interval window has been open at every   *)
(* minute of its grid so far and at no other minute; one that lacks a      *)
(* field, or ends before it starts, never opens.                           *)
IntervalFiresOnItsGrid ==
    (window.type = "Interval" /\ DayMatches(window, At(clock))) =>
        fired = IF Absent \in {window.start_time, window.end_time, window.repeat_interval}
                THEN {} ELSE Grid(window) \cap 0..At(clock).minute
=============================================================================
