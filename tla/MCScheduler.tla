---------------------------- MODULE MCScheduler -----------------------------
(***************************************************************************)
(* Small instances of the scheduler for TLC.                               *)
(***************************************************************************)
EXTENDS SchedulerRefinement

CONSTANTS t1, t2

Daily(times) ==
    <<[type |-> "ExactTimes", days_of_week |-> {}, days_of_month |-> {}, exact_times |-> times,
       start_time |-> Absent, end_time |-> Absent, repeat_interval |-> Absent,
       repeat_until |-> Absent, start_date |-> Absent, end_date |-> Absent,
       specific_dates |-> {}]>>

(* Open in every minute, at each of its ticks.                             *)
Always ==
    <<[type |-> "Interval", days_of_week |-> {}, days_of_month |-> {}, exact_times |-> {},
       start_time |-> 0, end_time |-> MinutesPerDay - 1, repeat_interval |-> 1,
       repeat_until |-> Absent, start_date |-> Absent, end_date |-> Absent,
       specific_dates |-> {}]>>

Both(v) == [t \in Tasks |-> v]
Each(v, w) == [t \in Tasks |-> IF t = t1 THEN v ELSE w]

WaitNext == Both("WaitNext")
WaitComplete == Both("WaitComplete")
StartAnother == Both("StartAnother")
Mixed == Each("WaitNext", "WaitComplete")

AtZero == Both(Daily({0}))
EveryMinute == Both(Daily(MinutesOfDay))
EveryMinuteOrTick == Each(Daily(MinutesOfDay), Always)

NoTimeout == Both(None)
ZeroMinutes == Both(0)
OneMinute == Both(1)

Kills == Both(TRUE)
Spares == Both(FALSE)
=============================================================================
