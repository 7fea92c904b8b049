---------------------------- MODULE MCTimeWindow ----------------------------
(***************************************************************************)
(* The windows of the walk for TLC.                                        *)
(***************************************************************************)
EXTENDS TimeWindowWalk

(* (7, 3) is a range over midnight, (5, 5) a single minute, (-3, 12) one   *)
(* that leaves the day on both sides.                                      *)
Interval ==
    {[type |-> "Interval", days_of_week |-> dow, days_of_month |-> {},
      exact_times |-> {}, start_time |-> range[1], end_time |-> range[2],
      repeat_interval |-> every, repeat_until |-> until,
      start_date |-> Absent, end_date |-> Absent, specific_dates |-> {}]
     : dow \in {{}, {1}},
       range \in {<<0, 11>>, <<2, 9>>, <<7, 3>>, <<5, 5>>, <<-3, 12>>, <<Absent, 9>>, <<2, Absent>>},
       every \in {1, 3, 5, -2, Absent}, until \in {Absent, 4, 9}}
=============================================================================
