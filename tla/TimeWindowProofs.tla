-------------------------- MODULE TimeWindowProofs --------------------------
(***************************************************************************)
(* When a time window is open, for every window the code can read, every   *)
(* length of the day and every number of days.                             *)
(***************************************************************************)
EXTENDS TimeWindowWalk, TLAPS

(* Division with a remainder,                                              *)
Divided(a, d, q, r) == q \in Int /\ r \in 0..(d - 1) /\ a = d * q + r

(* which has one result,                                                   *)
LEMMA DivisionUnique ==
    ASSUME NEW d \in Nat \ {0}, NEW a \in Int, NEW q, NEW r, NEW p, NEW s,
           Divided(a, d, q, r), Divided(a, d, p, s)
    PROVE  q = p /\ r = s
<1> USE DEF Divided
<1>1. d * (q - p) = s - r
  BY SMT
<1>2. CASE q - p >= 1
  <2>1. d * (q - p) >= d
    BY <1>2, SMTT(30)
  <2> QED
    BY <1>1, <2>1
<1>3. CASE q - p <= -1
  <2>1. d * (q - p) <= -d
    BY <1>3, SMTT(30)
  <2> QED
    BY <1>1, <2>1
<1> QED
  BY <1>1, <1>2, <1>3

(* the quotient and the remainder.                                         *)
LEMMA Division ==
    ASSUME NEW d \in Nat \ {0}, NEW a \in Int
    PROVE  Divided(a, d, a \div d, a % d)
<1>1. a \div d \in Int /\ a % d \in 0..(d - 1)
  BY SMT
<1>2. a % d = a - d * (a \div d)
  BY SMTT(30)
<1> QED
  BY <1>1, <1>2 DEF Divided

(* The minute after a minute of the day is the next one of the same day,   *)
(* or the first of another.                                                *)
LEMMA NextMinuteOfDay ==
    ASSUME NEW d \in Nat \ {0}, NEW c \in Nat
    PROVE  \/ (c + 1) % d = 0
           \/ (c + 1) % d = (c % d) + 1 /\ (c + 1) \div d = c \div d
<1> DEFINE q == c \div d
           r == c % d
<1>1. PICK n \in Nat : n = c + 1
  OBVIOUS
<1>2. Divided(c, d, q, r) /\ Divided(n, d, n \div d, n % d)
  BY Division
<1> HIDE DEF q, r
<1>3. CASE r + 1 < d
  <2>1. PICK m : m = r + 1 /\ Divided(n, d, q, m)
    BY <1>1, <1>2, <1>3 DEF Divided
  <2>2. n \div d = q /\ n % d = m
    BY <1>2, <2>1, DivisionUnique
  <2> QED
    BY <1>1, <2>1, <2>2 DEF q, r
<1>4. CASE r + 1 = d
  <2>1. PICK p \in Int : p = q + 1
    BY <1>2 DEF Divided
  <2>2. n = d * p + 0
    BY <1>1, <1>2, <1>4, <2>1, SMT DEF Divided
  <2>3. Divided(n, d, p, 0)
    BY <2>1, <2>2 DEF Divided
  <2>4. n % d = 0
    BY <1>2, <2>3, DivisionUnique
  <2> QED
    BY <1>1, <2>4
<1> QED
  BY <1>2, <1>3, <1>4 DEF Divided

(* The remainder is 0 for the multiples of the divisor alone.              *)
LEMMA DividesMultiples ==
    ASSUME NEW interval \in Int \ {0}, NEW elapsed \in Nat
    PROVE  LET step == IF interval < 0 THEN -interval ELSE interval
           IN  Divides(interval, elapsed) <=> \E k \in 0..elapsed : elapsed = k * step
<1> DEFINE step == IF interval < 0 THEN -interval ELSE interval
<1>1. step \in Nat \ {0}
  OBVIOUS
<1>2. Divides(interval, elapsed) <=> elapsed % step < 1
  BY DEF Divides
<1> HIDE DEF step
<1>3. Divided(elapsed, step, elapsed \div step, elapsed % step)
  BY <1>1, Division
<1>4. ASSUME elapsed % step < 1 PROVE \E k \in 0..elapsed : elapsed = k * step
  <2>1. PICK k \in Int : elapsed = step * k
    BY <1>1, <1>3, <1>4 DEF Divided
  <2>2. k >= 0
    BY <1>1, <2>1, SMTT(30)
  <2>3. k <= step * k
    BY <1>1, <2>1, <2>2, SMTT(30)
  <2>4. k \in 0..elapsed /\ elapsed = k * step
    BY <1>1, <2>1, <2>2, <2>3, SMT
  <2> QED
    BY <2>4
<1>5. ASSUME NEW k \in 0..elapsed, elapsed = k * step PROVE elapsed % step < 1
  <2>1. Divided(elapsed, step, k, 0)
    BY <1>1, <1>5, SMT DEF Divided
  <2>2. elapsed % step = 0
    BY <1>1, <1>3, <2>1, DivisionUnique
  <2> QED
    BY <2>2
<1> QED
  BY <1>2, <1>4, <1>5 DEF step

(* The earlier of the end and, if it is there, the time until which to     *)
(* repeat.                                                                 *)
LEMMA EarlierEnd ==
    ASSUME NEW end \in Int, NEW until \in Optional(Int), NEW m \in Int
    PROVE  m <= Min({end} \cup ({until} \ {Absent})) <=>
              m <= end /\ (until # Absent => m <= until)
<1> DEFINE S == {end} \cup ({until} \ {Absent})
<1>1. \E x \in S : \A y \in S : x <= y
  BY DEF Optional
<1>2. Min(S) \in S /\ \A y \in S : Min(S) <= y
  BY <1>1 DEF Min
<1>3. S \subseteq Int
  BY DEF Optional
<1> QED
  BY <1>2, <1>3
-----------------------------------------------------------------------------
(***************************************************************************)
(* The walk.  On the day the clock shows, the minutes collected so far are *)
(* those up to the clock's at which the window is open.                    *)
(***************************************************************************)
OpenAt(m) == IsInWindow(window, [At(clock) EXCEPT !.minute = m])

Collected ==
    /\ window \in Windows
    /\ clock \in 0..(Days * MinutesPerDay - 1)
    /\ fired = {m \in MinutesOfDay : m <= At(clock).minute /\ OpenAt(m)}

(* The clock shows a minute of the day, at first midnight.                 *)
LEMMA ClockTyped ==
    ASSUME NEW c \in Nat
    PROVE  At(c).minute \in MinutesOfDay /\ (c = 0 => At(c).minute = 0)
<1>1. Divided(c, MinutesPerDay, c \div MinutesPerDay, c % MinutesPerDay)
  BY DayAssumption, Division
<1>2. ASSUME c = 0 PROVE c % MinutesPerDay = 0
  <2>1. Divided(c, MinutesPerDay, 0, 0)
    BY DayAssumption, <1>2, SMT DEF Divided
  <2> QED
    BY DayAssumption, <1>1, <2>1, DivisionUnique
<1> QED
  BY <1>1, <1>2 DEF Divided, At, MinutesOfDay

(* The clock goes on by a minute of the same day, or to another day.       *)
LEMMA ClockStep ==
    ASSUME Collected, NextMinute
    PROVE  /\ clock' \in 0..(Days * MinutesPerDay - 1)
           /\ \/ At(clock').minute = 0
              \/ /\ At(clock').minute = At(clock).minute + 1
                 /\ \A m : [At(clock') EXCEPT !.minute = m] = [At(clock) EXCEPT !.minute = m]
<1> DEFINE lap == Days * MinutesPerDay
<1>1. lap \in Nat \ {0}
  BY DayAssumption, WalkAssumption, SMTT(30)
<1>2. clock \in 0..(lap - 1) /\ clock' = (clock + 1) % lap
  BY DEF NextMinute, Collected
<1> HIDE DEF lap
<1>3. PICK next \in Nat : next = clock + 1 /\ clock' = next % lap
  BY <1>1, <1>2
<1>4. Divided(next, lap, next \div lap, next % lap)
  BY <1>1, Division
<1>5. clock' \in 0..(lap - 1)
  BY <1>3, <1>4 DEF Divided
<1>6. CASE next = lap
  <2>1. Divided(next, lap, 1, 0)
    BY <1>1, <1>6, SMT DEF Divided
  <2>2. clock' = 0
    BY <1>1, <1>3, <1>4, <2>1, DivisionUnique
  <2>3. At(clock').minute = 0
    BY <2>2, ClockTyped
  <2> QED
    BY <1>5, <2>3 DEF lap
<1>7. CASE next # lap
  <2>1. Divided(next, lap, 0, next)
    BY <1>1, <1>2, <1>3, <1>7, SMT DEF Divided
  <2>2. clock' = clock + 1 /\ clock \in Nat
    BY <1>1, <1>2, <1>3, <1>4, <2>1, DivisionUnique
  <2>3. \/ (clock + 1) % MinutesPerDay = 0
        \/ /\ (clock + 1) % MinutesPerDay = (clock % MinutesPerDay) + 1
           /\ (clock + 1) \div MinutesPerDay = clock \div MinutesPerDay
    BY <2>2, DayAssumption, NextMinuteOfDay
  <2> QED
    BY <1>5, <2>2, <2>3 DEF At, lap
<1> QED
  BY <1>6, <1>7

(* Initially nothing is collected but the first minute.                    *)
LEMMA CollectedInit == Init => Collected
<1> SUFFICES ASSUME Init PROVE Collected
  OBVIOUS
<1>1. clock = 0 /\ window \in Windows /\ fired = Observe(window, 0) /\ At(0).minute = 0
  BY ClockTyped DEF Init
<1>2. At(0) = [At(0) EXCEPT !.minute = 0]
  BY <1>1 DEF At
<1>3. 0 \in MinutesOfDay /\ \A m \in MinutesOfDay : m <= 0 => m = 0
  BY DayAssumption DEF MinutesOfDay
<1>4. 0 \in 0..(Days * MinutesPerDay - 1)
  <2>1. Days * MinutesPerDay >= 1 /\ Days * MinutesPerDay \in Nat
    BY DayAssumption, WalkAssumption, SMTT(30)
  <2> QED
    BY <2>1
<1>5. fired = {m \in MinutesOfDay : m <= At(clock).minute /\ OpenAt(m)}
  BY <1>1, <1>2, <1>3 DEF Observe, OpenAt
<1> QED
  BY <1>1, <1>4, <1>5 DEF Collected

(* A minute of the same day is added to what was collected, the first one  *)
(* of another day to nothing.                                              *)
LEMMA CollectedStep == Collected /\ [NextMinute]_vars => Collected'
<1> SUFFICES ASSUME Collected, NextMinute PROVE Collected'
  BY DEF Collected, OpenAt, vars
<1> DEFINE now == At(clock')
<1>1. /\ window' = window /\ window \in Windows /\ clock \in Nat
      /\ fired = {m \in MinutesOfDay : m <= At(clock).minute /\ OpenAt(m)}
      /\ fired' = (IF now.minute = 0 THEN {} ELSE fired) \cup Observe(window, clock')
  BY DEF NextMinute, Collected
<1>2. clock' \in 0..(Days * MinutesPerDay - 1) /\ clock' \in Nat
  BY ClockStep
<1>3. now.minute \in MinutesOfDay /\ At(clock).minute \in MinutesOfDay
  BY <1>1, <1>2, ClockTyped
<1>4. MinutesOfDay \subseteq Nat
  BY DEF MinutesOfDay
<1>5. Observe(window, clock') = {m \in MinutesOfDay : m = now.minute /\ OpenAt(m)'}
  <2>1. now = [now EXCEPT !.minute = now.minute]
    BY DEF At
  <2> QED
    BY <1>1, <1>3, <2>1 DEF Observe, OpenAt
<1>6. CASE now.minute = 0
  <2>1. \A m \in MinutesOfDay : m <= now.minute <=> m = now.minute
    BY <1>4, <1>6
  <2>2. fired' = {m \in MinutesOfDay : m <= now.minute /\ OpenAt(m)'}
    BY <1>1, <1>5, <1>6, <2>1
  <2> QED
    BY <1>1, <1>2, <2>2 DEF Collected
<1>7. CASE now.minute # 0
  <2>1. /\ now.minute = At(clock).minute + 1
        /\ \A m : [now EXCEPT !.minute = m] = [At(clock) EXCEPT !.minute = m]
    BY <1>7, ClockStep
  <2>2. \A m : OpenAt(m)' <=> OpenAt(m)
    BY <1>1, <2>1 DEF OpenAt
  <2>3. \A m \in MinutesOfDay :
            m <= now.minute <=> m <= At(clock).minute \/ m = now.minute
    BY <1>3, <1>4, <2>1
  <2>4. fired' = {m \in MinutesOfDay : m <= now.minute /\ OpenAt(m)'}
    BY <1>1, <1>5, <1>7, <2>2, <2>3
  <2> QED
    BY <1>1, <1>2, <2>4 DEF Collected
<1> QED
  BY <1>6, <1>7

(* The walk collects what it should.                                       *)
LEMMA AlwaysCollected == Spec => []Collected
BY CollectedInit, CollectedStep, PTL DEF Spec
-----------------------------------------------------------------------------
(* What is open, by the window's type.                                     *)
LEMMA OpenByType ==
    ASSUME NEW m
    PROVE  OpenAt(m) <=>
              /\ DayMatches(window, At(clock))
              /\ IF window.type = "ExactTimes" THEN m \in window.exact_times
                 ELSE IntervalMatches(window, [At(clock) EXCEPT !.minute = m])
BY DEF OpenAt, IsInWindow, DayMatches, ExactMatches, At

(* An interval is open at the minutes of its grid.                         *)
LEMMA IntervalMatchesGrid ==
    ASSUME NEW w \in WindowType(Int), Absent \notin {w.start_time, w.end_time, w.repeat_interval},
           NEW m \in MinutesOfDay, NEW now, now.minute = m
    PROVE  IntervalMatches(w, now) <=> m \in Grid(w)
<1> DEFINE start == w.start_time
           step  == IF w.repeat_interval < 0 THEN -w.repeat_interval ELSE w.repeat_interval
           end   == Min({w.end_time} \cup ({w.repeat_until} \ {Absent}))
<1>1. /\ start \in Int /\ w.end_time \in Int /\ w.repeat_interval \in Int \ {0}
      /\ w.repeat_until \in Optional(Int)
      /\ m \in Int
  BY DEF WindowType, Optional, MinutesOfDay
<1>2. m <= end <=> m <= w.end_time /\ (w.repeat_until # Absent => m <= w.repeat_until)
  BY <1>1, EarlierEnd
<1>3. step \in Nat \ {0}
  BY <1>1
<1>4. IntervalMatches(w, now) <=> start <= m /\ m <= end /\ Divides(w.repeat_interval, m - start)
  BY <1>1, <1>2 DEF IntervalMatches
<1>5. m \in Grid(w) <=> m <= end /\ \E k \in 0..(m - start) : m = start + k * step
  BY DEF Grid
<1> HIDE DEF end, step, start
<1>6. CASE start <= m
  <2>1. PICK elapsed \in Nat : elapsed = m - start
    BY <1>1, <1>6
  <2>2. Divides(w.repeat_interval, elapsed) <=> \E k \in 0..elapsed : elapsed = k * step
    BY <1>1, DividesMultiples DEF step
  <2>3. ASSUME NEW k \in 0..elapsed
        PROVE  elapsed = k * step <=> m = start + k * step
    <3>1. PICK n \in Int : n = k * step
      BY <1>3, SMT
    <3> QED
      BY <1>1, <2>1, <3>1
  <2> QED
    BY <1>4, <1>5, <1>6, <2>1, <2>2, <2>3
<1>7. CASE ~(start <= m)
  BY <1>1, <1>4, <1>5, <1>7
<1> QED
  BY <1>6, <1>7

(* An interval has been open at the minutes of its grid so far and at no   *)
(* other (is_in_window), whatever its fields say.                          *)
THEOREM IntervalsFireOnTheirGrid == Spec => []IntervalFiresOnItsGrid
<1>1. ASSUME Collected, window.type = "Interval", DayMatches(window, At(clock))
      PROVE  fired = IF Absent \in {window.start_time, window.end_time, window.repeat_interval}
                     THEN {} ELSE Grid(window) \cap 0..At(clock).minute
  <2> DEFINE matches(m) == IntervalMatches(window, [At(clock) EXCEPT !.minute = m])
             minute     == At(clock).minute
  <2>1. fired = {m \in MinutesOfDay : m <= minute /\ matches(m)}
    BY <1>1, OpenByType DEF Collected
  <2>2. CASE Absent \in {window.start_time, window.end_time, window.repeat_interval}
    <3>1. \A m : ~matches(m)
      BY <2>2 DEF IntervalMatches
    <3> QED
      BY <2>1, <2>2, <3>1
  <2>3. CASE Absent \notin {window.start_time, window.end_time, window.repeat_interval}
    <3>1. \A m \in MinutesOfDay : matches(m) <=> m \in Grid(window)
      <4> SUFFICES ASSUME NEW m \in MinutesOfDay PROVE matches(m) <=> m \in Grid(window)
        OBVIOUS
      <4>1. [At(clock) EXCEPT !.minute = m].minute = m
        BY DEF At
      <4>2. window \in WindowType(Int)
        BY <1>1, WalkAssumption DEF Collected
      <4> QED
        BY <2>3, <4>1, <4>2, IntervalMatchesGrid
    <3>2. /\ Grid(window) \subseteq MinutesOfDay
          /\ \A m \in MinutesOfDay : m <= minute <=> m \in 0..minute
      <4>1. minute \in Nat
        BY <1>1, ClockTyped DEF Collected, MinutesOfDay
      <4> QED
        BY <4>1 DEF Grid, MinutesOfDay
    <3> HIDE DEF matches, minute
    <3>3. fired = Grid(window) \cap 0..minute
      BY <2>1, <3>1, <3>2
    <3> QED
      BY <2>3, <3>3 DEF minute
  <2> QED
    BY <2>2, <2>3
<1>2. Collected => IntervalFiresOnItsGrid
  BY <1>1 DEF IntervalFiresOnItsGrid
<1> QED
  BY <1>2, AlwaysCollected, PTL
=============================================================================
