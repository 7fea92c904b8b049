SPECIFICATION Spec
CONSTANTS
    Absent = Absent
    MinutesPerDay = 12
    Days = 4
    Windows <- Interval
INVARIANTS
    IntervalFiresOnItsGrid
