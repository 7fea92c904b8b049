SPECIFICATION Spec
CONSTANTS
    Absent = Absent
    None = None
    Worker = Worker
    t1 = t1
    t2 = t2
    Tasks = {t1}
    Clients = {}
    Existing = {t1}
    MaxRuns = 3
    MaxClock = 2
    MaxPending = 1
    MaxFaults = 0
    KeptForSchedule = 0
    SecondsPerMinute = 1
    MinutesPerDay = 2
    OnOverlap <- StartAnother
    Windows <- AtZero
    TimeoutMinutes <- NoTimeout
    KillOnTimeout <- Spares
    Requests = {}
    Faults = {}
PROPERTIES
    EveryDayAtItsTimes
