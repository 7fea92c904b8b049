SPECIFICATION Spec
CONSTANTS
    Absent = Absent
    None = None
    Worker = Worker
    t1 = t1
    t2 = t2
    Tasks = {t1, t2}
    Clients = {}
    Existing = {t1, t2}
    MaxRuns = 3
    MaxClock = 3
    MaxPending = 1
    MaxFaults = 1
    KeptForSchedule = 0
    SecondsPerMinute = 2
    MinutesPerDay = 2
    OnOverlap <- Mixed
    Windows <- EveryMinuteOrTick
    TimeoutMinutes <- OneMinute
    KillOnTimeout <- Kills
    Requests = {}
    Faults = {"CreateProcess"}
INVARIANTS
    NoOverlap
    OncePerMinute
    CompletedHasExited
PROPERTIES
    KillOnlyOverdue
    VerdictIsFinal
