SPECIFICATION FairSpec
CONSTANTS
    Absent = Absent
    None = None
    Worker = Worker
    t1 = t1
    t2 = t2
    Tasks = {t1}
    Clients = {c1}
    Existing = {t1}
    MaxRuns = 3
    MaxClock = 1
    MaxPending = 1
    MaxFaults = 0
    KeptForSchedule = 2
    SecondsPerMinute = 1
    MinutesPerDay = 2
    OnOverlap <- WaitNext
    Windows <- EveryMinute
    TimeoutMinutes <- OneMinute
    KillOnTimeout <- Kills
    Requests = {"RunNow", "Delete"}
    Faults = {}
INVARIANTS
    RegisteredIsOpen
PROPERTIES
    ExitIsNoticed
