SPECIFICATION FairSpec
CONSTANTS
    Absent = Absent
    None = None
    Worker = Worker
    t1 = t1
    t2 = t2
    Tasks = {t1}
    Clients = {c1}
    Existing = {t1}
    MaxRuns = 3
    MaxClock = 4
    MaxPending = 1
    MaxFaults = 1
    KeptForSchedule = 0
    SecondsPerMinute = 2
    MinutesPerDay = 2
    OnOverlap <- WaitNext
    Windows <- EveryMinute
    TimeoutMinutes <- OneMinute
    KillOnTimeout <- Kills
    Requests = {"Delete"}
    Faults = {"CreateProcess"}
INVARIANT
    NoHandleIsLost
PROPERTIES
    ExitIsJournaled
    ImplementsRunJournal
