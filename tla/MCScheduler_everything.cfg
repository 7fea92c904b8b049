SPECIFICATION Spec
CONSTANTS
    Absent = Absent
    None = None
    Worker = Worker
    t1 = t1
    t2 = t2
    Tasks = {t1}
    Clients = {c1}
    Existing = {}
    MaxRuns = 2
    MaxClock = 0
    MaxPending = 1
    MaxFaults = 2
    KeptForSchedule = 0
    SecondsPerMinute = 1
    MinutesPerDay = 2
    OnOverlap <- WaitComplete
    Windows <- EveryMinute
    TimeoutMinutes <- ZeroMinutes
    KillOnTimeout <- Kills
    Requests = {"RunNow", "Create", "Toggle", "Delete", "Stop"}
    Faults = {"CreateProcess", "Database", "Crash"}
INVARIANTS
    TypeOK
    LaunchJournaled
    DeletedLeavesNoRows
