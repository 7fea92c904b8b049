SPECIFICATION Spec
CONSTANTS
    None = None
    t1 = t1
    t2 = t2
    u1 = u1
    UIs = {u1}
    Tasks = {t1, t2}
    Triggers = {"dated", "empty", "daily", "weekly", "monthly", "interval"}
    Chosen = {"monthly"}
    Existing = {t1}
    Schedules <- WeeklyOrNot
    MaxRequests = 2
    MaxFaults = 1
    MaxTriggers = 2
PROPERTIES
    SavedAsEntered
CHECK_DEADLOCK FALSE
