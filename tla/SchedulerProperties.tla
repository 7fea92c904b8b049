------------------------ MODULE SchedulerProperties -------------------------
(***************************************************************************)
(* What the scheduler promises, and what its documents say it promises.    *)
(***************************************************************************)
EXTENDS Scheduler

(* Type invariant.                                                         *)
Labels == {"insert", "create", "register", "record"}

TypeOK ==
    /\ clock \in 0..MaxClock
    /\ timer \in BOOLEAN
    /\ proc \in [Runs -> {"none", "alive", "exited"}]
    /\ faults \in 0..MaxFaults
    /\ table \in [Tasks -> {"unborn", "live", "deleted"}]
    /\ enabled \in SUBSET Tasks
    /\ row \in [Runs -> {"none", "Running", "Completed", "Timeout"}]
    /\ owner \in [Runs -> Option(Tasks)]
    /\ start \in [Runs -> Nat]
    /\ serving \in BOOLEAN
    /\ running \in [Tasks -> Option(Runs)]
    /\ since \in [Runs -> Nat]
    /\ handles \in SUBSET Runs
    /\ pending \in [Tasks -> 0..MaxPending]
    /\ last \in [Tasks -> MinutesOfDay \cup {-1}]
    /\ doomed \in SUBSET Runs
    /\ pc \in [Threads -> Labels \cup {"idle", "wait", "scan", "overlap", "pend", "snapshot",
                                       "inspect", "expire", "kill", "fetch", "settle"}]
    /\ arg \in [Threads -> Option(Tasks)]
    /\ run \in [Threads -> Option(Runs)]
    /\ ret \in [Threads -> {"idle", "wait", "scan", "pend"}]
    /\ listed \in SUBSET Tasks
    /\ todo \in SUBSET Tasks
    /\ now \in Nat
    /\ snap \in [Tasks -> Option(Runs)]
    /\ exited \in SUBSET Tasks
    /\ timedout \in SUBSET Tasks
    /\ subject \in Option(Runs)
    /\ found \in Option(Runs)
    /\ verdict \in {"none", "Completed", "Timeout"}
    /\ fired \in [Runs -> Nat \cup {-1}]
-----------------------------------------------------------------------------
(* Vocabulary.                                                             *)
Minute(c) == c \div SecondsPerMinute

Sequential(t) == OnOverlap[t] # "StartAnother"

ExactOnly(t) == \A i \in DOMAIN Windows[t] : Windows[t][i].type = "ExactTimes"

RunsOf(t) == {r \in Runs : owner[r] = t}

AliveRuns(t) == {r \in RunsOf(t) : proc[r] = "alive"}

SharesItsSecond(r) == \E q \in Runs \ {r} : owner[q] = owner[r] /\ start[q] = start[r]
-----------------------------------------------------------------------------
(* A process is launched only after its run is in the history, and the row *)
(* stays as long as its task does: whatever fails or crashes between       *)
(* insert_history, CreateProcess and update_history, no process runs       *)
(* unrecorded.                                                             *)
LaunchJournaled ==
    \A r \in Runs : proc[r] # "none" =>
        owner[r] # None /\ (row[r] # "none" \/ table[owner[r]] = "deleted")

(* A deleted task leaves no history behind, although launches and timeout  *)
(* checks that were under way when it was deleted still write to it.       *)
DeletedLeavesNoRows ==
    \A r \in Runs : owner[r] # None /\ table[owner[r]] = "deleted" => row[r] = "none"

(* running_map_ holds open handles: the worker closes one only after it    *)
(* took the entry out, or between noticing the exit and erasing the entry; *)
(* and it never closes one twice.                                          *)
RegisteredIsOpen ==
    /\ \A t \in Tasks : running[t] # None =>
          \/ running[t] \in handles
          \/ t \in exited /\ running[t] = snap[t]
    /\ pc[Worker] \in {"fetch", "settle", "kill"} => subject \in handles

(* No handle is lost: whatever the worker, stop, deletions and failed      *)
(* launches do between them, an open handle is in the map, among those     *)
(* stop took, or held by the thread that is about to register or close it. *)
NoHandleIsLost ==
    \A r \in handles :
        \/ \E t \in Tasks : running[t] = r
        \/ r \in doomed
        \/ \E th \in Threads : pc[th] = "register" /\ run[th] = r
        \/ pc[Worker] \in {"kill", "fetch", "settle"} /\ subject = r

(* "Ждать завершения текущего" and "Пропустить запуск" (README, OnOverlap):*)
(* a task that does not allow it never has two processes at a time.        *)
NoOverlap ==
    \A t \in Tasks : Sequential(t) =>
        \A q, r \in Runs : q # r /\ q \in AliveRuns(t) => r \notin AliveRuns(t)

(* last_run_minute_: the ticks of one minute run a task of exact times at  *)
(* most once, however late they come.                                      *)
OncePerMinute ==
    \A q, r \in Runs :
        /\ q # r /\ owner[q] = owner[r] /\ owner[q] # None
        /\ ExactOnly(owner[q])
        /\ fired[q] >= 0 /\ fired[r] >= 0
        => Minute(fired[q]) # Minute(fired[r])

(* Only a process that has run for timeout_minutes is killed, also when    *)
(* clients start others while the worker checks.                           *)
KillOnlyOverdue ==
    [][pc[Worker] = "kill" /\ proc' # proc /\ pc' # pc /\ proc[subject] = "alive" =>
        ElapsedMinutes(since[subject], clock) >= TimeoutMinutes[arg[Worker]]]_vars

(* A run marked Completed has exited.  get_history finds the run by its    *)
(* start time, so two runs of one task in one second are set aside.        *)
CompletedHasExited ==
    \A r \in Runs : row[r] = "Completed" => proc[r] = "exited" \/ SharesItsSecond(r)

(* A verdict is final: no later write changes a run that has one.          *)
VerdictIsFinal ==
    [][\A r \in Runs : row[r] \in {"Completed", "Timeout"} /\ ~SharesItsSecond(r) =>
        row'[r] \in {row[r], "none"}]_vars

(* The exit of a registered process is noticed: its entry does not block   *)
(* the task's later runs for ever.                                         *)
ExitIsNoticed ==
    \A t \in Tasks, r \in Runs :
        running[t] = r /\ proc[r] = "exited" ~> running[t] # r \/ ~Live(t)

(* ... and journaled, with the caveat of CompletedHasExited.               *)
ExitIsJournaled ==
    \A r \in Runs :
        row[r] = "Running" /\ proc[r] = "exited" ~> row[r] # "Running" \/ SharesItsSecond(r)
-----------------------------------------------------------------------------
(***************************************************************************)
(* Statements of the documents and comments that the code contradicts.     *)
(***************************************************************************)
(* README, OnOverlap: WaitComplete waits for the end of the current run,   *)
(* and then makes up for the one that had to wait.  So the task is not run *)
(* more often than its times came.                                         *)
DueMinutes(t) ==
    {m \in 0..Minute(clock) : \E i \in DOMAIN Windows[t] :
        IsInWindow(Windows[t][i], At(m * SecondsPerMinute))}

NoMoreRunsThanDue ==
    \A t \in Tasks : Cardinality(RunsOf(t)) <= Cardinality(DueMinutes(t))

(* README, triggers: a daily task runs every day at its times.  A tick     *)
(* passes over a task whose time it is only if that minute, of that day,   *)
(* has had its run.                                                        *)
PassedOver(t) ==
    pc[Worker] = "scan" /\ pc'[Worker] = "scan" /\ t \in todo \ todo'

EveryDayAtItsTimes ==
    [][\A t \in Tasks :
        PassedOver(t) /\ (\E i \in DOMAIN WindowsOf(t) : IsInWindow(WindowsOf(t)[i], At(now)))
            => \E r \in RunsOf(t) : fired[r] >= 0 /\ Minute(fired[r]) = Minute(now)]_vars
=============================================================================
