----------------------------- MODULE Scheduler ------------------------------
(***************************************************************************)
(* The scheduler of the WinSheduler service (scheduler.cpp) between the    *)
(* system clock, the SQLite database and the processes it launches.        *)
(*                                                                         *)
(* Threads: one worker, woken every second by an auto-reset timer, runs    *)
(* tick; every connected pipe client has a thread in the service, whose    *)
(* requests reach launch_task (RunNow) and the tables (create, toggle,     *)
(* delete) directly; the service's main thread runs Scheduler::stop.       *)
(*                                                                         *)
(* Granularity: a SQLite statement is one step, a critical section of      *)
(* lock_ is one step, a Windows call is one step; everything a thread does *)
(* between two of them is local and belongs to the step before or after.   *)
(* pc says which step a thread takes next.                                 *)
(***************************************************************************)
EXTENDS TimeWindow, FiniteSets, Sequences

CONSTANTS
    Tasks,             \* task ids; an id (a GUID) is never used twice
    Clients,           \* pipe client threads
    Worker,            \* the scheduler's own thread
    None,              \* no run, no task
    MaxRuns,           \* bound: launches in one behaviour
    MaxClock,          \* bound: the clock stops there, the timer does not
    MaxPending,        \* bound: the pending queue of a task saturates there
    MaxFaults,         \* bound: failures in one behaviour
    KeptForSchedule,   \* bound: launches clients leave to the schedule
    SecondsPerMinute,  \* 60 in the code
    Existing,          \* the tasks in the database (and enabled) at the start
    OnOverlap,         \* tasks.on_overlap
    Windows,           \* time_windows, in the order get_time_windows returns
    TimeoutMinutes,    \* tasks.timeout_minutes, None when NULL
    KillOnTimeout,     \* tasks.kill_on_timeout
    Requests,          \* the requests clients (and the service manager) make
    Faults             \* the failures the environment produces

Runs    == 1..MaxRuns
Threads == {Worker} \cup Clients
Option(S) == S \cup {None}

ASSUME BoundsAssumption ==
    /\ MaxRuns \in Nat
    /\ MaxClock \in Nat
    /\ MaxPending \in Nat \ {0}
    /\ MaxFaults \in Nat
    /\ KeptForSchedule \in Nat
    /\ SecondsPerMinute \in Nat \ {0}

ASSUME ThreadsAssumption ==
    /\ Worker \notin Clients
    /\ None \notin Runs \cup Tasks \cup Nat

ASSUME ConfigurationAssumption ==
    /\ Existing \subseteq Tasks
    /\ OnOverlap \in [Tasks -> {"WaitComplete", "WaitNext", "StartAnother"}]
    /\ DOMAIN Windows = Tasks
    /\ \A t \in Tasks : Windows[t] \in Seq(WindowType(MinutesOfDay))
    /\ TimeoutMinutes \in [Tasks -> Option(Nat)]
    /\ KillOnTimeout \in [Tasks -> BOOLEAN]
    /\ Requests \subseteq {"RunNow", "Create", "Toggle", "Delete", "Stop"}
    /\ Faults \subseteq {"CreateProcess", "Database", "Crash"}

VARIABLES
    (* the machine *)
    clock,     \* seconds
    timer,     \* tick_timer_ is signalled
    proc,      \* the process of each run: "none", "alive" or "exited"
    faults,    \* failures so far
    (* the database *)
    table,     \* a task's row: "unborn", "live" or "deleted"
    enabled,   \* the live tasks whose column enabled is set
    row,       \* run_history: the status of each run, "none" if it has no row
    owner,     \* the task of each run, None for a run that has not begun
    start,     \* run_history.start_time, in whole seconds
    (* the service's memory *)
    serving,   \* running_
    running,   \* running_map_: the run whose handle is registered for a task
    since,     \* RunningProcess::start_time of each run
    handles,   \* the runs whose process handle the service holds open
    pending,   \* pending_queue_: the length of each task's queue
    last,      \* last_run_minute_, -1 when the task has no entry
    doomed,    \* the entries Scheduler::stop took and has not terminated yet
    (* the threads *)
    pc, arg, run, ret,       \* of each thread: the next step, the task and
                             \* the run it launches, where it returns to
    listed, todo, now,       \* of tick: the enabled tasks it listed, those
                             \* left to do in this loop, its time
    snap, exited, timedout,  \* of check_timeouts: its copy of running_map_,
                             \* exited_tasks and timed_out_tasks
    subject, found,          \* the run whose handle is examined, and the row
    verdict,                 \* get_history returned, to get this status
    (* history variable, read by properties only *)
    fired      \* now of the tick whose schedule began a run, -1 for others

machine  == <<clock, timer, proc, faults>>
database == <<table, enabled, row, owner, start>>
memory   == <<serving, running, since, handles, pending, last, doomed>>
launch   == <<arg, run, ret>>
tick     == <<listed, todo, now>>
check    == <<snap, exited, timedout, subject, found, verdict>>

vars == <<machine, database, memory, pc, launch, tick, check, fired>>
-----------------------------------------------------------------------------
(* The wall clock as is_in_window sees it.                                 *)
At(c) ==
    LET minutes == c \div SecondsPerMinute
        day     == minutes \div MinutesPerDay
    IN  [minute |-> minutes % MinutesPerDay, dow |-> day % 7,
         dom |-> 1 + (day % 31), day |-> day]

(* duration_cast<minutes>: towards zero, also when the process was         *)
(* registered after check_timeouts took its time.                          *)
ElapsedMinutes(from, to) ==
    IF to < from THEN -((from - to) \div SecondsPerMinute)
                 ELSE (to - from) \div SecondsPerMinute

Live(t) == table[t] = "live"

RowsOf(t) == {r \in Runs : owner[r] = t /\ row[r] # "none"}

(* ORDER BY start_time DESC LIMIT 1: the order within one second is not    *)
(* determined.  Earliest is a mutation: ASC for DESC.                      *)
Earliest(t) == {r \in RowsOf(t) : \A q \in RowsOf(t) : start[q] >= start[r]}

Latest(t) == {r \in RowsOf(t) : \A q \in RowsOf(t) : start[q] <= start[r]}

Goto(th, label) == pc' = [pc EXCEPT ![th] = label]

Rest(th) == IF th = Worker THEN "wait" ELSE "idle"

ForgetLaunch(th) ==
    /\ arg' = [arg EXCEPT ![th] = None]
    /\ run' = [run EXCEPT ![th] = None]
    /\ ret' = [ret EXCEPT ![th] = Rest(th)]

ForgetTick == listed' = {} /\ todo' = {} /\ now' = 0

ForgetSubject == subject' = None /\ found' = None /\ verdict' = "none"

ForgetCheck ==
    /\ snap' = [t \in Tasks |-> None]
    /\ exited' = {}
    /\ timedout' = {}
    /\ ForgetSubject

(* An exception leaves the thread's work where it is: tick catches it, and *)
(* the structured exception handler of handle_client ends the request.     *)
Throw(th) ==
    /\ Goto(th, Rest(th))
    /\ ForgetLaunch(th)
    /\ IF th = Worker THEN ForgetTick /\ ForgetCheck ELSE UNCHANGED <<tick, check>>
-----------------------------------------------------------------------------
Init ==
    /\ clock = 0 /\ timer = TRUE /\ faults = 0
    /\ proc = [r \in Runs |-> "none"]
    /\ table = [t \in Tasks |-> IF t \in Existing THEN "live" ELSE "unborn"]
    /\ enabled = Existing
    /\ row = [r \in Runs |-> "none"]
    /\ owner = [r \in Runs |-> None]
    /\ start = [r \in Runs |-> 0]
    /\ serving = TRUE
    /\ running = [t \in Tasks |-> None]
    /\ since = [r \in Runs |-> 0]
    /\ handles = {}
    /\ pending = [t \in Tasks |-> 0]
    /\ last = [t \in Tasks |-> -1]
    /\ doomed = {}
    /\ pc = [th \in Threads |-> Rest(th)]
    /\ arg = [th \in Threads |-> None]
    /\ run = [th \in Threads |-> None]
    /\ ret = [th \in Threads |-> Rest(th)]
    /\ listed = {} /\ todo = {} /\ now = 0
    /\ snap = [t \in Tasks |-> None]
    /\ exited = {} /\ timedout = {}
    /\ subject = None /\ found = None /\ verdict = "none"
    /\ fired = [r \in Runs |-> -1]
-----------------------------------------------------------------------------
(***************************************************************************)
(* launch_task and run_process, on whichever thread called them.           *)
(***************************************************************************)
Call(th, t, back) ==
    /\ Goto(th, "insert")
    /\ arg' = [arg EXCEPT ![th] = t]
    /\ ret' = [ret EXCEPT ![th] = back]
    /\ UNCHANGED run

(* insert_history, whose failure check_step turns into an exception.  A    *)
(* mutation: the error is ignored.                                         *)
InsertUnchecked(r) == row' \in {row, [row EXCEPT ![r] = "Running"]}

InsertRow(r) == row' = [row EXCEPT ![r] = "Running"]

(* PRAGMA foreign_keys = ON.  A mutation: OFF.                             *)
NoForeignKey(t) == t \in Tasks

ForeignKey(t) == Live(t)

(* A new GUID: the runs are numbered in the order in which they begin.     *)
Fresh(r) == owner[r] = None /\ \A q \in 1..(r - 1) : owner[q] # None

InsertHistory(th) ==
    /\ pc[th] = "insert"
    /\ \/ /\ ~ForeignKey(arg[th])
          /\ Throw(th)
          /\ UNCHANGED <<database, fired>>
       \/ /\ ForeignKey(arg[th])
          /\ \E r \in Runs :
                /\ Fresh(r)
                /\ owner' = [owner EXCEPT ![r] = arg[th]]
                /\ InsertRow(r)
                /\ start' = [start EXCEPT ![r] = clock]
                /\ fired' = [fired EXCEPT ![r] = IF ret[th] = "scan" THEN now ELSE -1]
                /\ run' = [run EXCEPT ![th] = r]
          /\ Goto(th, "create")
          /\ UNCHANGED <<table, enabled, arg, ret, tick, check>>
    /\ UNCHANGED <<machine, memory>>

(* run_process: every way to fail returns pid 0, and launch_task goes on.  *)
CreateProcess(th) ==
    /\ pc[th] = "create"
    /\ \/ /\ proc' = [proc EXCEPT ![run[th]] = "alive"]
          /\ handles' = handles \cup {run[th]}
          /\ Goto(th, "register")
          /\ UNCHANGED faults
       \/ /\ "CreateProcess" \in Faults /\ faults < MaxFaults
          /\ faults' = faults + 1
          /\ Goto(th, "record")
          /\ UNCHANGED <<proc, handles>>
    /\ UNCHANGED <<clock, timer, database, serving, running, since, pending, last,
                   doomed, launch, tick, check, fired>>

(* "Store for timeout monitoring": replaces what was registered before.    *)
Register(th) ==
    /\ pc[th] = "register"
    /\ running' = [running EXCEPT ![arg[th]] = run[th]]
    /\ since' = [since EXCEPT ![run[th]] = clock]
    /\ Goto(th, "record")
    /\ UNCHANGED <<machine, database, serving, handles, pending, last, doomed,
                   launch, tick, check, fired>>

(* "Update history with PID": the statement rewrites the status too.       *)
RecordPid(th) ==
    /\ pc[th] = "record"
    /\ row' = [row EXCEPT ![run[th]] = IF @ = "none" THEN @ ELSE "Running"]
    /\ Goto(th, ret[th])
    /\ ForgetLaunch(th)
    /\ UNCHANGED <<machine, table, enabled, owner, start, memory, tick, check, fired>>

Launching(th) ==
    InsertHistory(th) \/ CreateProcess(th) \/ Register(th) \/ RecordPid(th)
-----------------------------------------------------------------------------
(***************************************************************************)
(* tick: the schedule.                                                     *)
(***************************************************************************)
TickBegin ==
    /\ pc[Worker] = "wait"
    /\ serving /\ timer
    /\ timer' = FALSE
    /\ listed' = enabled
    /\ todo' = enabled
    /\ now' = clock
    /\ Goto(Worker, "scan")
    /\ UNCHANGED <<clock, proc, faults, database, memory, launch, check, fired>>

(* A mutation of Opens: without last_run_minute_.                          *)
OpensAgain(t, w) == t \in Tasks /\ IsInWindow(w, At(now))

(* The windows that make the task run: the first one counts.  A window of  *)
(* exact times does not when the task last ran at this minute of a day.    *)
Opens(t, w) ==
    /\ IsInWindow(w, At(now))
    /\ w.type = "ExactTimes" => last[t] # At(now).minute

WindowsOf(t) == IF Live(t) THEN Windows[t] ELSE <<>>

IsFirstOpen(t, i) ==
    /\ Opens(t, WindowsOf(t)[i])
    /\ \A j \in 1..(i - 1) : ~Opens(t, WindowsOf(t)[j])

Decide(t) ==
    /\ pc[Worker] = "scan"
    /\ t \in todo
    /\ todo' = todo \ {t}
    /\ \/ /\ \A i \in DOMAIN WindowsOf(t) : ~Opens(t, WindowsOf(t)[i])
          /\ UNCHANGED <<last, pc, arg>>
       \/ \E i \in DOMAIN WindowsOf(t) :
            /\ IsFirstOpen(t, i)
            /\ last' = IF WindowsOf(t)[i].type = "ExactTimes"
                       THEN [last EXCEPT ![t] = At(now).minute] ELSE last
            /\ Goto(Worker, "overlap")
            /\ arg' = [arg EXCEPT ![Worker] = t]
    /\ UNCHANGED <<machine, database, serving, running, since, handles, pending, doomed,
                   run, ret, listed, now, check, fired>>

(* The queue is only ever pushed (process_pending_queue pops a copy), and  *)
(* only its emptiness is looked at: its length may saturate.               *)
Push(t) ==
    pending' = [pending EXCEPT ![t] = IF @ < MaxPending THEN @ + 1 ELSE @]

(* A mutation of MayStart: the values of the enumeration one off.          *)
MayStartShifted(t) == running[t] = None \/ OnOverlap[t] = "WaitComplete"

MayStart(t) == running[t] = None \/ OnOverlap[t] = "StartAnother"

Overlap ==
    /\ pc[Worker] = "overlap"
    /\ LET t == arg[Worker] IN
       \/ /\ running[t] # None /\ OnOverlap[t] = "WaitNext"
          /\ Goto(Worker, "scan") /\ ForgetLaunch(Worker)
          /\ UNCHANGED pending
       \/ /\ running[t] # None /\ OnOverlap[t] = "WaitComplete"
          /\ Push(t)
          /\ Goto(Worker, "scan") /\ ForgetLaunch(Worker)
       \/ /\ MayStart(t)
          /\ Call(Worker, t, "scan")
          /\ UNCHANGED pending
    /\ UNCHANGED <<machine, database, serving, running, since, handles, last, doomed,
                   tick, check, fired>>
-----------------------------------------------------------------------------
(***************************************************************************)
(* tick: process_pending_queue.                                            *)
(***************************************************************************)
PendingBegin ==
    /\ pc[Worker] = "scan"
    /\ todo = {}
    /\ todo' = {t \in Tasks : pending[t] > 0}
    /\ Goto(Worker, "pend")
    /\ UNCHANGED <<machine, database, memory, launch, listed, now, check, fired>>

(* The copy is popped; the queue itself, still not empty, stays.           *)
PendingTask(t) ==
    /\ pc[Worker] = "pend"
    /\ t \in todo
    /\ todo' = todo \ {t}
    /\ IF running[t] = None /\ Live(t)
       THEN Call(Worker, t, "pend")
       ELSE UNCHANGED <<pc, launch>>
    /\ UNCHANGED <<machine, database, memory, listed, now, check, fired>>
-----------------------------------------------------------------------------
(***************************************************************************)
(* tick: check_timeouts.                                                   *)
(***************************************************************************)
CheckBegin ==
    /\ pc[Worker] = "pend"
    /\ todo = {}
    /\ now' = clock
    /\ Goto(Worker, "snapshot")
    /\ UNCHANGED <<machine, database, memory, launch, listed, todo, check, fired>>

Snapshot ==
    /\ pc[Worker] = "snapshot"
    /\ snap' = running
    /\ todo' = {t \in Tasks : running[t] # None}
    /\ Goto(Worker, "inspect")
    /\ UNCHANGED <<machine, database, memory, launch, listed, now, exited, timedout,
                   subject, found, verdict, fired>>

(* GetExitCodeProcess, which fails on a handle that was closed meanwhile.  *)
(* A mutation: STILL_ACTIVE is not told from an exit code.                 *)
SeenAny(r) == r \in handles /\ proc[r] # "none"

SeenExited(r) == r \in handles /\ proc[r] = "exited"

(* A mutation of Overdue: the cast to minutes forgotten.                   *)
OverdueInSeconds(t, r) ==
    TimeoutMinutes[t] # None /\ now - since[r] >= TimeoutMinutes[t]

Overdue(t, r) ==
    TimeoutMinutes[t] # None /\ ElapsedMinutes(since[r], now) >= TimeoutMinutes[t]

Inspect(t) ==
    /\ pc[Worker] = "inspect"
    /\ t \in todo
    /\ todo' = todo \ {t}
    /\ \/ /\ Live(t) /\ SeenExited(snap[t])
          /\ exited' = exited \cup {t}
          /\ subject' = snap[t]
          /\ verdict' = "Completed"
          /\ arg' = [arg EXCEPT ![Worker] = t]
          /\ Goto(Worker, "fetch")
          /\ UNCHANGED timedout
       \/ /\ Live(t) /\ ~SeenExited(snap[t])
          /\ timedout' = IF Overdue(t, snap[t]) THEN timedout \cup {t} ELSE timedout
          /\ UNCHANGED <<exited, subject, verdict, arg, pc>>
       \/ /\ ~Live(t)
          /\ UNCHANGED <<exited, timedout, subject, verdict, arg, pc>>
    /\ UNCHANGED <<machine, database, memory, run, ret, listed, now, snap, found, fired>>

(* Mutations of Erased: the wrong list, and a loop that erases nothing.    *)
ErasedTimedOut(t) == IF t \in timedout THEN None ELSE running[t]
ErasedNone(t) == running[t]

Erased(t) == IF t \in exited THEN None ELSE running[t]

EraseExited ==
    /\ pc[Worker] = "inspect"
    /\ todo = {}
    /\ running' = [t \in Tasks |-> Erased(t)]
    /\ todo' = timedout
    /\ ForgetCheck
    /\ Goto(Worker, "expire")
    /\ UNCHANGED <<machine, database, serving, since, handles, pending, last, doomed,
                   launch, listed, now, fired>>

(* A mutation of Unregister: the entry stays in the map.                   *)
LeaveRegistered(t) == t \in Tasks /\ UNCHANGED running

Unregister(t) == running' = [running EXCEPT ![t] = None]

TakeTimedOut(t) ==
    /\ pc[Worker] = "expire"
    /\ t \in todo
    /\ todo' = todo \ {t}
    /\ IF running[t] = None
       THEN UNCHANGED <<running, subject, verdict, arg, pc>>
       ELSE /\ subject' = running[t]
            /\ verdict' = "Timeout"
            /\ Unregister(t)
            /\ arg' = [arg EXCEPT ![Worker] = t]
            /\ Goto(Worker, "kill")
    /\ UNCHANGED <<machine, database, serving, since, handles, pending, last, doomed,
                   run, ret, listed, now, snap, exited, timedout, found, fired>>

Terminate(r) == proc' = [proc EXCEPT ![r] = IF r \in handles THEN "exited" ELSE @]

Kill ==
    /\ pc[Worker] = "kill"
    /\ IF Live(arg[Worker]) /\ KillOnTimeout[arg[Worker]]
       THEN Terminate(subject) ELSE UNCHANGED proc
    /\ Goto(Worker, "fetch")
    /\ UNCHANGED <<clock, timer, faults, database, memory, launch, tick, check, fired>>

(* get_history(task, 1), for an exit and for a timeout alike.              *)
GetHistory ==
    /\ pc[Worker] = "fetch"
    /\ found' \in IF Latest(arg[Worker]) = {} THEN {None} ELSE Latest(arg[Worker])
    /\ Goto(Worker, "settle")
    /\ UNCHANGED <<machine, database, memory, launch, tick, snap, exited, timedout,
                   subject, verdict, fired>>

(* update_history of that row, if it is still there, then CloseHandle.     *)
Settle ==
    /\ pc[Worker] = "settle"
    /\ row' = [r \in Runs |-> IF r = found /\ row[r] # "none" THEN verdict ELSE row[r]]
    /\ handles' = handles \ {subject}
    /\ Goto(Worker, IF verdict = "Completed" THEN "inspect" ELSE "expire")
    /\ ForgetLaunch(Worker)
    /\ ForgetSubject
    /\ UNCHANGED <<machine, table, enabled, owner, start, serving, running, since, pending,
                   last, doomed, tick, snap, exited, timedout, fired>>

TickEnd ==
    /\ pc[Worker] = "expire"
    /\ todo = {}
    /\ ForgetTick
    /\ Goto(Worker, "wait")
    /\ UNCHANGED <<machine, database, memory, launch, check, fired>>

WorkerStep ==
    \/ TickBegin \/ Overlap \/ PendingBegin \/ CheckBegin \/ Snapshot
    \/ EraseExited \/ Kill \/ GetHistory \/ Settle \/ TickEnd
    \/ \E t \in Tasks : Decide(t) \/ PendingTask(t) \/ Inspect(t) \/ TakeTimedOut(t)
    \/ Launching(Worker)
-----------------------------------------------------------------------------
(***************************************************************************)
(* The requests of the pipe clients, and Scheduler::stop.                  *)
(***************************************************************************)
RunNow(c, t) ==
    /\ "RunNow" \in Requests
    /\ Cardinality({r \in Runs : owner[r] = None}) > KeptForSchedule
    /\ pc[c] = "idle"
    /\ Live(t)
    /\ Call(c, t, "idle")
    /\ UNCHANGED <<machine, database, memory, tick, check, fired>>

CreateTask(c, t) ==
    /\ "Create" \in Requests
    /\ pc[c] = "idle"
    /\ table[t] = "unborn"
    /\ table' = [table EXCEPT ![t] = "live"]
    /\ enabled' \in {enabled, enabled \cup {t}}
    /\ UNCHANGED <<machine, row, owner, start, memory, pc, launch, tick, check, fired>>

ToggleTask(c, t) ==
    /\ "Toggle" \in Requests
    /\ pc[c] = "idle"
    /\ Live(t)
    /\ enabled' \in {enabled \ {t}, enabled \cup {t}}
    /\ UNCHANGED <<machine, table, row, owner, start, memory, pc, launch, tick, check, fired>>

(* ON DELETE CASCADE takes the history with the task; the scheduler is not *)
(* told.                                                                   *)
DeleteTask(c, t) ==
    /\ "Delete" \in Requests
    /\ pc[c] = "idle"
    /\ Live(t)
    /\ table' = [table EXCEPT ![t] = "deleted"]
    /\ enabled' = enabled \ {t}
    /\ row' = [r \in Runs |-> IF owner[r] = t THEN "none" ELSE row[r]]
    /\ UNCHANGED <<machine, owner, start, memory, pc, launch, tick, check, fired>>

ClientStep(c) ==
    \/ \E t \in Tasks : RunNow(c, t) \/ CreateTask(c, t) \/ ToggleTask(c, t) \/ DeleteTask(c, t)
    \/ Launching(c)

(* A mutation of Registered: entries without a process handle too.         *)
RegisteredOrNot == {running[t] : t \in Tasks}

Registered == {running[t] : t \in Tasks} \ {None}

(* stop takes the map only if nobody holds lock_; a status request may.    *)
Stop ==
    /\ "Stop" \in Requests
    /\ serving
    /\ serving' = FALSE
    /\ \/ UNCHANGED <<running, doomed>>
       \/ /\ doomed' = Registered
          /\ running' = [t \in Tasks |-> None]
    /\ UNCHANGED <<machine, database, since, handles, pending, last,
                   pc, launch, tick, check, fired>>

StopProcess(r) ==
    /\ r \in doomed
    /\ Terminate(r)
    /\ handles' = handles \ {r}
    /\ doomed' = doomed \ {r}
    /\ UNCHANGED <<clock, timer, faults, database, serving, running, since, pending, last,
                   pc, launch, tick, check, fired>>

(* The service's process ends (ExitProcess after stop, or a crash) and is  *)
(* started again: the database and the launched processes survive.         *)
Reboot ==
    /\ timer' = TRUE
    /\ serving' = TRUE
    /\ running' = [t \in Tasks |-> None]
    /\ since' = [r \in Runs |-> 0]
    /\ handles' = {}
    /\ pending' = [t \in Tasks |-> 0]
    /\ last' = [t \in Tasks |-> -1]
    /\ doomed' = {}
    /\ pc' = [th \in Threads |-> Rest(th)]
    /\ arg' = [th \in Threads |-> None]
    /\ run' = [th \in Threads |-> None]
    /\ ret' = [th \in Threads |-> Rest(th)]
    /\ ForgetTick
    /\ ForgetCheck
    /\ UNCHANGED <<clock, proc, database, fired>>

Restart == ~serving /\ doomed = {} /\ Reboot /\ UNCHANGED faults

Crash ==
    /\ "Crash" \in Faults /\ faults < MaxFaults
    /\ faults' = faults + 1
    /\ Reboot
-----------------------------------------------------------------------------
(***************************************************************************)
(* The environment: time, processes and the database's errors.             *)
(***************************************************************************)
Advance ==
    /\ clock' = IF clock < MaxClock THEN clock + 1 ELSE clock
    /\ timer' = TRUE
    /\ UNCHANGED <<proc, faults, database, memory, pc, launch, tick, check, fired>>

ProcessExits(r) ==
    /\ proc[r] = "alive"
    /\ proc' = [proc EXCEPT ![r] = "exited"]
    /\ UNCHANGED <<clock, timer, faults, database, memory, pc, launch, tick, check, fired>>

(* list_tasks is left out: when it fails it is as if the timer had not     *)
(* fired.                                                                  *)
InStatement(th) ==
    \/ pc[th] \in {"insert", "record", "fetch", "kill"}
    \/ pc[th] \in {"scan", "inspect"} /\ todo # {}
    \/ pc[th] = "pend" /\ \E t \in todo : running[t] = None
    \/ pc[th] = "settle" /\ found # None

(* Any statement may fail, with an exception (check_prepare, check_step).  *)
DatabaseFails(th) ==
    /\ "Database" \in Faults /\ faults < MaxFaults
    /\ InStatement(th)
    /\ faults' = faults + 1
    /\ Throw(th)
    /\ UNCHANGED <<clock, timer, proc, database, memory, fired>>
-----------------------------------------------------------------------------
Next ==
    \/ WorkerStep
    \/ \E c \in Clients : ClientStep(c)
    \/ Stop \/ Restart \/ Crash
    \/ \E r \in Runs : StopProcess(r) \/ ProcessExits(r)
    \/ Advance
    \/ \E th \in Threads : DatabaseFails(th)

(* The timer keeps firing and every thread that can go on does; a process  *)
(* need not end, a client need not send anything, nothing need fail.       *)
Fairness ==
    /\ WF_vars(Advance)
    /\ WF_vars(WorkerStep)
    /\ \A c \in Clients : WF_vars(Launching(c))
    /\ \A r \in Runs : WF_vars(StopProcess(r))

Spec == Init /\ [][Next]_vars

FairSpec == Spec /\ Fairness
=============================================================================
