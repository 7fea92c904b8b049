# WinSheduler: models, checks and proofs

TLA+ models of the WinSheduler task scheduler (`src/WinShedulerSvc`, a Windows service in
C++, and `src/WinSheduler.UI`, its WPF front end), the TLC runs that check them on small
instances, and theorems about them that TLAPS proves for every instance. Paths below are
relative to the repository; `scheduler.cpp:596` means `src/WinShedulerSvc/scheduler.cpp`,
line 596. `PROJECT.json` maps every definition to the lines it models and lists the runs,
their mutants, the findings and the hazards.

    tlc -workers 2 -config MCScheduler_worker.cfg MCScheduler     # one run
    tlapm SchedulerProofs.tla                                     # one module's proofs

## 1. The system

| Component | State it keeps | Operations | Modelled in |
|---|---|---|---|
| Scheduler (`scheduler.cpp`) | `running_map_` (one process per task), `pending_queue_`, `last_run_minute_`, all under `lock_`; `running_`, the timer, the stop event | `tick` every second on the worker thread, `launch_task`/`run_process` on the worker or a client thread, `process_pending_queue`, `check_timeouts`, `stop` | `TimeWindow`, `Scheduler`, `RunJournal` |
| Database (`database.cpp`) | SQLite tables `tasks`, `time_windows`, `run_history`; foreign keys with cascade; one connection shared by all threads, no transactions | one statement per operation; any of them may throw | `TaskStore` (tasks, windows), `Scheduler` (history) |
| Pipe server (`ipc.cpp`) | the pipe instance being connected, `client_threads_`, `running_` | accept loop, one thread per request, the request handlers, the JSON readers | `PipeServer`, `TaskStore`, `RequestPath` |
| Service lifecycle (`service.cpp`, `main.cpp`) | the service status, `stop_event_`, the four globals | start, RunNow and GetStatus handler, control handler, stop, `ExitProcess` | `PipeServer`, `Scheduler` |
| JSON (`json.cpp`) | none | parse, serialize | `Json`, `RequestPath` |
| User interface (`WinSheduler.UI`) | the editor's list of windows, the main window's list of tasks | load between awaits, edit, save, refresh; a pipe client with a connect timeout | `TaskEditor`, `PipeServer` |
| Shared types (`config.h`, `WinSheduler.Shared`) | none | none | domains of the above |
| SQLite (vendored), build scripts | not part of the program's logic | | |

How they interact: clients (the UI) connect to the pipe; their threads write the tables
directly and, for RunNow, call `launch_task` on the scheduler's own maps. The worker reads
the tables every second, launches processes and writes the history. The service manager's
stop runs `Scheduler::stop` on the main thread while the worker and the clients go on: nobody
is joined, and `ExitProcess` ends them where they are. So every map and every row of the
history is written by at least two threads, and `lock_` protects single accesses, not the
decisions made from them.

What is hard, and what makes each component correct:

* **Scheduler.** *Decisions outlive the lock*: `check_timeouts` works from a copy of the map
  (phases 1-2) and acts on the map again (phases 3-4); `launch_task` writes the run's row
  before and after the launch. Correct means: a registered handle is open, only a process that
  is overdue is killed, a verdict in the history stands and is about a process that exited, a
  task that forbids overlap has one process, the schedule fires once per due minute, and the
  exit of a process is eventually noticed and journaled.
* **Database.** Statements fail; a delete cascades under launches and saves in flight. Correct:
  no process without its row, no row and no window without its task.
* **Pipe server.** Create and Update are sequences of statements that others see half done; a
  connection passes from the accept loop to a thread that may throw. Correct: a save that nobody
  disturbs is whole; every open pipe has one owner; every call ends.
* **Lifecycle.** A stop that the service has taken ends the process.
* **UI.** The editor works from two reads made at different times, through two conversions of
  every trigger. Correct: saving without an edit changes nothing.
* **JSON.** Two writers, two levels of escapes, one tolerant parser, and messages that are cut.
  Correct: what arrives whole is what was meant; a cut damages only the value it falls into.

## 2. Modules

    TimeWindow                is_in_window: pure operators
      TimeWindowWalk          walks a clock under it
        MCTimeWindow, TimeWindowProofs
      Scheduler               worker, clients, stop; database, clock and processes around it
        SchedulerProperties   the type invariant and the properties
          SchedulerRefinement     Scheduler => RunJournal (INSTANCE ... WITH)
            MCScheduler           instances for TLC
          SchedulerProofs         types, journal, deletion, handles; timeouts, exact times;
                                  no overlap
            SchedulerJournalProofs    the refinement, verdicts, no lost handle
    RunJournal                what run_history promises of the processes

    TaskStore                 tasks and time_windows behind the requests that write them
      TaskEditor              front ends over TaskStore, and the properties of both
        MCTaskEditor
        TaskEditorProofs      types, windows, whole saves; the last save, the untouched save

    PipeServer                client, accept loop, connection threads, service_main, controls;
                              PipeServer => Exchange (INSTANCE ... WITH)
      MCPipeServer, PipeServerProofs
    Exchange                  what the pipe promises the caller of SendAsync

    Json                      printer and parser of json.cpp
      RequestPath             a payload's way to its handler
        RequestCuts           what may become of a request that is cut
          MCRequestPath
          RequestCutsProofs   a payload that is cut is read as a part of it
        RequestPathProofs     a whole payload is read as it was meant
      JsonProofs              what is written is parsed as it was meant

Definitions marked as mutations are not part of the models: each stands before the definition
it would replace and is what a plausible slip would make of it. `PROJECT.json` pairs each with
the property that notices it.

### TimeWindow

A time of day is the number `time_to_minutes` gives it; a moment has the fields
`is_in_window` looks at. `IsInWindow` is the function as written: both day filters, then exact
times or the interval grid. Dates have no part in it because the code gives them none.
A repeat interval of 0 divides by zero in the code and is excluded from `WindowType`.
`TimeWindowWalk` takes one window of a set through a number of days, minute by minute, and
collects when it was open; the property compares that with a grid stated without division. The
window's numbers may lie outside the day, as nothing checks the strings the times come from.

### Scheduler

State, and where it is in the code:

| Model | Code |
|---|---|
| `table`, `enabled` | rows of `tasks`; an id is a GUID and never comes back |
| `row`, `owner`, `start` | `run_history`: status, task and start time (whole seconds) of each run |
| `running`, `since` | `running_map_[task].process_handle`, and its `start_time` |
| `handles` | process handles the service has not closed |
| `pending`, `last` | `pending_queue_`, `last_run_minute_` |
| `serving`, `doomed` | `running_`; the copy of the map that `stop` works through |
| `proc`, `clock`, `timer` | the processes, the system time, the auto-reset waitable timer |
| `pc`, `arg`, `run`, `ret`, `listed`, `todo`, `now`, `snap`, `exited`, `timedout`, `subject`, `found`, `verdict` | where each thread is and its locals |
| `fired` | history variable: the tick whose schedule began a run |

A run is a row of the history and the process launched for it; runs are numbered in the order
of their insertion. A SQLite statement is one step, a critical section is one step, a Windows
call is one step; what lies between is local to the thread. The steps of a tick are:

    TickBegin   list_tasks, now                           scheduler.cpp 189-194
    Decide      get_time_windows, last_run_minute_        201-225
    Overlap     the map and the policy, under lock_       227-243
      InsertHistory, CreateProcess, Register, RecordPid   launch_task, run_process
    PendingBegin, PendingTask (and a launch)              582-606
    CheckBegin, Snapshot                                  497-507
    Inspect     get_task, exit code, age                  513-539
      GetHistory, Settle                                  523-530
    EraseExited                                           541-546
    TakeTimedOut, Kill, GetHistory, Settle                549-575
    TickEnd

A client thread takes RunNow through the same four launch steps, with its own locals, or
changes the tables in one step. Any statement may throw: `tick` catches it, the structured
handler of a client thread ends the request; either way the rest of the work is dropped
(`Throw`). `Stop` takes the map if the lock is free, terminates what it took one process at a
time, and then the service ends and starts again (`Restart`); `Crash` does so at any moment.
The database and the processes survive both.
A terminated process is gone at once: `TerminateProcess` returns earlier than that, but the code
looks at the process no more, and only a new one started in between could meet it.

Abstractions: `tasks.on_overlap`, `timeout_minutes`, `kill_on_timeout` and the windows are
constants per task (how they are written is `TaskStore`'s; CreateTask writes the windows in the
same step as the task). `kill_on_timeout` may be TRUE although the request reader of this
version drops the field: the column is in the schema and in `get_task`, and rows written by
another version or tool have it. A launch that fails does so in one way: decryption, logon,
CreateProcess and CreateProcessAsUser all end in `return 0`. Exit codes are not kept, so code
259 (STILL_ACTIVE) is left out. The length of the pending queue saturates at `MaxPending`; only
its emptiness is looked at.

### RunJournal and SchedulerRefinement

`RunJournal` is the abstract specification of the history: `Begin`, `Launch`, `Exit`,
`Verdict`, `Erase`, and nothing of threads, maps, phases or clocks. It has the one weakness the
table's interface imposes: a record is found again by task and second, so of two runs that share
both (`HasTwin`) either may get a verdict. The mapping takes `origin` from `owner` and `start`,
and a row that is gone from a run that has begun as "erased". `ImplementsRunJournal` is
`Abstract!Spec`, a property of the run journaled and a theorem.

### TaskStore

`tasks`, `time_windows` are the tables, a window with the request that inserted it; `request`,
`pc`, `todo`, `answer` are the threads of the requests, one thread each. The steps are the
statements: `InsertTask` or `UpdateTask`, `DeleteTimeWindows`, one `InsertTimeWindow` per window
(which meets the foreign key), `Finish`; `DeleteTask` with its cascade, `ToggleTask`. A statement
may fail (the request ends with an error, what it wrote stays), and the service may end. A row
has `enabled` and `kill_on_timeout`, the two columns whose way through the system is not
straight; `FromJson` is `task_from_json` on them.

### TaskEditor

`seen` is the main window's list, `editor` the modal editor: its `phase` is the await
`LoadExistingAsync` is in, `list` is `_windows`, `asked` the saves under way (the Save button is not
disabled), `stray` those whose editor has been closed since. A trigger is one of the kinds the two
conversions tell apart. The actions are the event handlers: Refresh, OpenNew, OpenEditor,
DeleteSelected; LoadTask, LoadWindows, LoadFails; AddTrigger, RemoveTrigger, ReplaceTrigger, Save,
Answered, StrayAnswered, Cancel. EnableTask and DisableTask come from some other client, as the
front end has no button for them. `Target` draws the fresh GUID of a created task; `ToDto` is the
conversion of SaveBtn_Click. `lone`, `standing` and `entered` are history variables.

`Refresh` has a guard: the service writes the days of a weekly window by their names
(ipc.cpp:88-101), the main window's deserializer takes none (MainWindow.xaml.cs:53), and the
exception leaves the list as it was; so a task with such a window is reached from a list read
before. (That the list may pass when the windows' request itself is answered with an error is
left out.) `StrayAnswered` is an answer to a save whose editor is gone: success sets `DialogResult`
of a closed window (TaskEditorWindow.xaml.cs:303), which nobody catches, and the front end ends.

### PipeServer

One call is one `SendAsync`: `client[c]` is the await it is in, `pipe[c]` the server's end of
its connection, `handler[c]` the step of the thread that serves it. `acceptor` and `instance`
are the accept loop and the pipe it has made; the window between CreateNamedPipe and
ConnectNamedPipe, in which a client is dropped, is the step between `CreateInstance` and
`ConnectInstance`. `main`, `stop_event`, `status` are `service_main` and what the service
manager sees; `ClearThreads` ends the process when `client_threads_` is not empty, because the
destructor of a joinable thread terminates. A request is `small`, `brim` (65536 bytes to 4096
more: the drain loop reads the rest and then waits for the client to go), `huge` (the drain
loop fails with ERROR_MORE_DATA and goes on; what it leaves unread fits the quota of the pipe) or
`vast` (it does not fit). A write is begun (`Write`, from where the service can read) and returns
(`FinishWrite`) when what is unread of it `Fits`, which a vast one never does; `Mixes` are the
sizes the calls of a behaviour may have. What the handlers do is `TaskStore`'s.

`Exchange` is the abstract specification of a call: `Call`, `Send`, `Execute`, `Answer`,
`Return`, `Abandon`, and `Lose`, which ends any number of exchanges at once, and nothing of
threads, instances and sizes. A request moves from unsent to sent, executing and answered, or is
over; a call returns only when its request is answered or over, so a second attempt never races
the first. What it does not promise is that an error means "not executed". The mapping reads a
request's stage off `reply`, `handler`, `message`, `pipe` and `client`, without a history
variable. `ImplementsExchange` is `Abstract!Spec`, a property of the run pipe and a theorem.

### Json and RequestPath

A text is a sequence of units (characters, words, the four digits after `\u`, and what is left
of these where a text is cut, `CutCode`). `Serialize` is
the set of texts a value may have, as the members of an unordered_map come in any order; the
parser's operators return a value and a position, as its methods do. `RequestPath` takes a
payload through WritePayload, WriteRequest (JSON in a string in JSON), Receive (whole, or cut
after any unit, or within one), ReadRequest, ReadPayload, and ReadAgain, the handlers' habit of
serializing a part of what they have parsed and parsing that; `Take`, at the end, is what
`get_str` makes of each string (`Wide`, the conversion u2ws): the halves of a character beyond 16
bits, of which json.cpp:166 makes three bytes each that are no UTF-8, are replaced. (One unit
`replaced` stands for the replacement characters of a half.) The payload itself goes through the
same conversion on its way (`StringMember`), where it has no halves left: both writers write them
as codes.

The code's recursion is a function of a number in both directions: `Serialize` goes over the
depth of a value (`JsonValues[n]` are the values nested at most `n` deep), and `Reading(text)`
over the number of calls that are nested, each of which begins further on in the text, so that
one more than the text is long is always enough. `Characters`, `Depth`, `Values` and `Action`
are constants; the runs give them a handful of characters and payloads, the proofs none.

`RequestCuts` says what a cut may leave of a value: `PartsOf(v)` is `v`, nothing (`null`, `false` or
0, whichever routine finds the end of the text first), the beginning of a string, with the rest of
an escape, or of a number, the number 2 in place of a string, the first elements of an array, the
last perhaps a part, and some members of an object, one more perhaps a part. It goes over the depth
of the value, too. The number 2 is what json.cpp makes of a string's opening quote that was cut: the
front end writes it as `\u0022` in the request, json.cpp:157 refuses `\u002`, and `002` is read as a
number.

## 3. Properties

| Property | Says | Checked by | Proved |
|---|---|---|---|
| `TypeOK` (scheduler) | types | everything | `TypeCorrect` |
| `LaunchJournaled` | no process is launched without its row, across crashes and failed statements | everything | `LaunchesAreJournaled` |
| `DeletedLeavesNoRows` | a deleted task keeps no history, whatever was in flight | everything | `DeletionIsComplete` |
| `RegisteredIsOpen` | the map holds open handles; none is closed twice | clients | `HandlesAreSound` |
| `NoOverlap` | WaitComplete and WaitNext never have two processes, also when a window is open at every tick of a minute | worker | `SequentialTasksDoNotOverlap` |
| `OncePerMinute` | the schedule starts a task of exact times at most once a minute | worker | `AtMostOncePerMinute` |
| `KillOnlyOverdue` | only a process older than `timeout_minutes` is killed | worker | `OnlyOverdueAreKilled` |
| `CompletedHasExited` | a run marked Completed has exited | worker | `CompletedRunsHaveExited` |
| `VerdictIsFinal` | Completed and Timeout are never overwritten | worker | `VerdictsAreFinal` |
| `ImplementsRunJournal` | the history is a `RunJournal` of the processes | journaled | `HistoryIsAJournal` |
| `NoHandleIsLost` | an open handle is in the map, with `stop`, or held by the thread that registers or closes it | journaled | `HandlesAreNotLost` |
| `ExitIsNoticed` | the exit of a registered process frees the task | clients (fair) | |
| `ExitIsJournaled` | a run whose process exited does not stay Running | journaled (fair) | |
| `IntervalFiresOnItsGrid` | an interval is open at the minutes of its grid and at no other | windows | `IntervalsFireOnTheirGrid` |
| `TypeOK` (editor) | types | editor | `EditorTyped` |
| `WindowsBelongToTasks` | no window outlives its task, whatever saves are under way | editor | `NoOrphanedWindows` |
| `SaveIsWhole` | a save nobody overlaps, answered ok, has written exactly what was sent | editor | `LoneSavesAreWhole` |
| `NothingIsLost` | of the last save to replace a task's windows, answered ok, all windows are there, in order, under any overlap and fault | editor | `LastSaveIsComplete` |
| `UntouchedSaveKeepsSchedule` | open and save leaves the schedule as it was | editor | `UntouchedSavesKeepTheSchedule` |
| `TypeOK` (pipe) | types; an event exactly while main can wait for it | pipe | `PipesTyped` |
| `PipesAreOwned` | an open connection is in the hands of exactly one thread | pipe | `OneThreadPerPipe` |
| `ImplementsExchange` | a request is executed at most once, and never after its call has returned | pipe | `CallsAreExchanges` |
| `EveryCallReturns` | every call ends that neither the drain loop (brim) nor its own write (vast) holds | pipe (fair) | |
| `StopEndsTheProcess` | a stop that finds its event ends the process | pipe (fair) | |
| `ReadAsMeant` | what arrives whole is parsed as it was written, and taken so but for the halves of characters beyond 16 bits | json | `PayloadsAreRead` |
| `CutIsConfined` | a cut damages only the value it falls into; without the action no payload is read | json | `CutsAreConfined` |

`CompletedHasExited`, `VerdictIsFinal` and `ExitIsJournaled` except two runs of one task in one
second (`SharesItsSecond`): `get_history(task, 1)` finds the run by its start time, in whole
seconds, and SQLite may return either. `UntouchedSaveKeepsSchedule` excepts monthly windows,
which every save turns into daily ones, and speaks of saves after the load.

## 4. Runs

Bounds of the scheduler's runs: a minute has one or two seconds and a day two minutes, so that
the clock passes minutes and midnight within a few steps; two or three runs let one run follow,
overlap or overwrite another. Two tasks are enough for the worker's loops to mix tasks (nothing
in the code relates three). One client is enough for a launch outside the worker at any point of
a tick. The timer goes on when the clock has reached `MaxClock`.

The editor's runs have one front end, and two requests, so that two saves, a save and a delete,
or a save and a toggle overlap in every way (the other client is part of the model); two tasks,
one of them not yet created; one fault, and two windows, so that a save can be caught between
its first and its second. The pipe's run has two calls, since a call shares only the accept loop
and the process with others. The json run has a member of every kind beside an array, strings
with every class of character, and every cut.

Deadlock is checked in the runs of the scheduler and of windows; none of them stops, as time goes
on. In the editor's and the pipe's runs all requests come to an end, and in that of json the way
does; there it is not checked.

| Run | Instance | Distinct states |
|---|---|---|
| windows | 12-minute days, 4 days, every interval of a small set, also with times outside the day or no end | 10 080 |
| everything | 1 task, not yet created, 1 client, every request, every fault, 2 failures; a timeout of 0 minutes, so that timeouts happen while the clock stands still | 613 406 |
| worker | 2 tasks (WaitNext with exact times, WaitComplete with an interval that is open at each of the two ticks of a minute), timeouts that kill, 1 failed launch, 3 runs | 620 247 |
| clients | 1 task, RunNow and Delete; 2 of 3 runs are kept for the schedule so that the bound never stops the worker; fair | 98 141 |
| journaled | 1 task, a client that deletes, 1 failed launch, timeouts that kill; fair | 135 428 |
| editor | 1 front end, 2 tasks, 2 requests, 1 fault, a schedule of a weekly and a monthly window or one that the main window can list | 3 823 059 |
| pipe | 2 calls, every pair of sizes, starts, stops and crashes; fair | 287 832 |
| json | 48 payloads, all member orders, all cuts | 26 760 |

The remaining runs each show a statement of the documents or comments that the code
contradicts:

| Run | Statement | What the code does |
|---|---|---|
| pending | README: WaitComplete waits for the current run | the queue that is popped is a copy (scheduler.cpp:596): one overlap makes the task run for ever |
| daily | README: a daily task runs every day | `last_run_minute_` has no day (scheduler.cpp:211): one exact time runs once, until the service restarts |
| overdue | README: killed when it exceeds the timeout | phase 4 kills what is in the map now (scheduler.cpp:554), which RunNow may just have put there |
| saved | README: the fields and triggers of a task | `task_from_json` reads no KillOnTimeout, LogOutput, MaxHistoryRecords (ipc.cpp:197): every save resets them |

Met on the way, in the models but not given a run of their own:

* scheduler.cpp: an interval task is started again within its minute as soon as its process has
  ended (308, against README.md:81); RunNow's "Update history with PID" rewrites the whole row
  and undoes a verdict (336); a launch that fails leaves its run Running (336, against
  README.md:110); StartDate, EndDate and SpecificDates are never compared (263-268, against
  README.md:84-88); a disabled task is still launched from the pending queue (599, against
  SPECIFICATION.md:166); StartAnother drops the first process from the map (490); phase 3 erases
  by task id an entry RunNow has replaced (544); a process that outlives its timeout without
  being killed is forgotten and overlapped (555).
* The editor: a monthly window comes back as a daily one, as DaysOfMonth is never sent
  (TaskEditorWindow.xaml.cs:264-290); a one-time trigger made in the dialog loses date and time
  (159-170 copies neither); a save between the two awaits of the load erases the schedule (82);
  a save after an answer that was lost creates the task again (308); a save enables again what
  was disabled since the list was read (247);
  a second answer, or one after Cancel, ends the front end (303); and the main window lists nothing
  new while any task has a weekly window (MainWindow.xaml.cs:53 against ipc.cpp:88-101).
* The pipe: a request at the brim holds its thread and its client until the client goes
  (ipc.cpp:419), and one that leaves more unread than the pipe's quota does the same: the client
  waits in WriteAsync (IpcClient.cs:60), the service in FlushFileBuffers (ipc.cpp:452); a message
  that is cut is executed (422-442); a stop before the event exists is acknowledged and lost
  (service.cpp:113); a service that has served a request never reports STOPPED, because clearing its
  threads terminates it (ipc.cpp:342).
* JSON: a character beyond 16 bits arrives as two halves that are no UTF-8 (json.cpp:166), which
  u2ws replaces (config.h:19-25); and a request cut within `\u0022` is read with the number 2 where
  a string began (json.cpp:157, 238-255), which is a policy to ipc.cpp:178.

### Fairness

The scheduler's `Fairness` is weak fairness of `Advance` (the periodic timer fires), of
`WorkerStep` and of each client's `Launching` (Windows schedules threads that can run) and of
`StopProcess` (the loop in `stop`). Nothing is assumed of processes (they need not exit), of
clients (they need not ask for anything) or of failures. The liveness runs have no failing
statement and no stop: with a failed statement in phase 2 the entry of an exited process stays
in the map with a closed handle, and its task never runs again (hazard at scheduler.cpp:523).

The pipe's is weak fairness of each client's and each connection's thread, of the accept loop
and of `service_main`: threads that can go on do, and the handling of a request ends. A call
need not begin, a user need not close the front end, and the service need not be started,
stopped or crash. A thread in `Cleanup` waits for its client (FlushFileBuffers), one that drains
a brim request waits for ever, and so does the client of a vast one in `FinishWrite`: fairness
makes none of them go on. `EveryCallReturns` therefore is about small and huge requests, beside
calls of any size.

## 5. Proofs

All theorems are about `Spec` for any values of the constants (sets of tasks, clients, calls, front
ends; numbers of runs and requests; windows, policies and timeouts) under the named assumptions of
the modules: `BoundsAssumption`, `ThreadsAssumption`, `ConfigurationAssumption` and `DayAssumption`
for the scheduler, `WalkAssumption` for the walk (any integers as times), `StoreAssumption` and
`EditorAssumption`, `CallsAssumption` and `MixesAssumption`, and for JSON `CharactersAssumption`
(the mark of the end is no character), `DepthAssumption`, `ValuesAssumption` (payloads are JSON
values), `ActionAssumption` (no action has a character beyond 16 bits) and `KeysAssumption` (the
keys of a request are strings) and `CutAssumption` (`true`, `false` and `null` are units of their
own; the backslash and the rests of a code may be characters of a string, as they are when an escape
is cut). TLC evaluates them in every run.

* `TypeCorrect`. Inductive invariant `Typed`: `TypeOK` and, in `LocalsOK`, what each label says
  about the locals (a thread that is about to record has a run, the entries being inspected are
  in the snapshot, ...), without which the function applications of the next step have no type.
* `LaunchesAreJournaled`, `DeletionIsComplete`. Invariant `Journaled`: the two properties, and
  that a thread between insert and record holds a run whose row exists unless its task has been
  deleted. Deletion is not undone because ids are not reused, and `update_history` of a row that
  is gone changes nothing.
* `HandlesAreSound`, assuming no Stop and no failed statement. Invariant `HandlesSound`:
  the map's entries belong to their tasks (`OwnersMatch`), a run in flight between
  CreateProcess and registration is held by one thread (`InFlightPrivate`), and what the phases of
  `check_timeouts` know of snapshot, `exited` and `subject` (`CheckPhase`). RunNow may replace
  entries at any point; phase 3 then erases a fresh entry, which leaks its handle but closes
  nothing. Without the assumptions the property is false: `stop` and the worker close the same
  handle, and a failed statement leaves a closed one in the map.
* `OnlyOverdueAreKilled`, assuming no RunNow. `TimeoutSound`: between phases 2 and 4 the entry
  of a task in `timedout` is the one whose age was compared; the clock only moves on, and
  elapsed minutes are monotone (`DivMonotone`). The run overdue shows the assumption is needed.
* `AtMostOncePerMinute`, assuming the service is not restarted. `MinuteSound`
  speaks of a frontier, the tick's `now` while it decides and the clock otherwise: no run of exact
  times was fired past it, one fired in its minute is remembered in `last_run_minute_`
  (`FiredBehind`), and a decision on its way to `insert_history` has no earlier run in its minute
  (`DecisionIsNew`). The frontier never goes back.
* `SequentialTasksDoNotOverlap`, assuming an `Undisturbed` service. `OverlapSound`: a living
  process of a sequential task is in the map, about to be registered, or about to be killed
  (`AliveIsTracked`); a launch goes on only while nothing of its task is alive (`LaunchIsClear`);
  phase 3 erases the dead and phase 4 takes those it will kill. Every assumption is needed: with
  `kill_on_timeout` unset, for one, TLC finds two processes.
* `HistoryIsAJournal`, `CompletedRunsHaveExited`, `VerdictsAreFinal`, assuming
  `OnlyTheWorkerLaunches` (no RunNow, no failed statement, sequential policies); clients delete,
  create and toggle, the service stops and crashes, launches fail. Invariant `JournalSound`: what
  the map, its copy and the verdict under way are about is the newest run of its task, so the one
  `get_history(task, 1)` returns or a twin of it (`EntriesAreNewest`); a launch finds no entry of
  its task and leads to a newest run without a verdict (`LaunchIsNewest`); what is registered or
  being judged is undecided, and what is judged Completed has exited. The refinement then has a
  step lemma per writer of `row` or `proc`; every other action is a stutter. Each assumption is
  needed, as the comment at `OnlyTheWorkerLaunches` says.
* `HandlesAreNotLost`, under the same assumptions. Invariant `HandlesKept`: while phase 2 works
  through its copy, the map holds nothing that was not copied, and of a task in `exited_tasks` the
  handle is closed or about to be (`CopyIsCurrent`), so phase 3 erases nothing open; a launch
  replaces no entry (`LaunchIsNewest` above); and `stop` takes the map once. Each assumption is
  needed here too: RunNow's entry is erased by phase 3, StartAnother's second launch drops the
  first handle, and a statement that throws in phase 4 leaves a handle nobody knows. The run
  journaled has no stop (its liveness property needs a service that stays up); the theorem has.
* `IntervalsFireOnTheirGrid`. Invariant
  `Collected`: what has been collected is what `is_in_window` says of each minute of the day so
  far. Then `Divides` is compared with the grid: the code asks for a remainder of 0, the grid
  for a multiple (`DivisionUnique`, `DividesMultiples`; a negative step counts like its absolute
  value), and the code's two tests of the end are one of the earlier end (`EarlierEnd`).
* `EditorTyped`, `NoOrphanedWindows`. The first by the types of store and front end with what an
  editor that loads knows of its subject; the second needs no more: a window is inserted only
  where the foreign key finds a parent, and the cascade leaves none.
* `LoneSavesAreWhole`. Invariant `SaveSound`: a request on a task that no other overlaps is the
  only one at work there (`LoneRequests`), so that once it is past its first statement the row is
  what it wrote, and past the second the windows are those it wrote so far followed by those it
  has still to insert (`RowWritten`, `WindowsWritten`); a created task's id is fresh
  (`FreshIds`), so it begins without windows (`WindowsBelongToTasks`).
* `LastSaveIsComplete`. Invariant `StandingSound`: of the request that last deleted a task's
  windows, those of its windows that are in the table, in their order, followed by those it has
  still to insert, are its plan, as long as it has not failed; other requests insert between them
  and change nothing of that. `InsertedBy` is a recursive function, so the lemmas about what an
  insertion appends to it are by induction. The induction theorems of the library take a predicate
  as a parameter, which the provers cannot instantiate; `SetInduction` is the same principle about
  a set, from the well-foundedness of `<` and `WFMin`.
* `UntouchedSavesKeepTheSchedule`. Invariants `BaseSound` (until the user edits it, an
  editor's list is what it loaded) and `KeptSound` (a save sent in this state carries the same
  windows, each as `ToDto` renders it); at the end, what it inserted is what it was sent
  (`LoneSavesAreWhole`'s invariant), and `ToDto` and the load are inverse but for monthly windows.
* `PipesTyped`, `OneThreadPerPipe`. Invariant `PipesSound`: types and ownership, and
  in `Owners` that a call which has not connected has no pipe, that the accept loop has an
  instance exactly between making it and handing it over, and that a process which is down or
  booting runs nothing; so dropping, throwing, stopping and crashing each release a connection
  exactly once.
* `CallsAreExchanges`. Invariant `Delivered`: a request is taken out of the pipe for good, as its
  caller has nothing left to write, and an answer is given by a thread that then only cleans up.
  With `PipesSound` every action is one of `Exchange` or nothing to it: a step about one call
  leaves the others alone (`OneCall`), and the end of the process loses exactly the connections
  that were open (`ProcessLoses`).

* `WrittenIsRead`. A text is `Readable` as a value if `parse_value` makes that value of it wherever
  it stands in a document and no digit follows it (`123` alone would otherwise be read in a longer
  number; what follows a value is a comma, a bracket or the end). Strings are read by induction
  from their last character to the first, the escape of each being one call of the parser
  (`EscapeIsRead`), with any unit in them, so that JSON may be a string of JSON. Elements and
  members are read by the same induction over the places where they begin (`ElementsAreRead`,
  `MembersAreRead`: as the keys differ, no member replaces another). Then arrays and objects of
  readable texts are readable, and by induction over the depth everything `Serialize` writes is;
  any order of an object's members gives the same object (`OrdersAreComplete`).
* `PayloadsAreRead`. Invariant `OnItsWay`: at each stage up to the reading, the text is one that
  may be written of the value, or the request with such a payload; a request is an object of two
  strings, so both are found again (`RequestIsRead`), and get_str takes both as they are, as a text
  that was written has no halves in it (`TextsAreTaken`); with `WrittenIsRead` the payload, its
  reading and every further writing and reading give the value. What the handlers take of it at the
  end is `Taken` of the value, and by induction over the depth that is the value itself if no
  string has a half of a character beyond 16 bits (`OnlyHalvesAreLost`).
* `CutsAreConfined`. A text is `Cuttable` if `parse_value`, wherever the text stands and wherever
  the document is cut in it, makes one of a given set of values of it and stops where nothing is
  left, or the rest of the unit that was cut (`CutReads`): there the loops of `parse_array` and
  `parse_object` end too, as no comma follows. Words, numbers and strings are cuttable
  (`WordIsCuttable`, `NumberIsCuttable`, `StringIsCuttable`: what is left of an escape is taken for
  characters, and for the number 2 where it stands for an opening quote); arrays and objects are if
  what is in them is (`ArrayIsCuttable`, `ObjectIsCuttable`), by induction from the element or
  member that is cut back to the first; and by induction over the depth the values in question are
  `PartsOf` the value (`SerializedIsCut`). The request is an object of two strings: it is read
  whole, or its last member is a part, so the payload is missing or a beginning of a text that was
  written (`CutRequestIsRead`), which is cut once more (`CutPayloadIsRead`): now the rest of an
  escape may stand at its end, as the payload's units were escaped in the request. Invariant
  `PartOnItsWay` says this stage by stage.

Each invariant was checked by TLC on the instances above before it was proved. Every safety
property that a run checks is proved; liveness is only model-checked (out of the prover's reach
under fairness).

## 6. Not modelled

* SQLite (vendored, over 230 000 lines): its contract is assumed. The build scripts and the
  project files: nothing at run time.
* `main.cpp`: `wmain` chooses how the program runs, `run_standalone` runs scheduler and pipe
  without a service around them, until an event that nothing in this repository sets. The
  scheduler and the pipe are the ones modelled; what is left out is their life without the service
  manager.
* Encryption of passwords, logon, and the redirection of output in `run_process`: they change
  nothing any other part reads, and their failures are the failure of `CreateProcess`.
* Requests that only read, but for those the editor loads with; `get_status`; HistoryWindow and
  the converters of the UI, which only show.
* `trim_history` and `json::unescape`: no caller.
* The fields of a task that go straight through (name, paths, styles, retry count, credentials),
  the validation and layout of the dialogs.
* White space, fractions and exponents in JSON: nobody writes them.
* `TaskStore` and `Scheduler` are not composed: what one needs of the other is that windows are
  read in one statement and written one at a time, which `TaskStore` says, and that a tick works
  from any set of windows, which `Scheduler`'s constants give it.
