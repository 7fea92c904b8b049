-------------------------- MODULE SchedulerProofs ---------------------------
(***************************************************************************)
(* Type correctness of the scheduler, the history's record of every        *)
(* launch, and the process handles of the running map, for any number of   *)
(* tasks, clients and runs.                                                *)
(*                                                                         *)
(* Each invariant is proved inductive with one step per action of Next; a  *)
(* leaf expands the action and the operators it is made of.                *)
(***************************************************************************)
EXTENDS SchedulerProperties, TLAPS

(* What the threads hold in their locals at each step.  Without it the     *)
(* types are not inductive: a step that writes row[run[th]], say, must     *)
(* know that run[th] is a run.                                             *)
LocalsOK ==
    /\ \A c \in Clients : pc[c] \in Labels \cup {"idle"} /\ ret[c] = "idle"
    /\ \A th \in Threads :
          /\ pc[th] \in Labels => arg[th] \in Tasks
          /\ pc[th] \in {"create", "register", "record"} => run[th] \in Runs
    /\ pc[Worker] \in {"overlap", "kill", "fetch", "settle"} => arg[Worker] \in Tasks
    /\ pc[Worker] \in {"kill", "fetch", "settle"} =>
          subject \in Runs /\ verdict \in {"Completed", "Timeout"}

Typed == TypeOK /\ LocalsOK

(* current_minute, and so last_run_minute_, is a minute of the day.        *)
LEMMA MinuteOfDay ==
    ASSUME NEW c \in Nat
    PROVE  At(c).minute \in MinutesOfDay
<1>1. c \div SecondsPerMinute \in Nat
  BY BoundsAssumption
<1> QED
  BY <1>1, DayAssumption DEF At, MinutesOfDay

(* The service starts in a typed state ...                                *)
LEMMA TypedInit == Init => Typed
BY BoundsAssumption, ThreadsAssumption, ConfigurationAssumption
DEF Init, Typed, TypeOK, LocalsOK, Option, Threads, Labels, Rest

(* ... and every step keeps the state typed.                               *)
LEMMA TypedStep == Typed /\ [Next]_vars => Typed'
<1> SUFFICES ASSUME Typed, [Next]_vars PROVE Typed'
  OBVIOUS
<1> USE BoundsAssumption, ThreadsAssumption
    DEF Typed, TypeOK, LocalsOK, Option, Threads, Labels,
        machine, database, memory, launch, tick, check
<1>1. ASSUME NEW th \in Threads, InsertHistory(th) PROVE Typed'
  BY <1>1 DEF InsertHistory, Throw, Live, ForeignKey, InsertRow, Fresh, Goto, Rest,
     ForgetLaunch, ForgetTick, ForgetCheck, ForgetSubject
<1>2. ASSUME NEW th \in Threads, CreateProcess(th) PROVE Typed'
  BY <1>2 DEF CreateProcess, Goto
<1>3. ASSUME NEW th \in Threads, Register(th) PROVE Typed'
  BY <1>3 DEF Register, Goto
<1>4. ASSUME NEW th \in Threads, RecordPid(th) PROVE Typed'
  BY <1>4 DEF RecordPid, Goto, ForgetLaunch, Rest
<1>5. CASE TickBegin
  <2>1. timer' = FALSE /\ serving' = serving
    BY <1>5 DEF TickBegin
  <2>2. /\ listed' = enabled /\ todo' = enabled /\ now' = clock
        /\ pc' = [pc EXCEPT ![Worker] = "scan"]
        /\ UNCHANGED <<clock, proc, faults, database, memory, launch, check, fired>>
    BY <1>5 DEF TickBegin, Goto
  <2>3. LocalsOK'
    BY <2>1, <2>2
  <2>4. timer' \in BOOLEAN
    BY <2>1
  <2>5. serving' \in BOOLEAN
    BY <2>1
  <2>6. listed' \in SUBSET Tasks /\ todo' \in SUBSET Tasks /\ now' \in Nat
    BY <2>2
  <2>7. pc' \in [Threads ->
            Labels \cup {"idle", "wait", "scan", "overlap", "pend", "snapshot",
                                       "inspect", "expire", "kill", "fetch", "settle"}]
    BY <2>2
  <2> QED
    BY <2>2, <2>3, <2>4, <2>5, <2>6, <2>7
<1>6. ASSUME NEW t \in Tasks, Decide(t) PROVE Typed'
  <2>1. At(now).minute \in MinutesOfDay
    BY MinuteOfDay
  <2>2. /\ todo' = todo \ {t}
        /\ \/ UNCHANGED <<last, pc, arg>>
           \/ /\ last' = [last EXCEPT ![t] = At(now).minute] \/ last' = last
              /\ pc' = [pc EXCEPT ![Worker] = "overlap"]
              /\ arg' = [arg EXCEPT ![Worker] = t]
        /\ UNCHANGED <<machine, database, serving, running, since, handles, pending, doomed,
                       run, ret, listed, now, check, fired>>
    BY <1>6 DEF Decide, Goto
  <2> QED
    BY <1>6, <2>1, <2>2
<1>7. CASE Overlap
  BY <1>7 DEF Overlap, Goto, Call, ForgetLaunch, Rest, Push
<1>8. CASE PendingBegin
  BY <1>8 DEF PendingBegin, Goto
<1>9. ASSUME NEW t \in Tasks, PendingTask(t) PROVE Typed'
  BY <1>9 DEF PendingTask, Goto, Call
<1>10. CASE CheckBegin
  BY <1>10 DEF CheckBegin, Goto
<1>11. CASE Snapshot
  BY <1>11 DEF Snapshot, Goto
<1>12. ASSUME NEW t \in Tasks, Inspect(t) PROVE Typed'
  BY <1>12 DEF Inspect, Goto, SeenExited
<1>13. CASE EraseExited
  BY <1>13 DEF EraseExited, Erased, Goto, ForgetCheck, ForgetSubject
<1>14. ASSUME NEW t \in Tasks, TakeTimedOut(t) PROVE Typed'
  BY <1>14 DEF TakeTimedOut, Goto, Unregister
<1>15. CASE Kill
  <2>1. proc' = proc \/ Terminate(subject)
    BY <1>15 DEF Kill
  <2>2. /\ pc[Worker] = "kill"
        /\ pc' = [pc EXCEPT ![Worker] = "fetch"]
        /\ UNCHANGED <<clock, timer, faults, database, memory, launch, tick, check, fired>>
    BY <1>15 DEF Kill, Goto
  <2>3. proc' \in [Runs -> {"none", "alive", "exited"}]
    BY <1>15, <2>1 DEF Terminate
  <2>4. LocalsOK'
    BY <2>2
  <2> QED
    BY <2>2, <2>3, <2>4
<1>16. CASE GetHistory
  BY <1>16 DEF GetHistory, Goto, Latest, RowsOf
<1>17. CASE Settle
  BY <1>17 DEF Settle, Goto, ForgetLaunch, Rest, ForgetSubject
<1>18. CASE TickEnd
  BY <1>18 DEF TickEnd, Goto, ForgetTick
<1>19. ASSUME NEW c \in Clients, NEW t \in Tasks, RunNow(c, t) PROVE Typed'
  BY <1>19 DEF RunNow, Call, Goto
<1>20. ASSUME NEW c \in Clients, NEW t \in Tasks, CreateTask(c, t) PROVE Typed'
  BY <1>20 DEF CreateTask
<1>21. ASSUME NEW c \in Clients, NEW t \in Tasks, ToggleTask(c, t) PROVE Typed'
  BY <1>21 DEF ToggleTask
<1>22. ASSUME NEW c \in Clients, NEW t \in Tasks, DeleteTask(c, t) PROVE Typed'
  BY <1>22 DEF DeleteTask
<1>23. CASE Stop
  <2>1. serving' \in BOOLEAN
    BY <1>23 DEF Stop
  <2>2. \/ UNCHANGED <<running, doomed>>
        \/ doomed' = Registered /\ running' = [t \in Tasks |-> None]
    BY <1>23, Zenon DEF Stop
  <2>3. UNCHANGED <<machine, database, since, handles, pending, last,
                   pc, launch, tick, check, fired>>
    BY <1>23 DEF Stop
  <2>4. running' \in [Tasks -> Option(Runs)] /\ doomed' \in SUBSET Runs
    BY <2>2 DEF Registered
  <2>5. LocalsOK'
    BY <2>3
  <2> QED
    BY <2>1, <2>3, <2>4, <2>5
<1>24. ASSUME NEW r \in Runs, StopProcess(r) PROVE Typed'
  BY <1>24 DEF StopProcess, Terminate
<1>25. CASE Restart
  BY <1>25 DEF Restart, Reboot, Rest, ForgetTick, ForgetCheck, ForgetSubject
<1>26. CASE Crash
  BY <1>26 DEF Crash, Reboot, Rest, ForgetTick, ForgetCheck, ForgetSubject
<1>27. CASE Advance
  BY <1>27 DEF Advance
<1>28. ASSUME NEW r \in Runs, ProcessExits(r) PROVE Typed'
  BY <1>28 DEF ProcessExits
<1>29. ASSUME NEW th \in Threads, DatabaseFails(th) PROVE Typed'
  BY <1>29 DEF DatabaseFails, Throw, InStatement, Goto, Rest, ForgetLaunch, ForgetTick,
     ForgetCheck, ForgetSubject
<1>30. CASE UNCHANGED vars
  BY <1>30 DEF vars
<1> QED
  BY <1>1, <1>2, <1>3, <1>4, <1>5, <1>6, <1>7, <1>8, <1>9, <1>10, <1>11, <1>12, <1>13, <1>14,
     <1>15, <1>16, <1>17, <1>18, <1>19, <1>20, <1>21, <1>22, <1>23, <1>24, <1>25, <1>26,
     <1>27, <1>28, <1>29, <1>30 DEF Next, WorkerStep, ClientStep, Launching

(* Every variable keeps its type and every thread its locals, whatever the *)
(* clients ask for and whatever fails.                                     *)
THEOREM TypeCorrect == Spec => []TypeOK
<1>1. Init => Typed
  BY TypedInit
<1>2. Typed /\ [Next]_vars => Typed'
  BY TypedStep
<1>3. Typed => TypeOK
  BY DEF Typed
<1> QED
  BY <1>1, <1>2, <1>3, PTL DEF Spec

(* The same, with the locals: the premise of the proofs below.             *)
LEMMA AlwaysTyped == Spec => []Typed
BY TypedInit, TypedStep, PTL DEF Spec
-----------------------------------------------------------------------------
(* A run whose row is written or whose process is made is the run of the   *)
(* task being launched, and is in the history unless the task was deleted. *)
InFlightJournaled ==
    \A th \in Threads : pc[th] \in {"create", "register", "record"} =>
        /\ owner[run[th]] = arg[th]
        /\ row[run[th]] # "none" \/ table[arg[th]] = "deleted"

(* Only a process that was launched can be terminated.                     *)
OpenWasStarted == \A r \in handles : proc[r] # "none"

Journaled == LaunchJournaled /\ DeletedLeavesNoRows /\ InFlightJournaled /\ OpenWasStarted

(* Initially there are neither rows nor processes.                         *)
LEMMA JournaledInit == Init => Journaled
BY ThreadsAssumption DEF Init, Journaled, LaunchJournaled, DeletedLeavesNoRows,
   InFlightJournaled, OpenWasStarted, Threads, Rest

(* insert_history before CreateProcess; the deletion of a task takes all   *)
(* its rows; update_history makes none.                                    *)
LEMMA JournaledStep == Typed /\ Journaled /\ [Next]_vars => Journaled'
<1> SUFFICES ASSUME Typed, Journaled, [Next]_vars PROVE Journaled'
  OBVIOUS
<1> USE ThreadsAssumption
    DEF Typed, TypeOK, LocalsOK, Option, Threads, Labels, Journaled, LaunchJournaled,
        DeletedLeavesNoRows, InFlightJournaled, OpenWasStarted,
        machine, database, memory, launch, tick, check
<1>1. ASSUME NEW th \in Threads, InsertHistory(th) PROVE Journaled'
  BY <1>1 DEF InsertHistory, Throw, Live, ForeignKey, InsertRow, Fresh, Goto, Rest,
     ForgetLaunch, ForgetTick, ForgetCheck, ForgetSubject
<1>2. ASSUME NEW th \in Threads, CreateProcess(th) PROVE Journaled'
  BY <1>2 DEF CreateProcess, Goto
<1>3. ASSUME NEW th \in Threads, Register(th) PROVE Journaled'
  BY <1>3 DEF Register, Goto
<1>4. ASSUME NEW th \in Threads, RecordPid(th) PROVE Journaled'
  BY <1>4 DEF RecordPid, Goto, ForgetLaunch, Rest
<1>5. CASE TickBegin
  BY <1>5 DEF TickBegin, Goto
<1>6. ASSUME NEW t \in Tasks, Decide(t) PROVE Journaled'
  BY <1>6 DEF Decide, Goto, MinutesOfDay
<1>7. CASE Overlap
  BY <1>7 DEF Overlap, Goto, Call, ForgetLaunch, Rest, Push
<1>8. CASE PendingBegin
  BY <1>8 DEF PendingBegin, Goto
<1>9. ASSUME NEW t \in Tasks, PendingTask(t) PROVE Journaled'
  BY <1>9 DEF PendingTask, Goto, Call
<1>10. CASE CheckBegin
  BY <1>10 DEF CheckBegin, Goto
<1>11. CASE Snapshot
  BY <1>11 DEF Snapshot, Goto
<1>12. ASSUME NEW t \in Tasks, Inspect(t) PROVE Journaled'
  BY <1>12 DEF Inspect, Goto, SeenExited
<1>13. CASE EraseExited
  BY <1>13 DEF EraseExited, Erased, Goto, ForgetCheck, ForgetSubject
<1>14. ASSUME NEW t \in Tasks, TakeTimedOut(t) PROVE Journaled'
  BY <1>14 DEF TakeTimedOut, Goto, Unregister
<1>15. CASE Kill
  BY <1>15 DEF Kill, Goto, Terminate
<1>16. CASE GetHistory
  BY <1>16 DEF GetHistory, Goto, Latest, RowsOf
<1>17. CASE Settle
  BY <1>17 DEF Settle, Goto, ForgetLaunch, Rest, ForgetSubject
<1>18. CASE TickEnd
  BY <1>18 DEF TickEnd, Goto, ForgetTick
<1>19. ASSUME NEW c \in Clients, NEW t \in Tasks, RunNow(c, t) PROVE Journaled'
  BY <1>19 DEF RunNow, Call, Goto
<1>20. ASSUME NEW c \in Clients, NEW t \in Tasks, CreateTask(c, t) PROVE Journaled'
  BY <1>20 DEF CreateTask
<1>21. ASSUME NEW c \in Clients, NEW t \in Tasks, ToggleTask(c, t) PROVE Journaled'
  BY <1>21 DEF ToggleTask
<1>22. ASSUME NEW c \in Clients, NEW t \in Tasks, DeleteTask(c, t) PROVE Journaled'
  BY <1>22 DEF DeleteTask
<1>23. CASE Stop
  BY <1>23 DEF Stop, Registered
<1>24. ASSUME NEW r \in Runs, StopProcess(r) PROVE Journaled'
  BY <1>24 DEF StopProcess, Terminate
<1>25. CASE Restart
  BY <1>25 DEF Restart, Reboot, Rest, ForgetTick, ForgetCheck, ForgetSubject
<1>26. CASE Crash
  BY <1>26 DEF Crash, Reboot, Rest, ForgetTick, ForgetCheck, ForgetSubject
<1>27. CASE Advance
  BY <1>27 DEF Advance
<1>28. ASSUME NEW r \in Runs, ProcessExits(r) PROVE Journaled'
  BY <1>28 DEF ProcessExits
<1>29. ASSUME NEW th \in Threads, DatabaseFails(th) PROVE Journaled'
  BY <1>29 DEF DatabaseFails, Throw, InStatement, Goto, Rest, ForgetLaunch, ForgetTick,
     ForgetCheck, ForgetSubject
<1>30. CASE UNCHANGED vars
  BY <1>30 DEF vars
<1> QED
  BY <1>1, <1>2, <1>3, <1>4, <1>5, <1>6, <1>7, <1>8, <1>9, <1>10, <1>11, <1>12, <1>13, <1>14,
     <1>15, <1>16, <1>17, <1>18, <1>19, <1>20, <1>21, <1>22, <1>23, <1>24, <1>25, <1>26,
     <1>27, <1>28, <1>29, <1>30 DEF Next, WorkerStep, ClientStep, Launching

(* The invariant of the journal holds in every state.                      *)
LEMMA AlwaysJournaled == Spec => []Journaled
BY JournaledInit, JournaledStep, AlwaysTyped, PTL DEF Spec

(* No process runs unrecorded, whatever fails or crashes between the       *)
(* insertion of the row and the launch.                                    *)
THEOREM LaunchesAreJournaled == Spec => []LaunchJournaled
<1>1. Journaled => LaunchJournaled
  BY DEF Journaled
<1> QED
  BY <1>1, AlwaysJournaled, PTL

(* A deleted task has no history, also when launches and checks of it were *)
(* under way.                                                              *)
THEOREM DeletionIsComplete == Spec => []DeletedLeavesNoRows
<1>1. Journaled => DeletedLeavesNoRows
  BY DEF Journaled
<1> QED
  BY <1>1, AlwaysJournaled, PTL
-----------------------------------------------------------------------------
(* As long as nobody calls stop, it has taken nothing.                     *)
NoStop == serving /\ doomed = {}

(* A run on its way from insert_history to the map belongs to one thread,  *)
(* and nothing else refers to it.                                          *)
InFlightPrivate ==
    /\ \A th \in Threads : pc[th] \in {"create", "register", "record"} =>
          /\ owner[run[th]] = arg[th]
          /\ \A other \in Threads \ {th} :
                pc[other] \in {"create", "register", "record"} => run[other] # run[th]
    /\ \A th \in Threads : pc[th] \in {"create", "register"} =>
          /\ \A t \in Tasks : run[th] \notin {running[t], snap[t]}
          /\ run[th] # subject
    /\ \A th \in Threads : pc[th] = "register" => run[th] \in handles

(* The map, and check_timeouts' copy of it, file a run under its own task: *)
(* so two entries are never the same run.                                  *)
OwnersMatch ==
    /\ \A t \in Tasks : running[t] # None => owner[running[t]] = t
    /\ \A t \in Tasks : snap[t] # None => owner[snap[t]] = t
    /\ subject # None => owner[subject] # None

(* How the phases of check_timeouts hand the closing of handles over:      *)
(* exited_tasks is empty outside phases 2 and 3, what phase 4 examines has *)
(* left the map, and what phase 2 examines is in exited_tasks.             *)
CheckPhase ==
    /\ pc[Worker] \notin {"inspect", "fetch", "settle"} => exited = {}
    /\ pc[Worker] \in {"fetch", "settle"} /\ verdict = "Timeout" => exited = {}
    /\ pc[Worker] = "kill" => verdict = "Timeout"
    /\ pc[Worker] \in {"kill", "fetch", "settle"} /\ verdict = "Timeout" =>
          \A t \in Tasks : running[t] # subject
    /\ pc[Worker] \in {"fetch", "settle"} /\ verdict = "Completed" =>
          subject = snap[arg[Worker]] /\ arg[Worker] \in exited

HandlesSound == RegisteredIsOpen /\ NoStop /\ InFlightPrivate /\ OwnersMatch /\ CheckPhase

(* Initially the map is empty and no handle is open.                       *)
LEMMA HandlesInit == Init => HandlesSound
BY ThreadsAssumption DEF Init, HandlesSound, RegisteredIsOpen, NoStop, InFlightPrivate,
   OwnersMatch, CheckPhase, Option, Threads, Rest

(* stop closes handles the worker may be about to close, and an exception  *)
(* of the database leaves entries whose handles are closed: the invariant  *)
(* is for the service that runs without either.                            *)
LEMMA HandlesStep ==
    ASSUME "Stop" \notin Requests, "Database" \notin Faults
    PROVE  Typed /\ HandlesSound /\ [Next]_vars => HandlesSound'
<1> SUFFICES ASSUME Typed, HandlesSound, [Next]_vars PROVE HandlesSound'
  OBVIOUS
<1> USE ThreadsAssumption
    DEF Typed, TypeOK, LocalsOK, Option, Threads, Labels, HandlesSound, RegisteredIsOpen,
        NoStop, InFlightPrivate, OwnersMatch, CheckPhase,
        machine, database, memory, launch, tick, check
<1>1. ASSUME NEW th \in Threads, InsertHistory(th) PROVE HandlesSound'
  BY <1>1 DEF InsertHistory, Throw, Live, ForeignKey, InsertRow, Fresh, Goto, Rest,
     ForgetLaunch, ForgetTick, ForgetCheck, ForgetSubject
<1>2. ASSUME NEW th \in Threads, CreateProcess(th) PROVE HandlesSound'
  BY <1>2 DEF CreateProcess, Goto
<1>3. ASSUME NEW th \in Threads, Register(th) PROVE HandlesSound'
  BY <1>3 DEF Register, Goto
<1>4. ASSUME NEW th \in Threads, RecordPid(th) PROVE HandlesSound'
  BY <1>4 DEF RecordPid, Goto, ForgetLaunch, Rest
<1>5. CASE TickBegin
  BY <1>5 DEF TickBegin, Goto
<1>6. ASSUME NEW t \in Tasks, Decide(t) PROVE HandlesSound'
  BY <1>6 DEF Decide, Goto, MinutesOfDay
<1>7. CASE Overlap
  BY <1>7 DEF Overlap, Goto, Call, ForgetLaunch, Rest, Push
<1>8. CASE PendingBegin
  BY <1>8 DEF PendingBegin, Goto
<1>9. ASSUME NEW t \in Tasks, PendingTask(t) PROVE HandlesSound'
  BY <1>9 DEF PendingTask, Goto, Call
<1>10. CASE CheckBegin
  BY <1>10 DEF CheckBegin, Goto
<1>11. CASE Snapshot
  BY <1>11 DEF Snapshot, Goto
<1>12. ASSUME NEW t \in Tasks, Inspect(t) PROVE HandlesSound'
  BY <1>12 DEF Inspect, Goto, SeenExited
<1>13. CASE EraseExited
  BY <1>13 DEF EraseExited, Erased, Goto, ForgetCheck, ForgetSubject
<1>14. ASSUME NEW t \in Tasks, TakeTimedOut(t) PROVE HandlesSound'
  BY <1>14 DEF TakeTimedOut, Goto, Unregister
<1>15. CASE Kill
  BY <1>15 DEF Kill, Goto, Terminate
<1>16. CASE GetHistory
  BY <1>16 DEF GetHistory, Goto, Latest, RowsOf
<1>17. CASE Settle
  BY <1>17 DEF Settle, Goto, ForgetLaunch, Rest, ForgetSubject
<1>18. CASE TickEnd
  BY <1>18 DEF TickEnd, Goto, ForgetTick
<1>19. ASSUME NEW c \in Clients, NEW t \in Tasks, RunNow(c, t) PROVE HandlesSound'
  BY <1>19 DEF RunNow, Call, Goto
<1>20. ASSUME NEW c \in Clients, NEW t \in Tasks, CreateTask(c, t) PROVE HandlesSound'
  BY <1>20 DEF CreateTask
<1>21. ASSUME NEW c \in Clients, NEW t \in Tasks, ToggleTask(c, t) PROVE HandlesSound'
  BY <1>21 DEF ToggleTask
<1>22. ASSUME NEW c \in Clients, NEW t \in Tasks, DeleteTask(c, t) PROVE HandlesSound'
  BY <1>22 DEF DeleteTask
<1>23. CASE Stop
  BY <1>23 DEF Stop, Registered
<1>24. ASSUME NEW r \in Runs, StopProcess(r) PROVE HandlesSound'
  BY <1>24 DEF StopProcess, Terminate
<1>25. CASE Restart
  BY <1>25 DEF Restart, Reboot, Rest, ForgetTick, ForgetCheck, ForgetSubject
<1>26. CASE Crash
  BY <1>26 DEF Crash, Reboot, Rest, ForgetTick, ForgetCheck, ForgetSubject
<1>27. CASE Advance
  BY <1>27 DEF Advance
<1>28. ASSUME NEW r \in Runs, ProcessExits(r) PROVE HandlesSound'
  BY <1>28 DEF ProcessExits
<1>29. ASSUME NEW th \in Threads, DatabaseFails(th) PROVE HandlesSound'
  BY <1>29 DEF DatabaseFails, Throw, InStatement, Goto, Rest, ForgetLaunch, ForgetTick,
     ForgetCheck, ForgetSubject
<1>30. CASE UNCHANGED vars
  BY <1>30 DEF vars
<1> QED
  BY <1>1, <1>2, <1>3, <1>4, <1>5, <1>6, <1>7, <1>8, <1>9, <1>10, <1>11, <1>12, <1>13, <1>14,
     <1>15, <1>16, <1>17, <1>18, <1>19, <1>20, <1>21, <1>22, <1>23, <1>24, <1>25, <1>26,
     <1>27, <1>28, <1>29, <1>30 DEF Next, WorkerStep, ClientStep, Launching

(* The invariant of the handles holds in every state.                      *)
LEMMA AlwaysHandlesSound ==
    ASSUME "Stop" \notin Requests, "Database" \notin Faults
    PROVE  Spec => []HandlesSound
<1>1. Typed /\ HandlesSound /\ [Next]_vars => HandlesSound'
  BY HandlesStep
<1> QED
  BY <1>1, HandlesInit, AlwaysTyped, PTL DEF Spec

(* The running map holds open handles and none is closed twice, with any   *)
(* number of clients launching, deleting and toggling tasks and with       *)
(* crashes between any two steps.                                          *)
THEOREM HandlesAreSound ==
    ASSUME "Stop" \notin Requests, "Database" \notin Faults
    PROVE  Spec => []RegisteredIsOpen
<1>1. HandlesSound => RegisteredIsOpen
  BY DEF HandlesSound
<1> QED
  BY <1>1, AlwaysHandlesSound, PTL
-----------------------------------------------------------------------------
(***************************************************************************)
(* What the scheduler does with time: at most one run per minute, and no   *)
(* process killed before its timeout.                                      *)
(***************************************************************************)

(* Whole minutes grow with the seconds.                                    *)
LEMMA DivMonotone ==
    ASSUME NEW a \in Int, NEW b \in Int, NEW d \in Nat \ {0}, a <= b
    PROVE  a \div d <= b \div d
BY SMTT(30)

(* The quotients of times are integers, and of times to come they are      *)
(* not negative.                                                           *)
LEMMA DivIsInt ==
    ASSUME NEW a \in Int, NEW d \in Nat \ {0}
    PROVE  a \div d \in Int /\ (a >= 0 => a \div d >= 0)
BY SMT

(* A process is overdue from some moment on.                               *)
LEMMA OverdueForGood ==
    ASSUME NEW from \in Nat, NEW to \in Nat, NEW later \in Nat, NEW limit \in Nat,
           to <= later, ElapsedMinutes(from, to) >= limit
    PROVE  ElapsedMinutes(from, later) >= limit
<1> USE BoundsAssumption DEF ElapsedMinutes
<1>1. CASE from <= to
  <2>1. (to - from) \div SecondsPerMinute <= (later - from) \div SecondsPerMinute
    BY <1>1, DivMonotone
  <2>2. ElapsedMinutes(from, later) = (later - from) \div SecondsPerMinute
    BY <1>1
  <2>3. ElapsedMinutes(from, to) = (to - from) \div SecondsPerMinute
    BY <1>1
  <2>4. /\ (to - from) \div SecondsPerMinute \in Int
        /\ (later - from) \div SecondsPerMinute \in Int
    BY DivIsInt
  <2> HIDE DEF ElapsedMinutes
  <2> QED
    BY <2>1, <2>2, <2>3, <2>4
<1>2. CASE to < from
  <2>1. /\ (from - to) \div SecondsPerMinute \in Nat
        /\ ElapsedMinutes(from, to) = -((from - to) \div SecondsPerMinute)
    BY <1>2, DivIsInt
  <2>2. limit = 0 /\ (from - to) \div SecondsPerMinute = 0
    <3> HIDE DEF ElapsedMinutes
    <3> QED BY <2>1
  <2>3. CASE later < from
    <3>1. (from - later) \div SecondsPerMinute <= (from - to) \div SecondsPerMinute
      BY DivMonotone
    <3>2. (from - later) \div SecondsPerMinute \in Nat
      BY <2>3, DivIsInt
    <3>3. ElapsedMinutes(from, later) = -((from - later) \div SecondsPerMinute)
      BY <2>3
    <3> HIDE DEF ElapsedMinutes
    <3> QED
      BY <2>2, <3>1, <3>2, <3>3
  <2>4. CASE from <= later
    <3>1. /\ (later - from) \div SecondsPerMinute \in Nat
          /\ ElapsedMinutes(from, later) = (later - from) \div SecondsPerMinute
      BY <2>4, DivIsInt
    <3> HIDE DEF ElapsedMinutes
    <3> QED
      BY <2>2, <3>1
  <2> QED
    BY <2>3, <2>4
<1> QED
  BY <1>1, <1>2
-----------------------------------------------------------------------------
(* Without RunNow the worker alone launches.                               *)
ClientsIdle == \A c \in Clients : pc[c] = "idle"

(* What phase 2 found overdue is what phase 4 finds in the map, and time   *)
(* has only gone on since.                                                 *)
OverdueInMap ==
    /\ now <= clock
    /\ \A t \in Tasks : running[t] # None =>
          /\ pc[Worker] = "inspect" => running[t] = snap[t]
          /\ pc[Worker] \in {"fetch", "settle"} /\ verdict = "Completed" => running[t] = snap[t]
          /\ t \in timedout => Overdue(t, running[t])
          /\ pc[Worker] = "expire" /\ t \in todo => Overdue(t, running[t])
          /\ pc[Worker] \in {"kill", "fetch", "settle"} /\ verdict = "Timeout" /\ t \in todo =>
                Overdue(t, running[t])
    /\ pc[Worker] \notin {"inspect", "fetch", "settle"} => timedout = {}
    /\ pc[Worker] \in {"fetch", "settle"} /\ verdict = "Timeout" => timedout = {}
    /\ pc[Worker] = "kill" => verdict = "Timeout" /\ Overdue(arg[Worker], subject)

TimeoutSound == ClientsIdle /\ OverdueInMap

(* Initially no process is watched.                                        *)
LEMMA TimeoutInit == Init => TimeoutSound
BY BoundsAssumption, ThreadsAssumption
   DEF Init, TimeoutSound, ClientsIdle, OverdueInMap, Rest, Threads

(* What phase 2 found overdue stays in the map, and overdue, until phase   *)
(* 4 takes it: only RunNow could put another process there.                *)
LEMMA TimeoutStep ==
    ASSUME "RunNow" \notin Requests
    PROVE  Typed /\ TimeoutSound /\ [Next]_vars => TimeoutSound'
<1> SUFFICES ASSUME Typed, TimeoutSound, [Next]_vars PROVE TimeoutSound'
  OBVIOUS
<1> USE BoundsAssumption, ThreadsAssumption
    DEF Typed, TypeOK, LocalsOK, Option, Threads, Labels, TimeoutSound, ClientsIdle,
        OverdueInMap, Overdue, machine, database, memory, launch, tick, check
<1>1. ASSUME NEW th \in Threads, InsertHistory(th) PROVE TimeoutSound'
  BY <1>1 DEF InsertHistory, Throw, Live, ForeignKey, InsertRow, Fresh, Goto, Rest,
       ForgetLaunch, ForgetTick, ForgetCheck, ForgetSubject
<1>2. ASSUME NEW th \in Threads, CreateProcess(th) PROVE TimeoutSound'
  BY <1>2 DEF CreateProcess, Goto
<1>3. ASSUME NEW th \in Threads, Register(th) PROVE TimeoutSound'
  BY <1>3 DEF Register, Goto
<1>4. ASSUME NEW th \in Threads, RecordPid(th) PROVE TimeoutSound'
  BY <1>4 DEF RecordPid, Goto, ForgetLaunch, Rest
<1>5. CASE TickBegin
  BY <1>5 DEF TickBegin, Goto
<1>6. ASSUME NEW t \in Tasks, Decide(t) PROVE TimeoutSound'
  BY <1>6 DEF Decide, Goto, MinutesOfDay
<1>7. CASE Overlap
  BY <1>7 DEF Overlap, Goto, Call, ForgetLaunch, Rest, Push
<1>8. CASE PendingBegin
  BY <1>8 DEF PendingBegin, Goto
<1>9. ASSUME NEW t \in Tasks, PendingTask(t) PROVE TimeoutSound'
  BY <1>9 DEF PendingTask, Goto, Call
<1>10. CASE CheckBegin
  BY <1>10 DEF CheckBegin, Goto
<1>11. CASE Snapshot
  BY <1>11 DEF Snapshot, Goto
<1>12. ASSUME NEW t \in Tasks, Inspect(t) PROVE TimeoutSound'
  BY <1>12 DEF Inspect, Goto, SeenExited
<1>13. CASE EraseExited
  BY <1>13 DEF EraseExited, Erased, Goto, ForgetCheck, ForgetSubject
<1>14. ASSUME NEW t \in Tasks, TakeTimedOut(t) PROVE TimeoutSound'
  BY <1>14 DEF TakeTimedOut, Goto, Unregister
<1>15. CASE Kill
  BY <1>15 DEF Kill, Goto, Terminate
<1>16. CASE GetHistory
  BY <1>16 DEF GetHistory, Goto, Latest, RowsOf
<1>17. CASE Settle
  BY <1>17 DEF Settle, Goto, ForgetLaunch, Rest, ForgetSubject
<1>18. CASE TickEnd
  BY <1>18 DEF TickEnd, Goto, ForgetTick
<1>19. ASSUME NEW c \in Clients, NEW t \in Tasks, RunNow(c, t) PROVE TimeoutSound'
  BY <1>19 DEF RunNow, Call, Goto
<1>20. ASSUME NEW c \in Clients, NEW t \in Tasks, CreateTask(c, t) PROVE TimeoutSound'
  BY <1>20 DEF CreateTask
<1>21. ASSUME NEW c \in Clients, NEW t \in Tasks, ToggleTask(c, t) PROVE TimeoutSound'
  BY <1>21 DEF ToggleTask
<1>22. ASSUME NEW c \in Clients, NEW t \in Tasks, DeleteTask(c, t) PROVE TimeoutSound'
  BY <1>22 DEF DeleteTask
<1>23. CASE Stop
  BY <1>23 DEF Stop, Registered
<1>24. ASSUME NEW r \in Runs, StopProcess(r) PROVE TimeoutSound'
  BY <1>24 DEF StopProcess, Terminate
<1>25. CASE Restart
  BY <1>25 DEF Restart, Reboot, Rest, ForgetTick, ForgetCheck, ForgetSubject
<1>26. CASE Crash
  BY <1>26 DEF Crash, Reboot, Rest, ForgetTick, ForgetCheck, ForgetSubject
<1>27. CASE Advance
  BY <1>27 DEF Advance
<1>28. ASSUME NEW r \in Runs, ProcessExits(r) PROVE TimeoutSound'
  BY <1>28 DEF ProcessExits
<1>29. ASSUME NEW th \in Threads, DatabaseFails(th) PROVE TimeoutSound'
  BY <1>29 DEF DatabaseFails, Throw, InStatement, Goto, Rest, ForgetLaunch, ForgetTick,
       ForgetCheck, ForgetSubject
<1>30. CASE UNCHANGED vars
  BY <1>30 DEF vars
<1> QED
  BY <1>1, <1>2, <1>3, <1>4, <1>5, <1>6, <1>7, <1>8, <1>9, <1>10, <1>11, <1>12, <1>13, <1>14,
       <1>15, <1>16, <1>17, <1>18, <1>19, <1>20, <1>21, <1>22, <1>23, <1>24, <1>25, <1>26,
       <1>27, <1>28, <1>29, <1>30 DEF Next, WorkerStep, ClientStep, Launching

(* The invariant of the timeouts holds in every state.                     *)
LEMMA AlwaysTimeoutSound ==
    ASSUME "RunNow" \notin Requests
    PROVE  Spec => []TimeoutSound
<1>1. Typed /\ TimeoutSound /\ [Next]_vars => TimeoutSound'
  BY TimeoutStep
<1> QED
  BY <1>1, TimeoutInit, AlwaysTyped, PTL DEF Spec

(* Without RunNow, whatever else happens, no process is killed before it   *)
(* has run for its task's timeout.                                         *)
THEOREM OnlyOverdueAreKilled ==
    ASSUME "RunNow" \notin Requests
    PROVE  Spec => KillOnlyOverdue
<1>1. ASSUME Typed, TimeoutSound, pc[Worker] = "kill"
      PROVE  ElapsedMinutes(since[subject], clock) >= TimeoutMinutes[arg[Worker]]
  <2>1. /\ now \in Nat /\ clock \in Nat /\ now <= clock
        /\ since[subject] \in Nat
        /\ TimeoutMinutes[arg[Worker]] \in Nat
    BY <1>1, BoundsAssumption, ConfigurationAssumption
    DEF Typed, TypeOK, LocalsOK, TimeoutSound, OverdueInMap, Overdue, Option
  <2>2. ElapsedMinutes(since[subject], now) >= TimeoutMinutes[arg[Worker]]
    BY <1>1 DEF TimeoutSound, OverdueInMap, Overdue
  <2> QED
    BY <2>1, <2>2, OverdueForGood
<1>2. Typed /\ TimeoutSound =>
      [pc[Worker] = "kill" /\ proc' # proc /\ pc' # pc /\ proc[subject] = "alive" =>
          ElapsedMinutes(since[subject], clock) >= TimeoutMinutes[arg[Worker]]]_vars
  BY <1>1
<1> QED
  BY <1>2, AlwaysTyped, AlwaysTimeoutSound, PTL DEF KillOnlyOverdue
-----------------------------------------------------------------------------
(* The schedule of one tick is decided for the tick's now; outside of it,  *)
(* the next one will be decided for the clock or later.                    *)
Scheduling ==
    \/ pc[Worker] \in {"scan", "overlap"}
    \/ pc[Worker] \in Labels /\ ret[Worker] = "scan"

Frontier == IF Scheduling THEN now ELSE clock

(* A run of the schedule was not begun for a moment past the frontier, and *)
(* if it was begun for the frontier's minute then last_run_minute_ says so.*)
(* A decision on its way to insert_history has set last_run_minute_, and   *)
(* no earlier run was begun for its minute.                                *)
FiredBehind ==
    \A r \in Runs : owner[r] # None /\ ExactOnly(owner[r]) /\ fired[r] >= 0 =>
        /\ fired[r] <= Frontier
        /\ Minute(fired[r]) = Minute(Frontier) => last[owner[r]] = At(Frontier).minute

Deciding ==
    \/ pc[Worker] = "overlap"
    \/ pc[Worker] = "insert" /\ ret[Worker] = "scan"

DecisionIsNew ==
    Deciding /\ ExactOnly(arg[Worker]) =>
        /\ last[arg[Worker]] = At(now).minute
        /\ \A r \in Runs : owner[r] = arg[Worker] /\ fired[r] >= 0 => Minute(fired[r]) # Minute(now)

MinuteSound ==
    OncePerMinute /\ FiredBehind /\ DecisionIsNew /\ serving /\ now <= clock

(* The frontier moves on: it stays in the minute of an earlier moment only *)
(* if it was there, and then it is at the same minute of the day.          *)
LEMMA SameMinute ==
    ASSUME NEW f \in Nat, NEW h \in Nat, NEW later \in Nat,
           f <= h, h <= later, Minute(f) = Minute(later)
    PROVE  Minute(f) = Minute(h) /\ At(h).minute = At(later).minute
<1>1. Minute(f) <= Minute(h) /\ Minute(h) <= Minute(later)
  BY DivMonotone, BoundsAssumption DEF Minute
<1>2. Minute(f) \in Int /\ Minute(h) \in Int
  BY DivIsInt, BoundsAssumption DEF Minute
<1>3. Minute(h) = Minute(later)
  BY <1>1, <1>2
<1> QED
  BY <1>1, <1>2, <1>3 DEF At, Minute

(* What was fired behind the frontier is behind every later one; if it     *)
(* is still in the same minute, last_run_minute_ remembers it.             *)
LEMMA FrontierMoves ==
    ASSUME TypeOK, FiredBehind, Frontier \in Nat, NEW later \in Nat, Frontier <= later
    PROVE  \A r \in Runs : owner[r] # None /\ ExactOnly(owner[r]) /\ fired[r] >= 0 =>
               /\ fired[r] <= later
               /\ Minute(fired[r]) = Minute(later) => last[owner[r]] = At(later).minute
<1> SUFFICES ASSUME NEW r \in Runs, owner[r] # None, ExactOnly(owner[r]), fired[r] >= 0
             PROVE  /\ fired[r] <= later
                    /\ Minute(fired[r]) = Minute(later) => last[owner[r]] = At(later).minute
  OBVIOUS
<1>1. /\ fired[r] \in Nat /\ fired[r] <= Frontier
      /\ Minute(fired[r]) = Minute(Frontier) => last[owner[r]] = At(Frontier).minute
  BY DEF TypeOK, FiredBehind
<1>2. fired[r] <= later
  BY <1>1
<1>3. ASSUME Minute(fired[r]) = Minute(later)
      PROVE  Minute(fired[r]) = Minute(Frontier) /\ At(Frontier).minute = At(later).minute
  BY <1>1, <1>3, SameMinute
<1> QED
  BY <1>1, <1>2, <1>3

(* A step that fires nothing and forgets nothing may move the frontier     *)
(* on.                                                                     *)
LEMMA FrontierStep ==
    ASSUME TypeOK, FiredBehind, Frontier \in Nat, Frontier' \in Nat, Frontier <= Frontier',
           UNCHANGED <<owner, fired, last>>
    PROVE  FiredBehind'
<1>1. \A r \in Runs : owner[r] # None /\ ExactOnly(owner[r]) /\ fired[r] >= 0 =>
               /\ fired[r] <= Frontier'
               /\ Minute(fired[r]) = Minute(Frontier') => last[owner[r]] = At(Frontier').minute
  BY FrontierMoves
<1> QED
  BY <1>1 DEF FiredBehind

(* Initially nothing was fired.                                            *)
LEMMA MinuteInit == Init => MinuteSound
BY ThreadsAssumption, BoundsAssumption
   DEF Init, MinuteSound, OncePerMinute, FiredBehind, DecisionIsNew, Deciding, Threads, Rest

(* A tick that fires a task has found another minute, or none, in          *)
(* last_run_minute_, and leaves its own there.                             *)
LEMMA MinuteStep ==
    ASSUME "Stop" \notin Requests, "Crash" \notin Faults
    PROVE  Typed /\ MinuteSound /\ [Next]_vars => MinuteSound'
<1> SUFFICES ASSUME Typed, MinuteSound, [Next]_vars PROVE MinuteSound'
  OBVIOUS
<1> USE BoundsAssumption, ThreadsAssumption
    DEF Typed, TypeOK, LocalsOK, Option, Threads, Labels, MinuteSound, OncePerMinute,
        FiredBehind, DecisionIsNew, Deciding, Scheduling, Frontier,
        machine, database, memory, launch, tick, check
<1>1. ASSUME NEW th \in Threads, InsertHistory(th) PROVE MinuteSound'
  <2> DEFINE t == arg[th]
  <2>1. CASE ~ForeignKey(t)
    <3>1. /\ TypeOK /\ FiredBehind
          /\ Frontier \in Nat /\ Frontier' \in Nat /\ Frontier <= Frontier'
          /\ UNCHANGED <<owner, fired, last, serving>>
      BY <1>1, <2>1 DEF InsertHistory, Throw, Goto, Rest, ForgetLaunch, ForgetTick, ForgetCheck, ForgetSubject
    <3>2. FiredBehind'
      <4> HIDE DEF TypeOK, FiredBehind, Frontier
      <4> QED
        BY <3>1, FrontierStep
    <3>3. DecisionIsNew' /\ now' <= clock'
      BY <1>1, <2>1 DEF InsertHistory, Throw, Goto, Rest, ForgetLaunch, ForgetTick, ForgetCheck, ForgetSubject
    <3> QED
      BY <3>1, <3>2, <3>3
  <2>2. CASE ForeignKey(t)
    <3>1. PICK r \in Runs :
            /\ owner[r] = None
            /\ owner' = [owner EXCEPT ![r] = t]
            /\ fired' = [fired EXCEPT ![r] = IF ret[th] = "scan" THEN now ELSE -1]
      BY <1>1, <2>2 DEF InsertHistory, Fresh
    <3>2. /\ pc[th] = "insert" /\ pc' = [pc EXCEPT ![th] = "create"]
          /\ UNCHANGED <<arg, ret, last, now, clock, serving>>
      BY <1>1, <2>2 DEF InsertHistory, Goto
    <3>3. Frontier' = Frontier /\ (ret[th] = "scan" => th = Worker /\ Frontier = now)
      BY <3>2
    <3>4. ASSUME ret[th] = "scan", ExactOnly(t)
          PROVE  /\ last[t] = At(now).minute
                 /\ \A q \in Runs : owner[q] = t /\ fired[q] >= 0 => Minute(fired[q]) # Minute(now)
      BY <3>2, <3>3, <3>4
    <3>5. OncePerMinute'
      BY <3>1, <3>2, <3>3, <3>4
    <3>6. FiredBehind'
      <4> HIDE DEF Frontier
      <4> QED
        BY <3>1, <3>2, <3>3, <3>4
    <3>7. DecisionIsNew'
      BY <3>1, <3>2
    <3> QED
      BY <3>2, <3>5, <3>6, <3>7
  <2> QED
    BY <2>1, <2>2
<1>2. ASSUME NEW th \in Threads, CreateProcess(th) PROVE MinuteSound'
  BY <1>2 DEF CreateProcess, Goto
<1>3. ASSUME NEW th \in Threads, Register(th) PROVE MinuteSound'
  BY <1>3 DEF Register, Goto
<1>4. ASSUME NEW th \in Threads, RecordPid(th) PROVE MinuteSound'
  BY <1>4 DEF RecordPid, Goto, ForgetLaunch, Rest
<1>5. CASE TickBegin
  <2>1. /\ TypeOK /\ FiredBehind
        /\ Frontier \in Nat /\ Frontier' \in Nat /\ Frontier <= Frontier'
        /\ UNCHANGED <<owner, fired, last, serving>>
    BY <1>5 DEF TickBegin, Goto
  <2>2. FiredBehind'
    <3> HIDE DEF TypeOK, FiredBehind, Frontier
    <3> QED
      BY <2>1, FrontierStep
  <2>3. DecisionIsNew'
    BY <1>5 DEF TickBegin, Goto
  <2>4. now' <= clock'
    BY <1>5 DEF TickBegin, Goto
  <2> QED
    BY <2>1, <2>2, <2>3, <2>4
<1>6. ASSUME NEW t \in Tasks, Decide(t) PROVE MinuteSound'
  <2>1. /\ pc[Worker] = "scan" /\ Frontier = now
        /\ UNCHANGED <<clock, now, owner, fired, serving, ret>>
    BY <1>6 DEF Decide
  <2>2. CASE UNCHANGED <<last, pc, arg>>
    BY <2>1, <2>2
  <2>3. ASSUME NEW i \in DOMAIN WindowsOf(t), IsFirstOpen(t, i),
               last' = IF WindowsOf(t)[i].type = "ExactTimes"
                       THEN [last EXCEPT ![t] = At(now).minute] ELSE last,
               pc' = [pc EXCEPT ![Worker] = "overlap"],
               arg' = [arg EXCEPT ![Worker] = t]
        PROVE  MinuteSound'
    <3>1. Frontier' = now
      BY <2>1, <2>3
    <3>2. CASE ExactOnly(t)
      <4>1. WindowsOf(t)[i].type = "ExactTimes"
        BY <2>3, <3>2 DEF ExactOnly, WindowsOf
      <4>2. last[t] # At(now).minute /\ last' = [last EXCEPT ![t] = At(now).minute]
        BY <2>3, <4>1 DEF IsFirstOpen, Opens
      <4>3. \A r \in Runs : owner[r] = t /\ fired[r] >= 0 => Minute(fired[r]) # Minute(now)
        BY <2>1, <3>2, <4>2
      <4> QED
        <5> HIDE DEF Frontier
        <5> QED
          BY <2>1, <2>3, <3>1, <3>2, <4>2, <4>3
    <3>3. CASE ~ExactOnly(t)
      <4>1. \A s \in Tasks : s # t => last'[s] = last[s]
        BY <2>3
      <4> HIDE DEF Frontier
      <4> QED
        BY <2>1, <2>3, <3>1, <3>3, <4>1
    <3> QED
      BY <3>2, <3>3
  <2> QED
    <3> HIDE DEF Typed, MinuteSound
    <3> QED
      BY <1>6, <2>2, <2>3 DEF Decide, Goto
<1>7. CASE Overlap
  BY <1>7 DEF Overlap, Goto, Call, ForgetLaunch, Rest, Push
<1>8. CASE PendingBegin
  <2>1. /\ TypeOK /\ FiredBehind
        /\ Frontier \in Nat /\ Frontier' \in Nat /\ Frontier <= Frontier'
        /\ UNCHANGED <<owner, fired, last, serving>>
    BY <1>8 DEF PendingBegin, Goto
  <2>2. FiredBehind'
    <3> HIDE DEF TypeOK, FiredBehind, Frontier
    <3> QED
      BY <2>1, FrontierStep
  <2>3. DecisionIsNew'
    BY <1>8 DEF PendingBegin, Goto
  <2>4. now' <= clock'
    BY <1>8 DEF PendingBegin, Goto
  <2> QED
    BY <2>1, <2>2, <2>3, <2>4
<1>9. ASSUME NEW t \in Tasks, PendingTask(t) PROVE MinuteSound'
  BY <1>9 DEF PendingTask, Goto, Call
<1>10. CASE CheckBegin
  BY <1>10 DEF CheckBegin, Goto
<1>11. CASE Snapshot
  BY <1>11 DEF Snapshot, Goto
<1>12. ASSUME NEW t \in Tasks, Inspect(t) PROVE MinuteSound'
  BY <1>12 DEF Inspect, Goto, SeenExited
<1>13. CASE EraseExited
  BY <1>13 DEF EraseExited, Erased, Goto, ForgetCheck, ForgetSubject
<1>14. ASSUME NEW t \in Tasks, TakeTimedOut(t) PROVE MinuteSound'
  BY <1>14 DEF TakeTimedOut, Goto, Unregister
<1>15. CASE Kill
  BY <1>15 DEF Kill, Goto, Terminate
<1>16. CASE GetHistory
  BY <1>16 DEF GetHistory, Goto, Latest, RowsOf
<1>17. CASE Settle
  BY <1>17 DEF Settle, Goto, ForgetLaunch, Rest, ForgetSubject
<1>18. CASE TickEnd
  BY <1>18 DEF TickEnd, Goto, ForgetTick
<1>19. ASSUME NEW c \in Clients, NEW t \in Tasks, RunNow(c, t) PROVE MinuteSound'
  BY <1>19 DEF RunNow, Call, Goto
<1>20. ASSUME NEW c \in Clients, NEW t \in Tasks, CreateTask(c, t) PROVE MinuteSound'
  BY <1>20 DEF CreateTask
<1>21. ASSUME NEW c \in Clients, NEW t \in Tasks, ToggleTask(c, t) PROVE MinuteSound'
  BY <1>21 DEF ToggleTask
<1>22. ASSUME NEW c \in Clients, NEW t \in Tasks, DeleteTask(c, t) PROVE MinuteSound'
  BY <1>22 DEF DeleteTask
<1>23. CASE Stop
  BY <1>23 DEF Stop, Registered
<1>24. ASSUME NEW r \in Runs, StopProcess(r) PROVE MinuteSound'
  BY <1>24 DEF StopProcess, Terminate
<1>25. CASE Restart
  BY <1>25 DEF Restart, Reboot, Rest, ForgetTick, ForgetCheck, ForgetSubject
<1>26. CASE Crash
  BY <1>26 DEF Crash, Reboot, Rest, ForgetTick, ForgetCheck, ForgetSubject
<1>27. CASE Advance
  <2>1. /\ TypeOK /\ FiredBehind
        /\ Frontier \in Nat /\ Frontier' \in Nat /\ Frontier <= Frontier'
        /\ UNCHANGED <<owner, fired, last, serving>>
    BY <1>27 DEF Advance
  <2>2. FiredBehind'
    <3> HIDE DEF TypeOK, FiredBehind, Frontier
    <3> QED
      BY <2>1, FrontierStep
  <2>3. DecisionIsNew'
    BY <1>27 DEF Advance
  <2>4. now' <= clock'
    BY <1>27 DEF Advance
  <2> QED
    BY <2>1, <2>2, <2>3, <2>4
<1>28. ASSUME NEW r \in Runs, ProcessExits(r) PROVE MinuteSound'
  BY <1>28 DEF ProcessExits
<1>29. ASSUME NEW th \in Threads, DatabaseFails(th) PROVE MinuteSound'
  <2>1. /\ TypeOK /\ FiredBehind
        /\ Frontier \in Nat /\ Frontier' \in Nat /\ Frontier <= Frontier'
        /\ UNCHANGED <<owner, fired, last, serving>>
    BY <1>29 DEF DatabaseFails, Throw, InStatement, Goto, Rest, ForgetLaunch, ForgetTick, ForgetCheck, ForgetSubject
  <2>2. FiredBehind'
    <3> HIDE DEF TypeOK, FiredBehind, Frontier
    <3> QED
      BY <2>1, FrontierStep
  <2>3. DecisionIsNew'
    BY <1>29 DEF DatabaseFails, Throw, InStatement, Goto, Rest, ForgetLaunch, ForgetTick, ForgetCheck, ForgetSubject
  <2>4. now' <= clock'
    BY <1>29 DEF DatabaseFails, Throw, InStatement, Goto, Rest, ForgetLaunch, ForgetTick, ForgetCheck, ForgetSubject
  <2> QED
    BY <2>1, <2>2, <2>3, <2>4
<1>30. CASE UNCHANGED vars
  BY <1>30 DEF vars
<1> QED
  BY <1>1, <1>2, <1>3, <1>4, <1>5, <1>6, <1>7, <1>8, <1>9, <1>10, <1>11, <1>12, <1>13, <1>14,
       <1>15, <1>16, <1>17, <1>18, <1>19, <1>20, <1>21, <1>22, <1>23, <1>24, <1>25, <1>26,
       <1>27, <1>28, <1>29, <1>30 DEF Next, WorkerStep, ClientStep, Launching

(* The invariant of the minutes holds in every state.                      *)
LEMMA AlwaysMinuteSound ==
    ASSUME "Stop" \notin Requests, "Crash" \notin Faults
    PROVE  Spec => []MinuteSound
<1>1. Typed /\ MinuteSound /\ [Next]_vars => MinuteSound'
  BY MinuteStep
<1> QED
  BY <1>1, MinuteInit, AlwaysTyped, PTL DEF Spec

(* A service that is not restarted runs a task of exact times at most once *)
(* in a minute, whatever the clients ask for, however late the ticks come  *)
(* and whichever statements fail.                                          *)
THEOREM AtMostOncePerMinute ==
    ASSUME "Stop" \notin Requests, "Crash" \notin Faults
    PROVE  Spec => []OncePerMinute
<1>1. MinuteSound => OncePerMinute
  BY DEF MinuteSound
<1> QED
  BY <1>1, AlwaysMinuteSound, PTL
-----------------------------------------------------------------------------
(***************************************************************************)
(* A task that does not allow it never has two processes at a time.        *)
(***************************************************************************)

(* The service at work: it is not stopped or restarted, nobody uses RunNow *)
(* (which looks at neither the map nor the policy), statements do not fail,*)
(* and a sequential task with a timeout is one whose process is killed by  *)
(* it.  Each of these is needed: dropping one lets a process go on living  *)
(* that is no longer in the map, or ignores the map.                       *)
Undisturbed ==
    /\ {"RunNow", "Stop"} \cap Requests = {}
    /\ {"Crash", "Database"} \cap Faults = {}
    /\ \A t \in Tasks : Sequential(t) /\ TimeoutMinutes[t] # None => KillOnTimeout[t]

(* An id is not reused: a task that has had a run, or is being launched,   *)
(* has been created.                                                       *)
OnceCreated ==
    /\ \A r \in Runs : owner[r] # None => table[owner[r]] # "unborn"
    /\ pc[Worker] \in Labels \cup {"overlap"} => table[arg[Worker]] # "unborn"

(* A living process of a sequential task is in the map, or about to be     *)
(* registered or killed, unless its task was deleted.                      *)
AliveIsTracked ==
    \A r \in Runs : proc[r] = "alive" /\ Sequential(owner[r]) =>
        \/ running[owner[r]] = r
        \/ pc[Worker] = "register" /\ run[Worker] = r
        \/ pc[Worker] = "kill" /\ subject = r
        \/ ~Live(owner[r])

(* A launch of a sequential task goes on only if nothing of it is alive.   *)
LaunchIsClear ==
    \A r \in Runs :
        proc[r] = "alive" /\ owner[r] = arg[Worker] /\ Sequential(arg[Worker]) =>
            /\ pc[Worker] # "create"
            /\ pc[Worker] = "insert" => ~Live(arg[Worker])
            /\ pc[Worker] = "register" => r = run[Worker]

(* check_timeouts erases entries of processes that have exited, and takes  *)
(* those of tasks with a timeout to kill them.                             *)
ErasesTheDead ==
    /\ pc[Worker] = "inspect" => running = snap
    /\ pc[Worker] \in {"fetch", "settle"} /\ verdict = "Completed" => running = snap
    /\ \A t \in exited : proc[snap[t]] = "exited"

ExpiresTheKillable ==
    LET killable == {t \in Tasks : TimeoutMinutes[t] # None}
    IN  /\ timedout \subseteq killable
        /\ pc[Worker] = "expire" => todo \subseteq killable
        /\ pc[Worker] \in {"kill", "fetch", "settle"} /\ verdict = "Timeout" => todo \subseteq killable
        /\ pc[Worker] = "kill" => arg[Worker] \in killable /\ owner[subject] = arg[Worker]

OverlapSound ==
    /\ NoOverlap
    /\ ClientsIdle
    /\ OnceCreated
    /\ AliveIsTracked
    /\ LaunchIsClear
    /\ ErasesTheDead
    /\ ExpiresTheKillable

(* Initially no process lives and nothing is launched.                     *)
LEMMA OverlapInit == Init => OverlapSound
BY ThreadsAssumption
   DEF Init, OverlapSound, NoOverlap, AliveRuns, RunsOf, ClientsIdle, OnceCreated, AliveIsTracked,
       LaunchIsClear, ErasesTheDead, ExpiresTheKillable, Threads, Rest, Labels

(* A launch needs an entry that is gone, and an entry goes only with a     *)
(* process that has exited or is killed before the next launch.            *)
LEMMA OverlapStep ==
    ASSUME Undisturbed
    PROVE  Typed /\ Journaled /\ HandlesSound /\ OverlapSound /\ [Next]_vars => OverlapSound'
<1> SUFFICES ASSUME Typed, Journaled, HandlesSound, OverlapSound, [Next]_vars PROVE OverlapSound'
  OBVIOUS
<1> USE ThreadsAssumption
    DEF Undisturbed, Typed, TypeOK, LocalsOK, Option, Threads, Labels, Live,
        Journaled, LaunchJournaled, HandlesSound, RegisteredIsOpen, NoStop, OwnersMatch, CheckPhase,
        InFlightPrivate,
        OverlapSound, NoOverlap, AliveRuns, RunsOf, ClientsIdle, OnceCreated, AliveIsTracked,
        LaunchIsClear, ErasesTheDead, ExpiresTheKillable,
        machine, database, memory, launch, tick, check
<1>1. ASSUME NEW th \in Threads, InsertHistory(th) PROVE OverlapSound'
  <2>1. th = Worker
    BY <1>1 DEF InsertHistory
  <2>2. CASE ~ForeignKey(arg[th])
    <3>1. /\ pc' = [pc EXCEPT ![Worker] = "wait"]
          /\ UNCHANGED <<machine, database, memory>>
          /\ todo' = {} /\ exited' = {} /\ timedout' = {} /\ verdict' = "none"
      BY <1>1, <2>1, <2>2 DEF InsertHistory, Throw, Goto, Rest, ForgetTick, ForgetCheck, ForgetSubject
    <3> QED
      BY <3>1, <1>1 DEF InsertHistory
  <2>3. CASE ForeignKey(arg[th])
    <3>1. PICK r \in Runs :
            /\ Fresh(r)
            /\ owner' = [owner EXCEPT ![r] = arg[th]]
            /\ run' = [run EXCEPT ![th] = r]
      BY <1>1, <2>3 DEF InsertHistory
    <3>2. /\ pc[Worker] = "insert" /\ table[arg[Worker]] = "live" /\ owner[r] = None
          /\ pc' = [pc EXCEPT ![Worker] = "create"]
          /\ UNCHANGED <<machine, memory, table, enabled, arg, ret, tick, check>>
      BY <1>1, <2>1, <2>3, <3>1 DEF InsertHistory, ForeignKey, Fresh, Goto
    <3>3. proc[r] = "none"
      BY <3>2
    <3>4. \A q \in Runs : q # r => owner'[q] = owner[q]
      BY <3>1
    <3>5. owner'[r] = arg[Worker] /\ arg[Worker] \in Tasks
      BY <3>1, <2>1, <3>2
    <3>6. OnceCreated'
      BY <3>2, <3>4, <3>5
    <3>7. AliveIsTracked'
      BY <3>2, <3>3, <3>4
    <3>8. LaunchIsClear'
      BY <3>2, <3>3, <3>4, <3>5
    <3>9. NoOverlap'
      BY <3>2, <3>3, <3>4
    <3> QED
      BY <3>2, <3>4, <3>5, <3>6, <3>7, <3>8, <3>9
  <2> QED
    BY <2>2, <2>3
<1>2. ASSUME NEW th \in Threads, CreateProcess(th) PROVE OverlapSound'
  BY <1>2 DEF CreateProcess, Goto
<1>3. ASSUME NEW th \in Threads, Register(th) PROVE OverlapSound'
  BY <1>3 DEF Register, Goto
<1>4. ASSUME NEW th \in Threads, RecordPid(th) PROVE OverlapSound'
  BY <1>4 DEF RecordPid, Goto, ForgetLaunch, Rest
<1>5. CASE TickBegin
  BY <1>5 DEF TickBegin, Goto
<1>6. ASSUME NEW t \in Tasks, Decide(t) PROVE OverlapSound'
  <2>1. /\ pc[Worker] = "scan" /\ todo' = todo \ {t}
        /\ UNCHANGED <<machine, database, serving, running, since, handles, pending, doomed,
                       run, ret, listed, now, check, fired>>
    BY <1>6 DEF Decide
  <2>2. \/ UNCHANGED <<pc, arg>>
        \/ /\ table[t] = "live"
           /\ pc' = [pc EXCEPT ![Worker] = "overlap"]
           /\ arg' = [arg EXCEPT ![Worker] = t]
    <3>1. table[t] # "live" => WindowsOf(t) = <<>>
      BY DEF WindowsOf
    <3>2. WindowsOf(t) = <<>> => UNCHANGED <<pc, arg>>
      <4> HIDE DEF Live
      <4> QED
        BY <1>6 DEF Decide
    <3> QED
      BY <1>6, <3>1, <3>2 DEF Decide, Goto
  <2>3. CASE UNCHANGED <<pc, arg>>
    BY <2>1, <2>3
  <2>4. CASE /\ table[t] = "live"
             /\ pc' = [pc EXCEPT ![Worker] = "overlap"]
             /\ arg' = [arg EXCEPT ![Worker] = t]
    BY <2>1, <2>4
  <2> QED
    BY <2>2, <2>3, <2>4
<1>7. CASE Overlap
  <2>1. /\ pc[Worker] = "overlap" /\ arg[Worker] \in Tasks
        /\ UNCHANGED <<machine, database, serving, running, since, handles, last, doomed,
                       tick, check, fired>>
    BY <1>7 DEF Overlap
  <2>2. \/ pc' = [pc EXCEPT ![Worker] = "scan"]
        \/ /\ MayStart(arg[Worker])
           /\ pc' = [pc EXCEPT ![Worker] = "insert"]
           /\ arg' = [arg EXCEPT ![Worker] = arg[Worker]]
           /\ UNCHANGED run
    BY <1>7 DEF Overlap, Goto, Call
  <2>3. CASE pc' = [pc EXCEPT ![Worker] = "scan"]
    BY <2>1, <2>3
  <2>4. CASE /\ MayStart(arg[Worker])
             /\ pc' = [pc EXCEPT ![Worker] = "insert"]
             /\ arg' = [arg EXCEPT ![Worker] = arg[Worker]]
             /\ UNCHANGED run
    <3>1. arg' = arg
      BY <2>4
    <3>2. LaunchIsClear'
      BY <2>1, <2>4, <3>1 DEF MayStart, Sequential
    <3> QED
      BY <2>1, <2>4, <3>1, <3>2
  <2> QED
    BY <2>2, <2>3, <2>4
<1>8. CASE PendingBegin
  BY <1>8 DEF PendingBegin, Goto
<1>9. ASSUME NEW t \in Tasks, PendingTask(t) PROVE OverlapSound'
  BY <1>9 DEF PendingTask, Goto, Call
<1>10. CASE CheckBegin
  BY <1>10 DEF CheckBegin, Goto
<1>11. CASE Snapshot
  BY <1>11 DEF Snapshot, Goto
<1>12. ASSUME NEW t \in Tasks, Inspect(t) PROVE OverlapSound'
  BY <1>12 DEF Inspect, Overdue, Goto, SeenExited
<1>13. CASE EraseExited
  BY <1>13 DEF EraseExited, Erased, Goto, ForgetCheck, ForgetSubject
<1>14. ASSUME NEW t \in Tasks, TakeTimedOut(t) PROVE OverlapSound'
  BY <1>14 DEF TakeTimedOut, Goto, Unregister
<1>15. CASE Kill
  BY <1>15 DEF Kill, Goto, Terminate
<1>16. CASE GetHistory
  BY <1>16 DEF GetHistory, Goto, Latest, RowsOf
<1>17. CASE Settle
  BY <1>17 DEF Settle, Goto, ForgetLaunch, Rest, ForgetSubject
<1>18. CASE TickEnd
  BY <1>18 DEF TickEnd, Goto, ForgetTick
<1>19. ASSUME NEW c \in Clients, NEW t \in Tasks, RunNow(c, t) PROVE OverlapSound'
  BY <1>19 DEF RunNow, Call, Goto
<1>20. ASSUME NEW c \in Clients, NEW t \in Tasks, CreateTask(c, t) PROVE OverlapSound'
  BY <1>20 DEF CreateTask
<1>21. ASSUME NEW c \in Clients, NEW t \in Tasks, ToggleTask(c, t) PROVE OverlapSound'
  BY <1>21 DEF ToggleTask
<1>22. ASSUME NEW c \in Clients, NEW t \in Tasks, DeleteTask(c, t) PROVE OverlapSound'
  BY <1>22 DEF DeleteTask
<1>23. CASE Stop
  BY <1>23 DEF Stop, Registered
<1>24. ASSUME NEW r \in Runs, StopProcess(r) PROVE OverlapSound'
  BY <1>24 DEF StopProcess, Terminate
<1>25. CASE Restart
  BY <1>25 DEF Restart, Reboot, Rest, ForgetTick, ForgetCheck, ForgetSubject
<1>26. CASE Crash
  BY <1>26 DEF Crash, Reboot, Rest, ForgetTick, ForgetCheck, ForgetSubject
<1>27. CASE Advance
  BY <1>27 DEF Advance
<1>28. ASSUME NEW r \in Runs, ProcessExits(r) PROVE OverlapSound'
  BY <1>28 DEF ProcessExits
<1>29. ASSUME NEW th \in Threads, DatabaseFails(th) PROVE OverlapSound'
  BY <1>29 DEF DatabaseFails, Throw, InStatement, Goto, Rest, ForgetLaunch, ForgetTick,
       ForgetCheck, ForgetSubject
<1>30. CASE UNCHANGED vars
  BY <1>30 DEF vars
<1> QED
  BY <1>1, <1>2, <1>3, <1>4, <1>5, <1>6, <1>7, <1>8, <1>9, <1>10, <1>11, <1>12, <1>13, <1>14,
       <1>15, <1>16, <1>17, <1>18, <1>19, <1>20, <1>21, <1>22, <1>23, <1>24, <1>25, <1>26,
       <1>27, <1>28, <1>29, <1>30 DEF Next, WorkerStep, ClientStep, Launching

(* The invariant of overlap holds in every state.                          *)
LEMMA AlwaysOverlapSound ==
    ASSUME Undisturbed
    PROVE  Spec => []OverlapSound
<1>1. Typed /\ Journaled /\ HandlesSound /\ OverlapSound /\ [Next]_vars => OverlapSound'
  BY OverlapStep
<1>2. Spec => []HandlesSound
  BY AlwaysHandlesSound DEF Undisturbed
<1> QED
  BY <1>1, <1>2, OverlapInit, AlwaysTyped, AlwaysJournaled, PTL DEF Spec

(* An undisturbed service runs no sequential task twice at a time: not for *)
(* any schedule, timing of exits, failed launch, or task created, toggled  *)
(* or deleted meanwhile.                                                   *)
THEOREM SequentialTasksDoNotOverlap ==
    ASSUME Undisturbed
    PROVE  Spec => []NoOverlap
<1>1. OverlapSound => NoOverlap
  BY DEF OverlapSound
<1> QED
  BY <1>1, AlwaysOverlapSound, PTL
=============================================================================
