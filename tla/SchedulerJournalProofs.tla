----------------------- MODULE SchedulerJournalProofs -----------------------
(***************************************************************************)
(* The scheduler implements RunJournal, and with it: a run marked          *)
(* Completed has exited, and a verdict is final.  And, under the same      *)
(* assumptions, no process handle is lost.                                 *)
(***************************************************************************)
EXTENDS SchedulerRefinement, SchedulerProofs

(* The worker alone launches, under policies that forbid overlap, and no   *)
(* statement fails.  RunNow writes over verdicts (its RecordPid comes when *)
(* the worker may have judged the run); StartAnother lets a launch that    *)
(* failed be the newest run of a task whose process goes on; a statement   *)
(* that fails between two verdicts has the first one given again.          *)
OnlyTheWorkerLaunches ==
    /\ "RunNow" \notin Requests
    /\ "Database" \notin Faults
    /\ \A t \in Tasks : Sequential(t)

Verdicts == {"Completed", "Timeout"}

Newest(t, r) ==
    /\ owner[r] = t
    /\ \A q \in Runs : owner[q] = t => start[q] <= start[r]

Undecided(r) == row[r] \notin Verdicts \/ SharesItsSecond(r)

Checking == pc[Worker] \in {"fetch", "settle"}

(* No record is from the future, only runs that began have one, and it     *)
(* goes only with the task, all of whose records go together.              *)
RecordsKept ==
    \A r \in Runs :
        /\ owner[r] = None => row[r] = "none"
        /\ owner[r] # None => start[r] <= clock
        /\ owner[r] # None /\ row[r] = "none" => table[owner[r]] = "deleted"

(* What the map, the copy of it and the verdict under way are about is the *)
(* newest run of its task, so the one get_history returns.                 *)
EntriesAreNewest ==
    /\ \A t \in Tasks : running[t] # None => Newest(t, running[t])
    /\ \A t \in Tasks : snap[t] # None => Newest(t, snap[t])
    /\ pc[Worker] \in {"kill", "fetch", "settle"} => Newest(arg[Worker], subject)
    /\ pc[Worker] = "settle" /\ found # None =>
          owner[found] = arg[Worker] /\ start[found] = start[subject]

(* A launch begins with no entry of its task in the map.                   *)
LaunchIsNewest ==
    /\ pc[Worker] = "insert" => running[arg[Worker]] = None
    /\ pc[Worker] \in {"create", "register", "record"} =>
          /\ Newest(arg[Worker], run[Worker])
          /\ row[run[Worker]] \notin Verdicts
          /\ running[arg[Worker]] \in {None, run[Worker]}
    /\ pc[Worker] = "create" => proc[run[Worker]] = "none"

(* The phases: the copy and exited_tasks live in phases 2 and 3, and what  *)
(* phase 4 judges has left the map.                                        *)
PhasesKept ==
    /\ pc[Worker] # "inspect" /\ ~(Checking /\ verdict = "Completed") =>
          exited = {} /\ \A t \in Tasks : snap[t] = None
    /\ pc[Worker] = "kill" => verdict = "Timeout"
    /\ pc[Worker] = "kill" \/ (Checking /\ verdict = "Timeout") => running[arg[Worker]] = None
    /\ Checking /\ verdict = "Completed" =>
          /\ subject = snap[arg[Worker]]
          /\ arg[Worker] \in exited \ todo
          /\ proc[subject] = "exited"

(* No run that is still to be judged has a verdict yet.                    *)
OneVerdict ==
    /\ \A t \in Tasks : running[t] # None =>
          Undecided(running[t]) \/ (t \in exited /\ snap[t] = running[t])
    /\ pc[Worker] = "inspect" \/ (Checking /\ verdict = "Completed") =>
          \A t \in todo : snap[t] # None /\ Undecided(snap[t]) /\ t \notin exited
    /\ pc[Worker] = "kill" \/ Checking => Undecided(subject)

JournalSound ==
    /\ ClientsIdle
    /\ RecordsKept
    /\ EntriesAreNewest
    /\ LaunchIsNewest
    /\ PhasesKept
    /\ OneVerdict

(* Initially there are no rows, and nobody has written.                    *)
LEMMA JournalInit == Init => JournalSound
BY ThreadsAssumption DEF Init, JournalSound, ClientsIdle, RecordsKept, EntriesAreNewest,
   LaunchIsNewest, PhasesKept, OneVerdict, Checking, Threads, Rest

(* No step breaks the agreement of journal and history.                    *)
LEMMA JournalStep ==
    ASSUME OnlyTheWorkerLaunches
    PROVE  Typed /\ Journaled /\ JournalSound /\ [Next]_vars => JournalSound'
<1> SUFFICES ASSUME Typed, Journaled, JournalSound, [Next]_vars PROVE JournalSound'
  OBVIOUS
<1> USE ThreadsAssumption, BoundsAssumption
    DEF OnlyTheWorkerLaunches, Sequential, Typed, TypeOK, LocalsOK, Option, Threads, Labels,
        Journaled, LaunchJournaled, DeletedLeavesNoRows, InFlightJournaled, OpenWasStarted,
        JournalSound, ClientsIdle, RecordsKept, EntriesAreNewest, LaunchIsNewest, PhasesKept,
        OneVerdict, Checking, Verdicts, Newest, Undecided, SharesItsSecond,
        machine, database, memory, launch, tick, check
<1>1. ASSUME NEW th \in Threads, InsertHistory(th) PROVE JournalSound'
  BY <1>1 DEF InsertHistory, Throw, Live, ForeignKey, InsertRow, Fresh, Goto, Rest,
     ForgetLaunch, ForgetTick, ForgetCheck, ForgetSubject
<1>2. ASSUME NEW th \in Threads, CreateProcess(th) PROVE JournalSound'
  BY <1>2 DEF CreateProcess, Goto
<1>3. ASSUME NEW th \in Threads, Register(th) PROVE JournalSound'
  BY <1>3 DEF Register, Goto
<1>4. ASSUME NEW th \in Threads, RecordPid(th) PROVE JournalSound'
  BY <1>4 DEF RecordPid, Goto, ForgetLaunch, Rest
<1>5. CASE TickBegin
  BY <1>5 DEF TickBegin, Goto
<1>6. ASSUME NEW t \in Tasks, Decide(t) PROVE JournalSound'
  BY <1>6 DEF Decide, Goto
<1>7. CASE Overlap
  BY <1>7 DEF Overlap, MayStart, Goto, Call, ForgetLaunch, Rest, Push
<1>8. CASE PendingBegin
  BY <1>8 DEF PendingBegin, Goto
<1>9. ASSUME NEW t \in Tasks, PendingTask(t) PROVE JournalSound'
  BY <1>9 DEF PendingTask, Goto, Call
<1>10. CASE CheckBegin
  BY <1>10 DEF CheckBegin, Goto
<1>11. CASE Snapshot
  BY <1>11 DEF Snapshot, Goto
<1>12. ASSUME NEW t \in Tasks, Inspect(t) PROVE JournalSound'
  BY <1>12 DEF Inspect, Goto, SeenExited
<1>13. CASE EraseExited
  BY <1>13 DEF EraseExited, Erased, Goto, ForgetCheck, ForgetSubject
<1>14. ASSUME NEW t \in Tasks, TakeTimedOut(t) PROVE JournalSound'
  <2>1. CASE running[t] = None
    BY <1>14, <2>1 DEF TakeTimedOut
  <2>2. CASE running[t] # None
    <3>1. /\ pc[Worker] = "expire" /\ pc' = [pc EXCEPT ![Worker] = "kill"]
          /\ subject' = running[t] /\ verdict' = "Timeout"
          /\ running' = [running EXCEPT ![t] = None]
          /\ arg' = [arg EXCEPT ![Worker] = t]
      BY <1>14, <2>2 DEF TakeTimedOut, Goto, Unregister
    <3>2. UNCHANGED <<machine, database, serving, since, handles, pending, last, doomed,
                      run, ret, listed, now, snap, exited, timedout, found, fired>>
      BY <1>14 DEF TakeTimedOut
    <3>3. pc'[Worker] = "kill" /\ \A c \in Clients : pc'[c] = pc[c]
      BY <3>1
    <3>4. ClientsIdle' /\ RecordsKept'
      BY <3>2, <3>3
    <3>5. EntriesAreNewest' /\ LaunchIsNewest'
      <4>1. arg'[Worker] = t /\ \A u \in Tasks : running'[u] \in {None, running[u]}
        BY <3>1
      <4>2. Newest(t, running[t])
        BY <2>2
      <4> QED
        BY <3>1, <3>2, <3>3, <4>1, <4>2
    <3>6. PhasesKept'
      BY <3>1, <3>2, <3>3
    <3>7. OneVerdict'
      <4>1. exited = {} /\ \A u \in Tasks : running'[u] \in {None, running[u]}
        BY <3>1
      <4>2. \A u \in Tasks : running[u] # None => Undecided(running[u])
        BY <4>1
      <4>3. Undecided(running[t]) /\ running[t] \in Runs
        BY <2>2, <4>2
      <4> QED
        BY <3>1, <3>2, <3>3, <4>1, <4>2, <4>3
    <3> QED
      BY <3>4, <3>5, <3>6, <3>7
  <2> QED
    BY <2>1, <2>2
<1>15. CASE Kill
  BY <1>15 DEF Kill, Goto, Terminate
<1>16. CASE GetHistory
  BY <1>16 DEF GetHistory, Goto, Latest, RowsOf
<1>17. CASE Settle
  BY <1>17 DEF Settle, Goto, ForgetLaunch, Rest, ForgetSubject
<1>18. CASE TickEnd
  BY <1>18 DEF TickEnd, Goto, ForgetTick
<1>19. ASSUME NEW c \in Clients, NEW t \in Tasks, RunNow(c, t) PROVE JournalSound'
  BY <1>19 DEF RunNow
<1>20. ASSUME NEW c \in Clients, NEW t \in Tasks, CreateTask(c, t) PROVE JournalSound'
  BY <1>20 DEF CreateTask
<1>21. ASSUME NEW c \in Clients, NEW t \in Tasks, ToggleTask(c, t) PROVE JournalSound'
  BY <1>21 DEF ToggleTask
<1>22. ASSUME NEW c \in Clients, NEW t \in Tasks, DeleteTask(c, t) PROVE JournalSound'
  BY <1>22 DEF DeleteTask
<1>23. CASE Stop
  BY <1>23 DEF Stop, Registered
<1>24. ASSUME NEW r \in Runs, StopProcess(r) PROVE JournalSound'
  BY <1>24 DEF StopProcess, Terminate
<1>25. CASE Restart
  BY <1>25 DEF Restart, Reboot, Rest, ForgetTick, ForgetCheck, ForgetSubject
<1>26. CASE Crash
  BY <1>26 DEF Crash, Reboot, Rest, ForgetTick, ForgetCheck, ForgetSubject
<1>27. CASE Advance
  BY <1>27 DEF Advance
<1>28. ASSUME NEW r \in Runs, ProcessExits(r) PROVE JournalSound'
  BY <1>28 DEF ProcessExits
<1>29. ASSUME NEW th \in Threads, DatabaseFails(th) PROVE JournalSound'
  BY <1>29 DEF DatabaseFails
<1>30. CASE UNCHANGED vars
  BY <1>30 DEF vars
<1> QED
  BY <1>1, <1>2, <1>3, <1>4, <1>5, <1>6, <1>7, <1>8, <1>9, <1>10, <1>11, <1>12, <1>13,
     <1>14, <1>15, <1>16, <1>17, <1>18, <1>19, <1>20, <1>21, <1>22, <1>23, <1>24, <1>25,
     <1>26, <1>27, <1>28, <1>29, <1>30 DEF Next, WorkerStep, ClientStep, Launching

(* The agreement of journal and history holds in every state.              *)
LEMMA AlwaysJournalSound ==
    ASSUME OnlyTheWorkerLaunches
    PROVE  Spec => []JournalSound
<1>1. Typed /\ Journaled /\ JournalSound /\ [Next]_vars => JournalSound'
  BY JournalStep
<1> QED
  BY <1>1, JournalInit, AlwaysTyped, AlwaysJournaled, PTL DEF Spec
-----------------------------------------------------------------------------
(* A step of the scheduler that writes neither the history nor a process   *)
(* is none of RunJournal's.                                                *)
LEMMA Stutter ==
    UNCHANGED <<proc, row, owner, start>> => UNCHANGED Abstract!vars
BY DEF Abstract!vars, Origin, Journal

(* The mapping is exact: twins share their task and their second.          *)
LEMMA Twins ==
    ASSUME NEW r \in Runs
    PROVE  /\ Abstract!HasTwin(r) <=> SharesItsSecond(r)
           /\ \A q \in Runs : q \in Abstract!SameOrigin(r) <=>
                 owner[q] = owner[r] /\ start[q] = start[r]
<1>1. \A q \in Runs : Origin[q] = Origin[r] <=> owner[q] = owner[r] /\ start[q] = start[r]
  BY DEF Origin
<1>2. Abstract!SameOrigin(r) = {q \in Runs : Origin[q] = Origin[r]}
  BY DEF Abstract!SameOrigin
<1>3. \A q \in Runs : q \in Abstract!SameOrigin(r) <=> owner[q] = owner[r] /\ start[q] = start[r]
  BY <1>1, <1>2
<1>4. Abstract!SameOrigin(r) # {r} <=> \E q \in Runs \ {r} : q \in Abstract!SameOrigin(r)
  BY <1>2
<1> QED
  BY <1>3, <1>4 DEF Abstract!HasTwin, SharesItsSecond

(* An empty history is an empty journal of runs.                           *)
LEMMA RefinesInit == Init => Abstract!Init
BY ThreadsAssumption DEF Init, Abstract!Init, Origin, Journal

(* Every step of the scheduler is one of RunJournal, or none.              *)
LEMMA RefinesStep ==
    ASSUME OnlyTheWorkerLaunches
    PROVE  Typed /\ Journaled /\ JournalSound /\ [Next]_vars => [Abstract!Next]_Abstract!vars
<1> SUFFICES ASSUME Typed, Journaled, JournalSound, [Next]_vars
             PROVE  Abstract!Next \/ UNCHANGED <<proc, row, owner, start>>
  BY Stutter
<1> USE ThreadsAssumption, BoundsAssumption
    DEF OnlyTheWorkerLaunches, Typed, TypeOK, LocalsOK, Option, Threads, Labels, Journaled,
        OpenWasStarted, JournalSound, ClientsIdle, RecordsKept, LaunchIsNewest, Verdicts,
        machine, database, memory, launch, tick, check
<1>1. ASSUME NEW th \in Threads, InsertHistory(th)
      PROVE  Abstract!Next \/ UNCHANGED <<proc, row, owner, start>>
  <2>1. CASE ~ForeignKey(arg[th])
    BY <1>1, <2>1 DEF InsertHistory
  <2>2. CASE ForeignKey(arg[th])
    <3>1. PICK r \in Runs :
            /\ owner[r] = None
            /\ owner' = [owner EXCEPT ![r] = arg[th]]
            /\ row' = [row EXCEPT ![r] = "Running"]
            /\ start' = [start EXCEPT ![r] = clock]
      BY <1>1, <2>2 DEF InsertHistory, Fresh, InsertRow
    <3>2. arg[th] \in Tasks /\ clock \in 0..MaxClock /\ proc' = proc
      BY <1>1, <2>2 DEF InsertHistory
    <3>3. Journal[r] = "none"
      BY <3>1 DEF Journal
    <3>4. Origin' = [Origin EXCEPT ![r] = <<arg[th], clock>>]
      BY <3>1 DEF Origin
    <3>5. Journal' = [Journal EXCEPT ![r] = "Running"]
      BY <3>1, <3>2 DEF Journal
    <3>6. Abstract!Begin(r, arg[th], clock)
      BY <3>2, <3>3, <3>4, <3>5 DEF Abstract!Begin
    <3> QED
      BY <3>2, <3>6 DEF Abstract!Next
  <2> QED
    BY <2>1, <2>2
<1>2. ASSUME NEW th \in Threads, CreateProcess(th)
      PROVE  Abstract!Next \/ UNCHANGED <<proc, row, owner, start>>
  <2>1. th = Worker /\ run[th] \in Runs /\ owner[run[th]] \in Tasks
    BY <1>2 DEF CreateProcess, Newest
  <2>2. /\ UNCHANGED <<row, owner, start>>
        /\ proc' = proc \/ proc' = [proc EXCEPT ![run[th]] = "alive"]
    BY <1>2 DEF CreateProcess
  <2>3. row[run[th]] \in {"none", "Running"} /\ proc[run[th]] = "none"
    BY <1>2, <2>1 DEF CreateProcess
  <2>4. CASE proc' = [proc EXCEPT ![run[th]] = "alive"]
    <3>1. Abstract!Launch(run[th])
      BY <2>1, <2>2, <2>3, <2>4 DEF Abstract!Launch, Origin, Journal
    <3> QED
      BY <2>1, <3>1 DEF Abstract!Next
  <2> QED
    BY <2>2, <2>4
<1>3. ASSUME NEW th \in Threads, Register(th)
      PROVE  Abstract!Next \/ UNCHANGED <<proc, row, owner, start>>
  BY <1>3 DEF Register, Goto
<1>4. ASSUME NEW th \in Threads, RecordPid(th)
      PROVE  Abstract!Next \/ UNCHANGED <<proc, row, owner, start>>
  BY <1>4 DEF RecordPid, Goto, ForgetLaunch, Rest
<1>5. CASE TickBegin
  BY <1>5 DEF TickBegin, Goto
<1>6. ASSUME NEW t \in Tasks, Decide(t)
      PROVE  Abstract!Next \/ UNCHANGED <<proc, row, owner, start>>
  BY <1>6 DEF Decide, Goto
<1>7. CASE Overlap
  BY <1>7 DEF Overlap, MayStart, Goto, Call, ForgetLaunch, Rest, Push
<1>8. CASE PendingBegin
  BY <1>8 DEF PendingBegin, Goto
<1>9. ASSUME NEW t \in Tasks, PendingTask(t)
      PROVE  Abstract!Next \/ UNCHANGED <<proc, row, owner, start>>
  BY <1>9 DEF PendingTask, Goto, Call
<1>10. CASE CheckBegin
  BY <1>10 DEF CheckBegin, Goto
<1>11. CASE Snapshot
  BY <1>11 DEF Snapshot, Goto
<1>12. ASSUME NEW t \in Tasks, Inspect(t)
      PROVE  Abstract!Next \/ UNCHANGED <<proc, row, owner, start>>
  BY <1>12 DEF Inspect, Goto, SeenExited
<1>13. CASE EraseExited
  BY <1>13 DEF EraseExited, Erased, Goto, ForgetCheck, ForgetSubject
<1>14. ASSUME NEW t \in Tasks, TakeTimedOut(t)
      PROVE  Abstract!Next \/ UNCHANGED <<proc, row, owner, start>>
  BY <1>14 DEF TakeTimedOut, Goto, Unregister
<1>15. CASE Kill
  <2>1. subject \in Runs /\ UNCHANGED <<row, owner, start>>
    BY <1>15 DEF Kill
  <2>2. proc' = proc \/ Terminate(subject)
    BY <1>15 DEF Kill
  <2>3. CASE subject \in handles /\ proc[subject] = "alive" /\ Terminate(subject)
    <3>1. Abstract!Exit(subject)
      BY <2>1, <2>3 DEF Terminate, Abstract!Exit, Origin, Journal
    <3> QED
      BY <2>1, <3>1 DEF Abstract!Next
  <2>4. CASE ~(subject \in handles /\ proc[subject] = "alive") /\ Terminate(subject)
    <3>1. subject \in handles => proc[subject] = "exited"
      BY <2>1, <2>4
    <3>2. proc' = proc
      BY <2>1, <2>4, <3>1 DEF Terminate
    <3> QED
      BY <2>1, <3>2
  <2> QED
    BY <2>1, <2>2, <2>3, <2>4
<1>16. CASE GetHistory
  BY <1>16 DEF GetHistory, Goto, Latest, RowsOf
<1>17. CASE Settle
  <2>1. /\ pc[Worker] = "settle" /\ UNCHANGED <<proc, owner, start>>
        /\ row' = [r \in Runs |-> IF r = found /\ row[r] # "none" THEN verdict ELSE row[r]]
    BY <1>17 DEF Settle
  <2>2. CASE found = None \/ row[found] = "none"
    BY <2>1, <2>2
  <2>3. CASE found # None /\ row[found] # "none"
    <3>1. /\ found \in Runs /\ subject \in Runs /\ verdict \in {"Completed", "Timeout"}
          /\ owner[subject] = owner[found] /\ start[subject] = start[found]
          /\ owner[found] \in Tasks
      BY <2>1, <2>3 DEF EntriesAreNewest, Newest
    <3>2. row[found] \notin Verdicts \/ SharesItsSecond(found)
      BY <2>1, <3>1 DEF OneVerdict, Undecided, Checking, SharesItsSecond
    <3>3. verdict = "Completed" => proc[subject] = "exited"
      BY <2>1 DEF PhasesKept, Checking
    <3>4. Abstract!HasTwin(found) <=> SharesItsSecond(found)
      BY <3>1, Twins
    <3>5. subject \in Abstract!SameOrigin(found)
      BY <3>1, Twins
    <3>6. Journal' = [Journal EXCEPT ![found] = verdict] /\ Origin' = Origin
      <4>1. DOMAIN row = Runs /\ verdict # "none"
        BY <3>1
      <4> HIDE DEF Typed, Journaled, JournalSound
      <4>2. \A r \in Runs : row'[r] = IF r = found THEN verdict ELSE row[r]
        BY <2>1, <2>3
      <4>3. \A r \in Runs : Journal'[r] = IF r = found THEN verdict ELSE Journal[r]
        BY <2>1, <4>1, <4>2 DEF Journal
      <4>4. Origin' = Origin
        BY <2>1 DEF Origin
      <4> QED
        BY <3>1, <4>3, <4>4 DEF Journal
    <3>7. Journal[found] = row[found] /\ row[found] \in {"Running", "Completed", "Timeout"}
      BY <2>3, <3>1 DEF Journal
    <3>8. Abstract!Verdict(found, verdict)
      BY <2>1, <3>1, <3>2, <3>3, <3>4, <3>5, <3>6, <3>7 DEF Abstract!Verdict
    <3> QED
      BY <3>1, <3>8 DEF Abstract!Next
  <2> QED
    BY <2>2, <2>3
<1>18. CASE TickEnd
  BY <1>18 DEF TickEnd, Goto, ForgetTick
<1>19. ASSUME NEW c \in Clients, NEW t \in Tasks, RunNow(c, t)
      PROVE  Abstract!Next \/ UNCHANGED <<proc, row, owner, start>>
  BY <1>19 DEF RunNow
<1>20. ASSUME NEW c \in Clients, NEW t \in Tasks, CreateTask(c, t)
      PROVE  Abstract!Next \/ UNCHANGED <<proc, row, owner, start>>
  BY <1>20 DEF CreateTask
<1>21. ASSUME NEW c \in Clients, NEW t \in Tasks, ToggleTask(c, t)
      PROVE  Abstract!Next \/ UNCHANGED <<proc, row, owner, start>>
  BY <1>21 DEF ToggleTask
<1>22. ASSUME NEW c \in Clients, NEW t \in Tasks, DeleteTask(c, t)
      PROVE  Abstract!Next \/ UNCHANGED <<proc, row, owner, start>>
  <2>1. Abstract!Erase(t)
    BY <1>22 DEF DeleteTask, Abstract!Erase, Origin, Journal
  <2> QED
    BY <2>1 DEF Abstract!Next
<1>23. CASE Stop
  BY <1>23 DEF Stop, Registered
<1>24. ASSUME NEW r \in Runs, StopProcess(r)
      PROVE  Abstract!Next \/ UNCHANGED <<proc, row, owner, start>>
  <2>1. r \in Runs /\ UNCHANGED <<row, owner, start>>
    BY <1>24 DEF StopProcess
  <2>2. proc' = proc \/ Terminate(r)
    BY <1>24 DEF StopProcess
  <2>3. CASE r \in handles /\ proc[r] = "alive" /\ Terminate(r)
    <3>1. Abstract!Exit(r)
      BY <2>1, <2>3 DEF Terminate, Abstract!Exit, Origin, Journal
    <3> QED
      BY <2>1, <3>1 DEF Abstract!Next
  <2>4. CASE ~(r \in handles /\ proc[r] = "alive") /\ Terminate(r)
    <3>1. r \in handles => proc[r] = "exited"
      BY <2>1, <2>4
    <3>2. proc' = proc
      BY <2>1, <2>4, <3>1 DEF Terminate
    <3> QED
      BY <2>1, <3>2
  <2> QED
    BY <2>1, <2>2, <2>3, <2>4
<1>25. CASE Restart
  BY <1>25 DEF Restart, Reboot, Rest, ForgetTick, ForgetCheck, ForgetSubject
<1>26. CASE Crash
  BY <1>26 DEF Crash, Reboot, Rest, ForgetTick, ForgetCheck, ForgetSubject
<1>27. CASE Advance
  BY <1>27 DEF Advance
<1>28. ASSUME NEW r \in Runs, ProcessExits(r)
      PROVE  Abstract!Next \/ UNCHANGED <<proc, row, owner, start>>
  <2>1. Abstract!Exit(r)
    BY <1>28 DEF ProcessExits, Abstract!Exit, Origin, Journal
  <2> QED
    BY <2>1 DEF Abstract!Next
<1>29. ASSUME NEW th \in Threads, DatabaseFails(th)
      PROVE  Abstract!Next \/ UNCHANGED <<proc, row, owner, start>>
  BY <1>29 DEF DatabaseFails
<1>30. CASE UNCHANGED vars
  BY <1>30 DEF vars
<1> QED
  BY <1>1, <1>2, <1>3, <1>4, <1>5, <1>6, <1>7, <1>8, <1>9, <1>10, <1>11, <1>12, <1>13,
     <1>14, <1>15, <1>16, <1>17, <1>18, <1>19, <1>20, <1>21, <1>22, <1>23, <1>24, <1>25,
     <1>26, <1>27, <1>28, <1>29, <1>30 DEF Next, WorkerStep, ClientStep, Launching

(* The history keeps the promise of RunJournal for any number of tasks,    *)
(* runs and clients that delete, create and toggle tasks, through stops,   *)
(* restarts, crashes and launches that fail.                               *)
THEOREM HistoryIsAJournal ==
    ASSUME OnlyTheWorkerLaunches
    PROVE  Spec => ImplementsRunJournal
<1>1. Typed /\ Journaled /\ JournalSound /\ [Next]_vars => [Abstract!Next]_Abstract!vars
  BY RefinesStep
<1>2. Spec => [](Typed /\ Journaled /\ JournalSound)
  BY AlwaysTyped, AlwaysJournaled, AlwaysJournalSound, PTL
<1> QED
  BY <1>1, <1>2, RefinesInit, PTL DEF Spec, ImplementsRunJournal, Abstract!Spec
-----------------------------------------------------------------------------
(* A twin of a run that has begun has begun too, so neither changes        *)
(* origin.                                                                 *)
LEMMA TwinsStay ==
    ASSUME OnlyTheWorkerLaunches, Typed, Journaled, JournalSound, [Next]_vars,
           NEW r \in Runs, owner[r] # None, SharesItsSecond(r)
    PROVE  SharesItsSecond(r)'
<1>1. [Abstract!Next]_Abstract!vars
  BY RefinesStep
<1>2. \A q \in Runs : Journal[q] = "none" => owner[q] = None
  BY DEF Journal
<1>3. \A q \in Runs : owner[q] # None => Origin'[q] = Origin[q]
  BY <1>1, <1>2 DEF Abstract!Next, Abstract!Begin, Abstract!Launch, Abstract!Exit,
     Abstract!Verdict, Abstract!Erase, Abstract!vars, Origin
<1>4. \A q \in Runs : owner[q] # None => owner'[q] = owner[q] /\ start'[q] = start[q]
  BY <1>3 DEF Origin
<1> QED
  BY <1>4 DEF SharesItsSecond

(* What one step may do to a record and its process.                       *)
LEMMA RecordStep ==
    ASSUME OnlyTheWorkerLaunches, Typed, Journaled, JournalSound, [Next]_vars, NEW r \in Runs
    PROVE  /\ proc[r] = "exited" => proc'[r] = "exited"
           /\ Journal[r] \in Verdicts /\ ~Abstract!HasTwin(r) =>
                 Journal'[r] \in {Journal[r], "erased"}
           /\ Journal'[r] = "Completed" =>
                 \/ Journal[r] = "Completed"
                 \/ /\ Journal[r] # "none"
                    /\ \E q \in Abstract!SameOrigin(r) : proc[q] = "exited"
<1> DEFINE Goal ==
      /\ proc[r] = "exited" => proc'[r] = "exited"
      /\ Journal[r] \in Verdicts /\ ~Abstract!HasTwin(r) => Journal'[r] \in {Journal[r], "erased"}
      /\ Journal'[r] = "Completed" =>
            \/ Journal[r] = "Completed"
            \/ /\ Journal[r] # "none"
               /\ \E q \in Abstract!SameOrigin(r) : proc[q] = "exited"
<1>1. [Abstract!Next]_Abstract!vars
  BY RefinesStep
<1>2. DOMAIN Journal = Runs /\ DOMAIN proc = Runs
  BY DEF Journal, Typed, TypeOK
<1> HIDE DEF Journal, Origin
<1>3. ASSUME NEW q \in Runs, NEW t \in Tasks, NEW second \in 0..MaxClock,
             Abstract!Begin(q, t, second)
      PROVE  Goal
  BY <1>2, <1>3 DEF Abstract!Begin, Verdicts
<1>4. ASSUME NEW q \in Runs, Abstract!Launch(q) PROVE Goal
  BY <1>2, <1>4 DEF Abstract!Launch, Verdicts
<1>5. ASSUME NEW q \in Runs, Abstract!Exit(q) PROVE Goal
  BY <1>2, <1>5 DEF Abstract!Exit, Verdicts
<1>6. ASSUME NEW q \in Runs, NEW v \in Verdicts, Abstract!Verdict(q, v) PROVE Goal
  BY <1>2, <1>6 DEF Abstract!Verdict, Verdicts
<1>7. ASSUME NEW t \in Tasks, Abstract!Erase(t) PROVE Goal
  BY <1>2, <1>7 DEF Abstract!Erase, Verdicts
<1>8. CASE UNCHANGED Abstract!vars
  BY <1>8 DEF Abstract!vars
<1> QED
  BY <1>1, <1>3, <1>4, <1>5, <1>6, <1>7, <1>8 DEF Abstract!Next, Verdicts

(* A row is completed by the worker, after it saw the process's exit.      *)
LEMMA CompletedStep ==
    ASSUME OnlyTheWorkerLaunches
    PROVE  Typed /\ Journaled /\ JournalSound /\ CompletedHasExited /\ [Next]_vars
               => CompletedHasExited'
<1> SUFFICES ASSUME Typed, Journaled, JournalSound, CompletedHasExited, [Next]_vars,
                    NEW r \in Runs, row'[r] = "Completed"
             PROVE  proc'[r] = "exited" \/ SharesItsSecond(r)'
  BY DEF CompletedHasExited
<1>1. Journal'[r] = "Completed"
  BY DEF Journal
<1>2. Journal[r] # "none" => owner[r] # None
  BY DEF JournalSound, RecordsKept, Journal
<1>3. CASE Journal[r] = "Completed"
  <2>1. row[r] = "Completed"
    BY <1>3 DEF Journal
  <2> QED
    BY <1>2, <1>3, <2>1, RecordStep, TwinsStay DEF CompletedHasExited
<1>4. CASE Journal[r] # "Completed"
  <2>1. PICK q \in Abstract!SameOrigin(r) : proc[q] = "exited"
    BY <1>1, <1>4, RecordStep
  <2>2. q \in Runs /\ owner[q] = owner[r] /\ start[q] = start[r]
    BY <2>1, Twins DEF Abstract!SameOrigin
  <2>3. owner[r] # None
    BY <1>1, <1>2, <1>4, RecordStep
  <2>4. CASE q = r
    BY <2>1, <2>4, RecordStep
  <2>5. CASE q # r
    <3>1. SharesItsSecond(r)
      BY <2>2, <2>5 DEF SharesItsSecond
    <3> QED
      BY <2>3, <3>1, TwinsStay
  <2> QED
    BY <2>4, <2>5
<1> QED
  BY <1>3, <1>4

(* A run marked Completed has exited, whatever the clients delete and      *)
(* whatever crashes, if no other run of the task began in its second.      *)
THEOREM CompletedRunsHaveExited ==
    ASSUME OnlyTheWorkerLaunches
    PROVE  Spec => []CompletedHasExited
<1>1. Init => CompletedHasExited
  BY DEF Init, CompletedHasExited
<1>2. Typed /\ Journaled /\ JournalSound /\ CompletedHasExited /\ [Next]_vars
          => CompletedHasExited'
  BY CompletedStep
<1> QED
  BY <1>1, <1>2, AlwaysTyped, AlwaysJournaled, AlwaysJournalSound, PTL DEF Spec

(* A verdict is final: a Timeout is not followed by a Completed, nor a     *)
(* verdict by a Running.                                                   *)
THEOREM VerdictsAreFinal ==
    ASSUME OnlyTheWorkerLaunches
    PROVE  Spec => VerdictIsFinal
<1>1. Typed /\ Journaled /\ JournalSound /\ [Next]_vars =>
      [\A r \in Runs : row[r] \in {"Completed", "Timeout"} /\ ~SharesItsSecond(r) =>
          row'[r] \in {row[r], "none"}]_vars
  <2> SUFFICES ASSUME Typed, Journaled, JournalSound, [Next]_vars, NEW r \in Runs,
                      row[r] \in Verdicts, ~SharesItsSecond(r)
               PROVE  row'[r] \in {row[r], "none"}
    BY DEF Verdicts
  <2>1. Journal[r] = row[r]
    BY DEF Journal, Verdicts
  <2>2. Journal'[r] \in {row[r], "erased"}
    BY <2>1, RecordStep, Twins
  <2>3. row'[r] = Journal'[r] \/ row'[r] = "none"
    BY DEF Journal
  <2>4. Typed'
    BY TypedStep
  <2> QED
    BY <2>2, <2>3, <2>4 DEF Typed, TypeOK
<1> QED
  BY <1>1, AlwaysTyped, AlwaysJournaled, AlwaysJournalSound, PTL DEF Spec, VerdictIsFinal
-----------------------------------------------------------------------------
(***************************************************************************)
(* No handle is lost.                                                      *)
(***************************************************************************)
(* While phase 2 looks at its copy, the map has no entries but those that  *)
(* were copied; of a task in exited_tasks the handle is closed, or about   *)
(* to be: phase 3 has nothing open to erase.                               *)
CopyIsCurrent ==
    /\ pc[Worker] = "inspect" \/ (Checking /\ verdict = "Completed") =>
          \A t \in Tasks : running[t] \in {None, snap[t]}
    /\ \A t \in exited : snap[t] \notin handles \/ (Checking /\ subject = snap[t])

(* stop runs once, so it takes the map while it holds nothing else.        *)
HandlesKept == NoHandleIsLost /\ CopyIsCurrent /\ (serving => doomed = {})

(* Initially no handle is open.                                            *)
LEMMA KeptInit == Init => HandlesKept
BY DEF Init, HandlesKept, NoHandleIsLost, CopyIsCurrent, Checking, Rest

(* No step loses a handle.                                                 *)
LEMMA KeptStep ==
    ASSUME OnlyTheWorkerLaunches
    PROVE  Typed /\ JournalSound /\ HandlesKept /\ [Next]_vars => HandlesKept'
<1> SUFFICES ASSUME Typed, JournalSound, HandlesKept, [Next]_vars PROVE HandlesKept'
  OBVIOUS
<1> USE ThreadsAssumption, BoundsAssumption
    DEF OnlyTheWorkerLaunches, Sequential, Typed, TypeOK, LocalsOK, Option, Threads, Labels,
        JournalSound, ClientsIdle, LaunchIsNewest, PhasesKept, Checking,
        HandlesKept, NoHandleIsLost, CopyIsCurrent,
        machine, database, memory, launch, tick, check
<1>1. ASSUME NEW th \in Threads, InsertHistory(th) PROVE HandlesKept'
  BY <1>1 DEF InsertHistory, Throw, Live, ForeignKey, InsertRow, Fresh, Goto, Rest,
     ForgetLaunch, ForgetTick, ForgetCheck, ForgetSubject
<1>2. ASSUME NEW th \in Threads, CreateProcess(th) PROVE HandlesKept'
  BY <1>2 DEF CreateProcess, Goto
<1>3. ASSUME NEW th \in Threads, Register(th) PROVE HandlesKept'
  BY <1>3 DEF Register, Goto
<1>4. ASSUME NEW th \in Threads, RecordPid(th) PROVE HandlesKept'
  BY <1>4 DEF RecordPid, Goto, ForgetLaunch, Rest
<1>5. CASE TickBegin
  BY <1>5 DEF TickBegin, Goto
<1>6. ASSUME NEW t \in Tasks, Decide(t) PROVE HandlesKept'
  BY <1>6 DEF Decide, Goto
<1>7. CASE Overlap
  BY <1>7 DEF Overlap, MayStart, Goto, Call, ForgetLaunch, Rest, Push
<1>8. CASE PendingBegin
  BY <1>8 DEF PendingBegin, Goto
<1>9. ASSUME NEW t \in Tasks, PendingTask(t) PROVE HandlesKept'
  BY <1>9 DEF PendingTask, Goto, Call
<1>10. CASE CheckBegin
  BY <1>10 DEF CheckBegin, Goto
<1>11. CASE Snapshot
  BY <1>11 DEF Snapshot, Goto
<1>12. ASSUME NEW t \in Tasks, Inspect(t) PROVE HandlesKept'
  BY <1>12 DEF Inspect, Goto, SeenExited
<1>13. CASE EraseExited
  BY <1>13 DEF EraseExited, Erased, Goto, ForgetCheck, ForgetSubject
<1>14. ASSUME NEW t \in Tasks, TakeTimedOut(t) PROVE HandlesKept'
  BY <1>14 DEF TakeTimedOut, Goto, Unregister
<1>15. CASE Kill
  BY <1>15 DEF Kill, Goto, Terminate
<1>16. CASE GetHistory
  BY <1>16 DEF GetHistory, Goto
<1>17. CASE Settle
  BY <1>17 DEF Settle, Goto, ForgetLaunch, Rest, ForgetSubject
<1>18. CASE TickEnd
  BY <1>18 DEF TickEnd, Goto, ForgetTick
<1>19. ASSUME NEW c \in Clients, NEW t \in Tasks, RunNow(c, t) PROVE HandlesKept'
  BY <1>19 DEF RunNow
<1>20. ASSUME NEW c \in Clients, NEW t \in Tasks, CreateTask(c, t) PROVE HandlesKept'
  BY <1>20 DEF CreateTask
<1>21. ASSUME NEW c \in Clients, NEW t \in Tasks, ToggleTask(c, t) PROVE HandlesKept'
  BY <1>21 DEF ToggleTask
<1>22. ASSUME NEW c \in Clients, NEW t \in Tasks, DeleteTask(c, t) PROVE HandlesKept'
  BY <1>22 DEF DeleteTask
<1>23. CASE Stop
  <2>1. /\ serving' = FALSE /\ UNCHANGED <<machine, database, handles, pc, launch, check>>
        /\ running' = running \/ \A t \in Tasks : running'[t] = None
    BY <1>23 DEF Stop
  <2>2. \/ UNCHANGED <<running, doomed>>
        \/ doomed = {} /\ doomed' = {running[t] : t \in Tasks} \ {None}
    BY <1>23 DEF Stop, Registered
  <2>3. \A r \in handles : r # None
    OBVIOUS
  <2>4. NoHandleIsLost'
    BY <2>1, <2>2, <2>3
  <2>5. CopyIsCurrent'
    BY <2>1
  <2> QED
    BY <2>1, <2>4, <2>5
<1>24. ASSUME NEW r \in Runs, StopProcess(r) PROVE HandlesKept'
  BY <1>24 DEF StopProcess, Terminate
<1>25. CASE Restart
  BY <1>25 DEF Restart, Reboot, Rest, ForgetTick, ForgetCheck, ForgetSubject
<1>26. CASE Crash
  BY <1>26 DEF Crash, Reboot, Rest, ForgetTick, ForgetCheck, ForgetSubject
<1>27. CASE Advance
  BY <1>27 DEF Advance
<1>28. ASSUME NEW r \in Runs, ProcessExits(r) PROVE HandlesKept'
  BY <1>28 DEF ProcessExits
<1>29. ASSUME NEW th \in Threads, DatabaseFails(th) PROVE HandlesKept'
  BY <1>29 DEF DatabaseFails
<1>30. CASE UNCHANGED vars
  BY <1>30 DEF vars
<1> QED
  BY <1>1, <1>2, <1>3, <1>4, <1>5, <1>6, <1>7, <1>8, <1>9, <1>10, <1>11, <1>12, <1>13,
     <1>14, <1>15, <1>16, <1>17, <1>18, <1>19, <1>20, <1>21, <1>22, <1>23, <1>24, <1>25,
     <1>26, <1>27, <1>28, <1>29, <1>30 DEF Next, WorkerStep, ClientStep, Launching

(* As long as the worker alone launches, under policies that forbid        *)
(* overlap, and no statement fails, every open handle will still be found  *)
(* by somebody who closes it, across stops, crashes and deletions.         *)
THEOREM HandlesAreNotLost ==
    ASSUME OnlyTheWorkerLaunches
    PROVE  Spec => []NoHandleIsLost
<1>1. Typed /\ JournalSound /\ HandlesKept /\ [Next]_vars => HandlesKept'
  BY KeptStep
<1>2. HandlesKept => NoHandleIsLost
  BY DEF HandlesKept
<1> QED
  BY <1>1, <1>2, KeptInit, AlwaysTyped, AlwaysJournalSound, PTL DEF Spec
=============================================================================
