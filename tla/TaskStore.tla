------------------------------ MODULE TaskStore ------------------------------
(***************************************************************************)
(* The tables tasks and time_windows behind the requests that write them   *)
(* (the handlers of ipc.cpp, the statements of database.cpp).              *)
(*                                                                         *)
(* The pipe server starts a thread for every request, so a request is its  *)
(* own thread.  A SQLite statement is one step, there are no transactions, *)
(* and whoever reads the tables (the worker, another client) reads them    *)
(* between any two steps.                                                  *)
(***************************************************************************)
EXTENDS Naturals, Sequences

CONSTANTS
    Tasks,         \* task ids; a new one is a fresh GUID
    Triggers,      \* what a time window says
    None,          \* no row, no request
    Existing,      \* the tasks in the database at the start
    Schedules,     \* what their windows may be
    MaxRequests,   \* bound: requests in one behaviour
    MaxFaults      \* bound: failed statements and crashes

Requests == 1..MaxRequests
Option(S) == S \cup {None}

ASSUME StoreAssumption ==
    /\ MaxRequests \in Nat
    /\ MaxFaults \in Nat
    /\ Existing \subseteq Tasks
    /\ Schedules \subseteq [Existing -> Seq(Triggers)]
    /\ None \notin Tasks \cup Requests
    /\ None \notin [enabled : BOOLEAN, kill_on_timeout : BOOLEAN]

VARIABLES
    tasks,          \* the row of each task, None if there is none
    used,           \* the ids that have been given to a task
    time_windows,   \* the windows of each task in the order of insertion, each
                    \* with the request that inserted it
    sent,           \* the requests sent so far
    request,        \* of each request: what it asks for,
    pc,             \* the statement its thread executes next,
    todo,           \* the windows it has still to insert,
    answer,         \* and what its client is told
    faults,
    (* history variables, read by properties only *)
    lone,           \* requests that no other on the same task has overlapped
    standing        \* the request that last cleared (or created) a task's windows

store   == <<tasks, used, time_windows>>
threads == <<sent, request, pc, todo, answer>>
history == <<lone, standing>>

storeVars == <<store, threads, faults, history>>
-----------------------------------------------------------------------------
Row == [enabled : BOOLEAN, kill_on_timeout : BOOLEAN]

Window == [trigger : Triggers, by : Requests \cup {0}]

Saves == {"CreateTask", "UpdateTask"}

Request ==
    [action : Saves \cup {"DeleteTask", "EnableTask", "DisableTask"},
     task : Tasks, row : Row, plan : Seq(Triggers)]

Idle == [action |-> "none"]

Active(r) == pc[r] \in {"row", "clear", "insert"}

OnTask(t) == {r \in Requests : Active(r) /\ request[r].task = t}

Triggered(windows) == [i \in DOMAIN windows |-> windows[i].trigger]

Stored(plan) == [i \in DOMAIN plan |-> [trigger |-> plan[i], by |-> 0]]

StoreInit ==
    /\ tasks = [t \in Tasks |-> IF t \in Existing
                                THEN [enabled |-> TRUE, kill_on_timeout |-> FALSE] ELSE None]
    /\ used = Existing
    /\ \E schedule \in Schedules :
          time_windows = [t \in Tasks |-> IF t \in Existing THEN Stored(schedule[t]) ELSE <<>>]
    /\ sent = 0
    /\ request = [r \in Requests |-> Idle]
    /\ pc = [r \in Requests |-> "unsent"]
    /\ todo = [r \in Requests |-> <<>>]
    /\ answer = [r \in Requests |-> "none"]
    /\ faults = 0
    /\ lone = {}
    /\ standing = [t \in Tasks |-> None]
-----------------------------------------------------------------------------
(***************************************************************************)
(* A request, from its arrival to its answer.                              *)
(***************************************************************************)
Send(r, asked) ==
    /\ sent < MaxRequests
    /\ r = sent + 1
    /\ sent' = r
    /\ request' = [request EXCEPT ![r] = asked]
    /\ pc' = [pc EXCEPT ![r] = "row"]
    /\ used' = used \cup {asked.task}
    /\ lone' = IF OnTask(asked.task) = {} THEN lone \cup {r} ELSE lone \ OnTask(asked.task)
    /\ UNCHANGED <<tasks, time_windows, todo, answer, faults, standing>>

Respond(r, what) ==
    /\ pc' = [pc EXCEPT ![r] = "done"]
    /\ answer' = [answer EXCEPT ![r] = what]
    /\ todo' = [todo EXCEPT ![r] = <<>>]

(* task_from_json: KillOnTimeout (like LogOutput and MaxHistoryRecords) is *)
(* not among the fields it reads, and keeps the default of the structure.  *)
FromJson(row) == [row EXCEPT !.kill_on_timeout = FALSE]

InsertTask(r) ==
    /\ pc[r] = "row" /\ request[r].action = "CreateTask"
    /\ LET t == request[r].task IN
       /\ tasks' = [tasks EXCEPT ![t] = FromJson(request[r].row)]
       /\ standing' = [standing EXCEPT ![t] = r]
    /\ pc' = [pc EXCEPT ![r] = "insert"]
    /\ todo' = [todo EXCEPT ![r] = request[r].plan]
    /\ UNCHANGED <<used, time_windows, sent, request, answer, faults, lone>>

(* No row, no error: an update of a task that is gone goes on.             *)
UpdateTask(r) ==
    /\ pc[r] = "row" /\ request[r].action = "UpdateTask"
    /\ tasks' = [tasks EXCEPT ![request[r].task] =
                    IF @ = None THEN None ELSE FromJson(request[r].row)]
    /\ pc' = [pc EXCEPT ![r] = "clear"]
    /\ UNCHANGED <<used, time_windows, sent, request, todo, answer, faults, history>>

(* A mutation of Cleared: ids compared without COLLATE NOCASE.             *)
ClearedExactly(t) == time_windows[t]

Cleared(t) == IF t \in Tasks THEN <<>> ELSE time_windows[t]

DeleteTimeWindows(r) ==
    /\ pc[r] = "clear"
    /\ LET t == request[r].task IN
       /\ time_windows' = [time_windows EXCEPT ![t] = Cleared(t)]
       /\ standing' = [standing EXCEPT ![t] = r]
    /\ pc' = [pc EXCEPT ![r] = "insert"]
    /\ todo' = [todo EXCEPT ![r] = request[r].plan]
    /\ UNCHANGED <<tasks, used, sent, request, answer, faults, lone>>

(* PRAGMA foreign_keys = ON.  A mutation: OFF.                             *)
NoParentNeeded(t) == t \in Tasks

HasParent(t) == tasks[t] # None

InsertTimeWindow(r) ==
    /\ pc[r] = "insert" /\ todo[r] # <<>>
    /\ LET t == request[r].task IN
       \/ /\ HasParent(t)
          /\ time_windows' = [time_windows EXCEPT ![t] =
                                Append(@, [trigger |-> Head(todo[r]), by |-> r])]
          /\ todo' = [todo EXCEPT ![r] = Tail(@)]
          /\ UNCHANGED <<pc, answer>>
       \/ /\ ~HasParent(t)
          /\ Respond(r, "error")
          /\ UNCHANGED time_windows
    /\ UNCHANGED <<tasks, used, sent, request, faults, history>>

Finish(r) ==
    /\ pc[r] = "insert" /\ todo[r] = <<>>
    /\ Respond(r, "ok")
    /\ UNCHANGED <<store, sent, request, faults, history>>

(* ON DELETE CASCADE takes the windows with the task.                      *)
DeleteTask(r) ==
    /\ pc[r] = "row" /\ request[r].action = "DeleteTask"
    /\ tasks' = [tasks EXCEPT ![request[r].task] = None]
    /\ time_windows' = [time_windows EXCEPT ![request[r].task] = <<>>]
    /\ Respond(r, "ok")
    /\ UNCHANGED <<used, sent, request, faults, history>>

ToggleTask(r) ==
    /\ pc[r] = "row" /\ request[r].action \in {"EnableTask", "DisableTask"}
    /\ tasks' = [tasks EXCEPT ![request[r].task] =
                    IF @ = None THEN None
                    ELSE [@ EXCEPT !.enabled = (request[r].action = "EnableTask")]]
    /\ Respond(r, "ok")
    /\ UNCHANGED <<used, time_windows, sent, request, faults, history>>

Statement(r) ==
    \/ InsertTask(r) \/ UpdateTask(r) \/ DeleteTimeWindows(r) \/ InsertTimeWindow(r)
    \/ Finish(r) \/ DeleteTask(r) \/ ToggleTask(r)

(* check_prepare and check_step throw, process_request answers with the    *)
(* error; what was written stays.  A mutation of Fail: the return code is  *)
(* ignored.                                                                *)
FailSilently(r) ==
    /\ todo' = [todo EXCEPT ![r] = IF @ = <<>> THEN @ ELSE Tail(@)]
    /\ UNCHANGED <<pc, answer>>

Fail(r) == Respond(r, "error")

StatementFails(r) ==
    /\ Active(r) /\ (pc[r] = "insert" => todo[r] # <<>>)
    /\ faults < MaxFaults
    /\ faults' = faults + 1
    /\ Fail(r)
    /\ UNCHANGED <<store, sent, request, history>>

(* The service ends: its threads with it, the database stays, and a client *)
(* that waits for an answer finds its pipe broken.                         *)
ServiceEnds ==
    /\ faults < MaxFaults
    /\ \E r \in Requests : Active(r)
    /\ faults' = faults + 1
    /\ pc' = [r \in Requests |-> IF Active(r) THEN "done" ELSE pc[r]]
    /\ answer' = [r \in Requests |-> IF Active(r) THEN "error" ELSE answer[r]]
    /\ todo' = [r \in Requests |-> <<>>]
    /\ UNCHANGED <<store, sent, request, history>>

StoreStep ==
    \/ \E r \in Requests : Statement(r) \/ StatementFails(r)
    \/ ServiceEnds
=============================================================================
