-------------------------- MODULE TaskEditorProofs --------------------------
(***************************************************************************)
(* Type correctness of the editor and its store, no window without its     *)
(* task, that a save nobody overlaps is whole, and what becomes of a       *)
(* schedule that is saved, for any number of front ends, tasks and         *)
(* requests.                                                               *)
(***************************************************************************)
EXTENDS TaskEditor, SequenceTheorems, WellFoundedInduction, TLAPS

(* The types of the store, with who acts: the requests that were sent.      *)
StoreTyped ==
    /\ tasks \in [Tasks -> Option(Row)]
    /\ used \in SUBSET Tasks
    /\ time_windows \in [Tasks -> Seq(Window)]
    /\ sent \in 0..MaxRequests
    /\ request \in [Requests -> Request \cup {Idle}]
    /\ pc \in [Requests -> {"unsent", "row", "clear", "insert", "done"}]
    /\ todo \in [Requests -> Seq(Triggers)]
    /\ answer \in [Requests -> {"none", "ok", "error"}]
    /\ faults \in 0..MaxFaults
    /\ lone \in SUBSET Requests
    /\ standing \in [Tasks -> Option(Requests)]
    /\ \A r \in Requests : pc[r] # "unsent" => request[r] \in Request
    /\ \A r \in Requests : r > sent => pc[r] = "unsent"

(* The types of the front ends: an editor that loads has a task to load.   *)
FrontTyped ==
    /\ seen \in [UIs -> [Tasks -> Option(BOOLEAN)]]
    /\ editor \in [UIs -> Editor]
    /\ entered \in [Requests -> [kill : BOOLEAN, list : Seq(EditKinds),
                                 kept : Seq(Triggers) \cup {None}]]
    /\ \A u \in UIs : editor[u].phase \in {"opening", "fields"} => editor[u].subject \in Tasks

Typed == StoreTyped /\ FrontTyped

(* A row as task_from_json reads it, and as a toggle leaves it, is a row.  *)
LEMMA RowsTyped ==
    ASSUME NEW row \in Row, NEW b \in BOOLEAN
    PROVE  /\ FromJson(row) \in Row /\ FromJson(row) # None
           /\ [row EXCEPT !.enabled = b] \in Row
<1>1. FromJson(row) \in Row
  BY DEF FromJson, Row
<1>2. None \notin Row
  BY StoreAssumption DEF Row
<1> QED
  BY <1>1, <1>2 DEF Row

(* The triggers of a list of windows, one for each.                        *)
LEMMA TriggeredTyped ==
    ASSUME NEW windows \in Seq(Window)
    PROVE  Triggered(windows) \in Seq(Triggers) /\ Len(Triggered(windows)) = Len(windows)
<1>1. Len(windows) \in Nat /\ DOMAIN windows = 1..Len(windows)
  BY LenProperties
<1>2. \A i \in 1..Len(windows) : windows[i].trigger \in Triggers
  <2>1. \A i \in 1..Len(windows) : windows[i] \in Window
    BY ElementOfSeq
  <2> QED
    BY <2>1 DEF Window
<1>3. Triggered(windows) \in [1..Len(windows) -> Triggers]
  BY <1>1, <1>2 DEF Triggered
<1> QED
  BY <1>1, <1>3

(* Inserting a window appends its trigger.                                 *)
LEMMA AppendTriggered ==
    ASSUME NEW windows \in Seq(Window), NEW w \in Window
    PROVE  Triggered(Append(windows, w)) = Append(Triggered(windows), w.trigger)
<1>1. Append(windows, w) \in Seq(Window) /\ Len(Append(windows, w)) = Len(windows) + 1
  OBVIOUS
<1>2. Triggered(windows) \in Seq(Triggers) /\ Len(Triggered(windows)) = Len(windows)
  BY TriggeredTyped
<1>3. /\ Triggered(Append(windows, w)) \in Seq(Triggers)
      /\ Len(Triggered(Append(windows, w))) = Len(windows) + 1
  BY <1>1, TriggeredTyped
<1>4. w.trigger \in Triggers
  BY DEF Window
<1>5. \A i \in 1..(Len(windows) + 1) :
          Triggered(Append(windows, w))[i] = Append(Triggered(windows), w.trigger)[i]
  BY <1>1, <1>2 DEF Triggered
<1>6. /\ Append(Triggered(windows), w.trigger) \in Seq(Triggers)
      /\ Len(Append(Triggered(windows), w.trigger)) = Len(windows) + 1
  BY <1>2, <1>4
<1> QED
  BY <1>3, <1>5, <1>6, SeqEqual

(* Removing a row of the editor's list leaves a list.                      *)
LEMMA RemoveAtTyped ==
    ASSUME NEW S, NEW s \in Seq(S), NEW i \in DOMAIN s
    PROVE  RemoveAt(s, i) \in Seq(S)
<1>1. i \in 1..Len(s)
  OBVIOUS
<1>2. SubSeq(s, 1, i - 1) \in Seq(S) /\ SubSeq(s, i + 1, Len(s)) \in Seq(S)
  BY <1>1, ElementOfSeq, SubSeqProperties
<1> QED
  BY <1>2, ConcatProperties DEF RemoveAt

(* The windows a save sends are windows the store knows.                   *)
LEMMA PlanTyped ==
    ASSUME NEW list \in Seq(EditKinds)
    PROVE  [i \in DOMAIN list |-> ToDto(list[i])] \in Seq(Triggers)
<1>1. DOMAIN list = 1..Len(list) /\ Len(list) \in Nat
  OBVIOUS
<1>2. \A i \in 1..Len(list) : ToDto(list[i]) \in Triggers
  BY EditorAssumption, ElementOfSeq DEF ToDto, EditKinds, Kinds
<1> QED
  BY <1>1, <1>2

(* Initially everything has its type.                                      *)
LEMMA TypedInit == Init => Typed
<1> SUFFICES ASSUME Init PROVE Typed
  OBVIOUS
<1>1. tasks \in [Tasks -> Option(Row)]
  BY DEF Init, StoreInit, Option, Row
<1>2. time_windows \in [Tasks -> Seq(Window)]
  <2>1. ASSUME NEW plan \in Seq(Triggers) PROVE Stored(plan) \in Seq(Window)
    <3>1. \A i \in 1..Len(plan) : [trigger |-> plan[i], by |-> 0] \in Window
      BY ElementOfSeq DEF Window
    <3> QED
      BY <3>1 DEF Stored
  <2>2. PICK schedule \in Schedules :
          time_windows = [t \in Tasks |-> IF t \in Existing THEN Stored(schedule[t]) ELSE <<>>]
    BY DEF Init, StoreInit
  <2>3. \A t \in Existing : schedule[t] \in Seq(Triggers)
    BY StoreAssumption
  <2> QED
    BY <2>1, <2>2, <2>3
<1>3. /\ request \in [Requests -> Request \cup {Idle}]
      /\ entered \in [Requests -> [kill : BOOLEAN, list : Seq(EditKinds),
                                   kept : Seq(Triggers) \cup {None}]]
  BY DEF Init, StoreInit, NotEntered
<1>4. seen \in [UIs -> [Tasks -> Option(BOOLEAN)]]
  BY DEF Init, Option
<1>5. Closed \in Editor
  BY DEF Closed, Editor, Option
<1>6. editor \in [UIs -> Editor]
  BY <1>5 DEF Init
<1>7. /\ used \in SUBSET Tasks /\ sent \in 0..MaxRequests /\ faults \in 0..MaxFaults
      /\ pc \in [Requests -> {"unsent", "row", "clear", "insert", "done"}]
      /\ todo \in [Requests -> Seq(Triggers)]
      /\ answer \in [Requests -> {"none", "ok", "error"}]
      /\ lone \in SUBSET Requests
      /\ standing \in [Tasks -> Option(Requests)]
  BY StoreAssumption DEF Init, StoreInit, Option
<1>8. /\ \A r \in Requests : pc[r] = "unsent"
      /\ \A u \in UIs : editor[u].phase = "closed"
  BY DEF Init, StoreInit, Closed
<1>9. StoreTyped
  BY <1>1, <1>2, <1>3, <1>7, <1>8 DEF StoreTyped
<1>10. FrontTyped
  BY <1>3, <1>4, <1>6, <1>8 DEF FrontTyped
<1> QED
  BY <1>9, <1>10 DEF Typed
-----------------------------------------------------------------------------
(* The store's steps.                                                      *)
LEMMA SendTyped ==
    ASSUME StoreTyped, NEW r \in Requests, NEW asked \in Request, Send(r, asked)
    PROVE  StoreTyped'
<1>1. asked.task \in Tasks
  BY DEF Request
<1>2. /\ sent < MaxRequests /\ sent' = r /\ r = sent + 1
      /\ request' = [request EXCEPT ![r] = asked]
      /\ pc' = [pc EXCEPT ![r] = "row"]
      /\ UNCHANGED <<tasks, time_windows, todo, answer, faults, standing>>
  BY DEF Send
<1>7. used' \in SUBSET Tasks /\ lone' \in SUBSET Requests
  BY <1>1 DEF Send, StoreTyped
<1>8. sent' \in 0..MaxRequests
  BY <1>2, StoreAssumption DEF StoreTyped
<1>3. request' \in [Requests -> Request \cup {Idle}]
  BY <1>2 DEF StoreTyped
<1>4. pc' \in [Requests -> {"unsent", "row", "clear", "insert", "done"}]
  BY <1>2 DEF StoreTyped
<1>5. \A q \in Requests : pc'[q] # "unsent" => request'[q] \in Request
  BY <1>2 DEF StoreTyped
<1>6. \A q \in Requests : q > sent' => pc'[q] = "unsent"
  BY <1>2 DEF StoreTyped
<1> QED
  BY <1>2, <1>3, <1>4, <1>5, <1>6, <1>7, <1>8 DEF StoreTyped

(* A thread that answers ends.                                             *)
LEMMA RespondTyped ==
    ASSUME StoreTyped, NEW r \in Requests, pc[r] # "unsent", NEW what \in {"ok", "error"},
           Respond(r, what), UNCHANGED <<sent, request>>
    PROVE  /\ pc' \in [Requests -> {"unsent", "row", "clear", "insert", "done"}]
           /\ todo' \in [Requests -> Seq(Triggers)]
           /\ answer' \in [Requests -> {"none", "ok", "error"}]
           /\ \A q \in Requests : pc'[q] # "unsent" => request'[q] \in Request
           /\ \A q \in Requests : q > sent' => pc'[q] = "unsent"
<1> DEFINE Steps == {"unsent", "row", "clear", "insert", "done"}
<1>1. pc' \in [Requests -> Steps]
  BY DEF Respond, StoreTyped
<1>2. todo' \in [Requests -> Seq(Triggers)]
  BY DEF Respond, StoreTyped
<1>3. answer' \in [Requests -> {"none", "ok", "error"}]
  BY DEF Respond, StoreTyped
<1>4. \A q \in Requests : pc'[q] # "unsent" => pc[q] # "unsent"
  BY DEF Respond, StoreTyped
<1> QED
  BY <1>1, <1>2, <1>3, <1>4 DEF StoreTyped

(* A thread moves on to its next statement.                                *)
LEMMA NextStatementTyped ==
    ASSUME StoreTyped, NEW r \in Requests, pc[r] # "unsent", NEW l \in {"clear", "insert"},
           pc' = [pc EXCEPT ![r] = l], UNCHANGED <<sent, request>>
    PROVE  /\ pc' \in [Requests -> {"unsent", "row", "clear", "insert", "done"}]
           /\ \A q \in Requests : pc'[q] # "unsent" => request'[q] \in Request
           /\ \A q \in Requests : q > sent' => pc'[q] = "unsent"
BY DEF StoreTyped

(* Each statement of a handler keeps the store's types.                    *)
LEMMA StatementTyped ==
    ASSUME StoreTyped, NEW r \in Requests, Statement(r)
    PROVE  StoreTyped'
<1> DEFINE t == request[r].task
<1>1. pc[r] # "unsent" /\ request[r] \in Request
  BY DEF Statement, InsertTask, UpdateTask, DeleteTimeWindows, InsertTimeWindow, Finish,
     DeleteTask, ToggleTask, StoreTyped
<1>2. /\ t \in Tasks /\ request[r].row \in Row /\ request[r].plan \in Seq(Triggers)
  BY <1>1 DEF Request
<1>3. FromJson(request[r].row) \in Row
  BY <1>2, RowsTyped
<1>4. CASE InsertTask(r)
  <2>1. tasks' \in [Tasks -> Option(Row)]
    BY <1>2, <1>3, <1>4 DEF InsertTask, StoreTyped, Option
  <2>2. standing' \in [Tasks -> Option(Requests)]
    BY <1>2, <1>4 DEF InsertTask, StoreTyped, Option
  <2>3. todo' \in [Requests -> Seq(Triggers)]
    BY <1>2, <1>4 DEF InsertTask, StoreTyped
  <2>4. /\ pc' = [pc EXCEPT ![r] = "insert"]
        /\ UNCHANGED <<used, time_windows, sent, request, answer, faults, lone>>
    BY <1>4 DEF InsertTask
  <2> QED
    BY <1>1, <2>1, <2>2, <2>3, <2>4, NextStatementTyped DEF StoreTyped
<1>5. CASE UpdateTask(r)
  <2>1. tasks' \in [Tasks -> Option(Row)]
    BY <1>2, <1>3, <1>5 DEF UpdateTask, StoreTyped, Option
  <2>2. /\ pc' = [pc EXCEPT ![r] = "clear"]
        /\ UNCHANGED <<used, time_windows, sent, request, todo, answer, faults, history>>
    BY <1>5 DEF UpdateTask
  <2> QED
    BY <1>1, <2>1, <2>2, NextStatementTyped DEF StoreTyped, history
<1>6. CASE DeleteTimeWindows(r)
  <2>1. time_windows' \in [Tasks -> Seq(Window)]
    BY <1>2, <1>6 DEF DeleteTimeWindows, Cleared, StoreTyped
  <2>2. standing' \in [Tasks -> Option(Requests)]
    BY <1>2, <1>6 DEF DeleteTimeWindows, StoreTyped, Option
  <2>3. todo' \in [Requests -> Seq(Triggers)]
    BY <1>2, <1>6 DEF DeleteTimeWindows, StoreTyped
  <2>4. /\ pc' = [pc EXCEPT ![r] = "insert"]
        /\ UNCHANGED <<tasks, used, sent, request, answer, faults, lone>>
    BY <1>6 DEF DeleteTimeWindows
  <2> QED
    BY <1>1, <2>1, <2>2, <2>3, <2>4, NextStatementTyped DEF StoreTyped
<1>7. CASE InsertTimeWindow(r)
  <2>1. /\ UNCHANGED <<tasks, used, sent, request, faults, history>>
        /\ todo[r] \in Seq(Triggers) /\ todo[r] # <<>>
    BY <1>7 DEF InsertTimeWindow, StoreTyped
  <2>2. CASE HasParent(t)
    <3>1. Head(todo[r]) \in Triggers /\ Tail(todo[r]) \in Seq(Triggers)
      BY <2>1, HeadTailProperties
    <3>2. [trigger |-> Head(todo[r]), by |-> r] \in Window
      BY <3>1 DEF Window
    <3>3. /\ time_windows' = [time_windows EXCEPT ![t] =
                                Append(@, [trigger |-> Head(todo[r]), by |-> r])]
          /\ todo' = [todo EXCEPT ![r] = Tail(@)]
          /\ UNCHANGED <<pc, answer>>
      BY <1>7, <2>2 DEF InsertTimeWindow
    <3>4. Append(time_windows[t], [trigger |-> Head(todo[r]), by |-> r]) \in Seq(Window)
      BY <1>2, <3>2 DEF StoreTyped
    <3>5. time_windows' \in [Tasks -> Seq(Window)]
      BY <3>3, <3>4 DEF StoreTyped
    <3>6. todo' \in [Requests -> Seq(Triggers)]
      BY <3>1, <3>3 DEF StoreTyped
    <3> QED
      BY <2>1, <3>3, <3>5, <3>6 DEF StoreTyped, history
  <2>3. CASE ~HasParent(t)
    <3>1. Respond(r, "error") /\ UNCHANGED time_windows
      BY <1>7, <2>3 DEF InsertTimeWindow
    <3> QED
      BY <1>1, <2>1, <3>1, RespondTyped DEF StoreTyped, history
  <2> QED
    BY <2>2, <2>3
<1>8. CASE Finish(r)
  <2>1. Respond(r, "ok") /\ UNCHANGED <<store, sent, request, faults, history>>
    BY <1>8 DEF Finish
  <2> QED
    BY <1>1, <2>1, RespondTyped DEF StoreTyped, store, history
<1>9. CASE DeleteTask(r)
  <2>1. Respond(r, "ok") /\ UNCHANGED <<used, sent, request, faults, history>>
    BY <1>9 DEF DeleteTask
  <2>2. tasks' \in [Tasks -> Option(Row)]
    BY <1>2, <1>9 DEF DeleteTask, StoreTyped, Option
  <2>3. time_windows' \in [Tasks -> Seq(Window)]
    BY <1>2, <1>9 DEF DeleteTask, StoreTyped
  <2> QED
    BY <1>1, <2>1, <2>2, <2>3, RespondTyped DEF StoreTyped, history
<1>10. CASE ToggleTask(r)
  <2>1. Respond(r, "ok") /\ UNCHANGED <<used, time_windows, sent, request, faults, history>>
    BY <1>10 DEF ToggleTask
  <2>2. tasks[t] # None =>
            [tasks[t] EXCEPT !.enabled = (request[r].action = "EnableTask")] \in Row
    BY <1>2, RowsTyped DEF StoreTyped, Option
  <2>3. tasks' = [tasks EXCEPT ![t] =
                    IF tasks[t] = None THEN None
                    ELSE [tasks[t] EXCEPT !.enabled = (request[r].action = "EnableTask")]]
    BY <1>10 DEF ToggleTask
  <2>4. tasks' \in [Tasks -> Option(Row)]
    <3> DEFINE new == [tasks[t] EXCEPT !.enabled = (request[r].action = "EnableTask")]
    <3> HIDE DEF new
    <3> QED
      BY <1>2, <2>2, <2>3 DEF StoreTyped, Option, new
  <2> QED
    BY <1>1, <2>1, <2>4, RespondTyped DEF StoreTyped, history
<1> QED
  BY <1>4, <1>5, <1>6, <1>7, <1>8, <1>9, <1>10 DEF Statement

(* So do failed statements and the end of the service.                     *)
LEMMA StoreStepTyped == StoreTyped /\ StoreStep => StoreTyped'
<1> SUFFICES ASSUME StoreTyped, StoreStep PROVE StoreTyped'
  OBVIOUS
<1>1. ASSUME NEW r \in Requests, StatementFails(r) PROVE StoreTyped'
  <2>1. /\ Respond(r, "error") /\ pc[r] # "unsent"
        /\ faults' = faults + 1 /\ faults < MaxFaults
        /\ UNCHANGED <<store, sent, request, history>>
    BY <1>1 DEF StatementFails, Fail, Active
  <2> QED
    BY <2>1, RespondTyped, StoreAssumption DEF StoreTyped, store, history
<1>2. CASE ServiceEnds
  <2>1. /\ faults' = faults + 1 /\ faults < MaxFaults
        /\ UNCHANGED <<store, sent, request, history>>
    BY <1>2 DEF ServiceEnds
  <2>2. pc' \in [Requests -> {"unsent", "row", "clear", "insert", "done"}]
    BY <1>2 DEF ServiceEnds, StoreTyped
  <2>3. answer' \in [Requests -> {"none", "ok", "error"}]
    BY <1>2 DEF ServiceEnds, StoreTyped
  <2>4. todo' \in [Requests -> Seq(Triggers)]
    BY <1>2 DEF ServiceEnds
  <2>5. \A r \in Requests : pc'[r] = pc[r] \/ (pc[r] # "unsent" /\ pc'[r] = "done")
    BY <1>2 DEF ServiceEnds, Active
  <2> QED
    BY <2>1, <2>2, <2>3, <2>4, <2>5, StoreAssumption DEF StoreTyped, store, history
<1> QED
  BY <1>1, <1>2, StatementTyped DEF StoreStep
-----------------------------------------------------------------------------
(* The front end's steps.                                                  *)
LEMMA ClosedTyped == Closed \in Editor
BY DEF Closed, Editor, Option

(* What an editor does to itself.                                          *)
Loads(e) == e.phase \in {"opening", "fields"} => e.subject \in Tasks

(* It is closed, and leaves the saves it waits for.                        *)
LEMMA EditorIsDismissed ==
    ASSUME NEW e \in Editor
    PROVE  Dismissed(e) \in Editor /\ Loads(Dismissed(e)) /\ Dismissed(e).base = None
<1>1. e.stray \cup e.asked \in SUBSET Requests
  BY DEF Editor
<1>2. ASSUME NEW s \in SUBSET Requests PROVE [Closed EXCEPT !.stray = s] \in Editor
  BY <1>2, ClosedTyped DEF Editor
<1>3. Dismissed(e).phase = "closed" /\ Dismissed(e).base = None
  BY DEF Dismissed, Closed
<1> QED
  BY <1>1, <1>2, <1>3 DEF Dismissed, Loads

(* LoadExistingAsync gives up.                                             *)
LEMMA EditorFails ==
    ASSUME NEW e \in Editor
    PROVE  [e EXCEPT !.phase = "failed"] \in Editor /\ Loads([e EXCEPT !.phase = "failed"])
<1>1. [e EXCEPT !.phase = "failed"] \in Editor
  BY DEF Editor
<1>2. [e EXCEPT !.phase = "failed"].phase = "failed"
  BY DEF Editor
<1> QED
  BY <1>1, <1>2 DEF Loads

(* It has the row of the task.                                             *)
LEMMA EditorGetsFields ==
    ASSUME NEW e \in Editor, e.subject \in Tasks, NEW k \in BOOLEAN
    PROVE  /\ [e EXCEPT !.phase = "fields", !.kill = k] \in Editor
           /\ Loads([e EXCEPT !.phase = "fields", !.kill = k])
<1>1. [e EXCEPT !.phase = "fields", !.kill = k] \in Editor
  BY DEF Editor
<1>2. [e EXCEPT !.phase = "fields", !.kill = k].subject = e.subject
  BY DEF Editor
<1> QED
  BY <1>1, <1>2 DEF Loads

(* An editor for a new task has nothing to load.                           *)
LEMMA EditorIsLoaded ==
    ASSUME NEW e \in Editor, NEW k \in BOOLEAN
    PROVE  /\ [e EXCEPT !.phase = "loaded", !.kill = k] \in Editor
           /\ Loads([e EXCEPT !.phase = "loaded", !.kill = k])
<1>1. [e EXCEPT !.phase = "loaded", !.kill = k] \in Editor
  BY DEF Editor
<1>2. [e EXCEPT !.phase = "loaded", !.kill = k].phase = "loaded"
  BY DEF Editor
<1> QED
  BY <1>1, <1>2 DEF Loads

(* An editor for an existing task has a task to load.                      *)
LEMMA EditorOpens ==
    ASSUME NEW e \in Editor, NEW t \in Tasks, NEW b \in BOOLEAN
    PROVE  /\ [e EXCEPT !.phase = "opening", !.subject = t, !.enabled = b] \in Editor
           /\ Loads([e EXCEPT !.phase = "opening", !.subject = t, !.enabled = b])
<1>1. [e EXCEPT !.phase = "opening", !.subject = t, !.enabled = b] \in Editor
  BY DEF Editor, Option
<1>2. [e EXCEPT !.phase = "opening", !.subject = t, !.enabled = b].subject = t
  BY DEF Editor
<1> QED
  BY <1>1, <1>2 DEF Loads

(* LoadExistingAsync has the windows.                                      *)
LEMMA EditorGetsWindows ==
    ASSUME NEW e \in Editor, NEW list \in Seq(EditKinds), NEW base \in Seq(Window) \cup {None}
    PROVE  /\ [e EXCEPT !.phase = "loaded", !.list = list, !.base = base] \in Editor
           /\ Loads([e EXCEPT !.phase = "loaded", !.list = list, !.base = base])
<1>1. [e EXCEPT !.phase = "loaded", !.list = list, !.base = base] \in Editor
  BY DEF Editor
<1>2. [e EXCEPT !.phase = "loaded", !.list = list, !.base = base].phase = "loaded"
  BY DEF Editor
<1> QED
  BY <1>1, <1>2 DEF Loads

(* The user changes the list.                                              *)
LEMMA EditorIsEdited ==
    ASSUME NEW e \in Editor, Loads(e), NEW list \in Seq(EditKinds)
    PROVE  /\ [e EXCEPT !.list = list, !.base = None] \in Editor
           /\ Loads([e EXCEPT !.list = list, !.base = None])
<1>1. [e EXCEPT !.list = list, !.base = None] \in Editor
  BY DEF Editor
<1>2. /\ [e EXCEPT !.list = list, !.base = None].subject = e.subject
      /\ [e EXCEPT !.list = list, !.base = None].phase = e.phase
  BY DEF Editor
<1> QED
  BY <1>1, <1>2 DEF Loads

(* The set of saves an editor waits for changes.                           *)
LEMMA EditorWaits ==
    ASSUME NEW e \in Editor, Loads(e), NEW asked \in SUBSET Requests
    PROVE  /\ [e EXCEPT !.asked = asked] \in Editor
           /\ Loads([e EXCEPT !.asked = asked])
<1>1. [e EXCEPT !.asked = asked] \in Editor
  BY DEF Editor
<1>2. /\ [e EXCEPT !.asked = asked].subject = e.subject
      /\ [e EXCEPT !.asked = asked].phase = e.phase
  BY DEF Editor
<1> QED
  BY <1>1, <1>2 DEF Loads

(* So does the set of those it does not wait for any more.                 *)
LEMMA EditorForgets ==
    ASSUME NEW e \in Editor, Loads(e), NEW stray \in SUBSET Requests
    PROVE  /\ [e EXCEPT !.stray = stray] \in Editor
           /\ Loads([e EXCEPT !.stray = stray])
<1>1. [e EXCEPT !.stray = stray] \in Editor
  BY DEF Editor
<1>2. /\ [e EXCEPT !.stray = stray].subject = e.subject
      /\ [e EXCEPT !.stray = stray].phase = e.phase
  BY DEF Editor
<1> QED
  BY <1>1, <1>2 DEF Loads

(* A step of one front end that changes its editor only.                   *)
LEMMA EditorStepTyped ==
    ASSUME FrontTyped, NEW u \in UIs, NEW e \in Editor, Loads(e),
           editor' = [editor EXCEPT ![u] = e], UNCHANGED <<seen, entered>>
    PROVE  FrontTyped'
<1>1. editor' \in [UIs -> Editor]
  BY DEF FrontTyped
<1>2. \A v \in UIs : editor'[v] = e \/ editor'[v] = editor[v]
  BY DEF FrontTyped
<1>3. \A v \in UIs : editor'[v].phase \in {"opening", "fields"} => editor'[v].subject \in Tasks
  BY <1>2 DEF FrontTyped, Loads
<1> QED
  BY <1>1, <1>3 DEF FrontTyped

(* The steps of a front end that send and fail nothing.                    *)
LEMMA WindowStepTyped ==
    ASSUME StoreTyped, FrontTyped, NEW u \in UIs,
           \/ Refresh(u) \/ OpenNew(u) \/ LoadTask(u) \/ LoadWindows(u) \/ Cancel(u)
           \/ \E t \in Tasks : OpenEditor(u, t)
           \/ \E r \in Requests : Answered(u, r) \/ StrayAnswered(u, r)
    PROVE  FrontTyped' /\ UNCHANGED storeVars
<1> DEFINE e == editor[u]
<1>1. e \in Editor /\ Loads(e)
  BY DEF FrontTyped, Loads
<1>2. Dismissed(e) \in Editor /\ Loads(Dismissed(e))
  BY <1>1, EditorIsDismissed
<1>3. CASE Refresh(u)
  <2>1. \A t \in Tasks : tasks[t] # None => tasks[t].enabled \in BOOLEAN
    BY DEF StoreTyped, Option, Row
  <2>2. [t \in Tasks |-> IF tasks[t] = None THEN None ELSE tasks[t].enabled]
            \in [Tasks -> Option(BOOLEAN)]
    BY <2>1 DEF Option
  <2>3. /\ seen' = [seen EXCEPT ![u] =
                      [t \in Tasks |-> IF tasks[t] = None THEN None ELSE tasks[t].enabled]]
        /\ UNCHANGED <<storeVars, editor, entered>>
    BY <1>3 DEF Refresh
  <2>4. seen' \in [UIs -> [Tasks -> Option(BOOLEAN)]]
    BY <2>2, <2>3 DEF FrontTyped
  <2> QED
    BY <2>3, <2>4 DEF FrontTyped
<1>4. CASE OpenNew(u)
  <2>1. PICK kill \in BOOLEAN :
          editor' = [editor EXCEPT ![u] =
                        [Dismissed(e) EXCEPT !.phase = "loaded", !.kill = kill]]
    BY <1>4 DEF OpenNew
  <2> DEFINE new == [Dismissed(e) EXCEPT !.phase = "loaded", !.kill = kill]
  <2>2. new \in Editor /\ Loads(new)
    BY <1>2, EditorIsLoaded
  <2>3. editor' = [editor EXCEPT ![u] = new] /\ UNCHANGED <<storeVars, seen, entered>>
    BY <1>4, <2>1 DEF OpenNew
  <2> HIDE DEF new
  <2> QED
    BY <2>2, <2>3, EditorStepTyped
<1>5. CASE LoadTask(u)
  <2> DEFINE failed == [e EXCEPT !.phase = "failed"]
             fields == [e EXCEPT !.phase = "fields", !.kill = tasks[e.subject].kill_on_timeout]
  <2>1. /\ e.phase = "opening" /\ e.subject \in Tasks
        /\ editor' = [editor EXCEPT ![u] = IF tasks[e.subject] = None THEN failed ELSE fields]
        /\ UNCHANGED <<storeVars, seen, entered>>
    BY <1>1, <1>5 DEF LoadTask, Loads
  <2>2. failed \in Editor /\ Loads(failed)
    BY <1>1, EditorFails
  <2>3. tasks[e.subject] # None => tasks[e.subject].kill_on_timeout \in BOOLEAN
    BY <2>1 DEF StoreTyped, Option, Row
  <2>4. tasks[e.subject] # None => fields \in Editor /\ Loads(fields)
    <3> DEFINE k == tasks[e.subject].kill_on_timeout
    <3>1. SUFFICES ASSUME k \in BOOLEAN
                   PROVE  /\ [e EXCEPT !.phase = "fields", !.kill = k] \in Editor
                          /\ Loads([e EXCEPT !.phase = "fields", !.kill = k])
      BY <2>3
    <3> HIDE DEF k
    <3> QED
      BY <1>1, <2>1, <3>1, EditorGetsFields
  <2> HIDE DEF failed, fields
  <2>5. CASE tasks[e.subject] = None
    BY <2>1, <2>2, <2>5, EditorStepTyped
  <2>6. CASE tasks[e.subject] # None
    BY <2>1, <2>4, <2>6, EditorStepTyped
  <2> QED
    BY <2>5, <2>6
<1>6. CASE LoadWindows(u)
  <2> DEFINE stored == time_windows[e.subject]
             list == e.list \o Triggered(stored)
             base == IF e.list = <<>> THEN stored ELSE None
             new  == [e EXCEPT !.phase = "loaded", !.list = list, !.base = base]
  <2>1. /\ e.subject \in Tasks
        /\ editor' = [editor EXCEPT ![u] = new]
        /\ UNCHANGED <<storeVars, seen, entered>>
    <3>1. e.phase = "fields" /\ UNCHANGED <<storeVars, seen, entered>>
      BY <1>6 DEF LoadWindows
    <3>2. editor' = [editor EXCEPT ![u] = new]
      BY <1>6 DEF LoadWindows
    <3> QED
      BY <1>1, <3>1, <3>2 DEF Loads
  <2>2. stored \in Seq(Window) /\ base \in Seq(Window) \cup {None}
    BY <2>1 DEF StoreTyped
  <2>3. Triggered(stored) \in Seq(EditKinds)
    BY <2>2, TriggeredTyped, SeqMonotonic, EditorAssumption DEF EditKinds
  <2>4. e.list \in Seq(EditKinds)
    BY <1>1 DEF Editor
  <2>5. list \in Seq(EditKinds)
    BY <2>3, <2>4, ConcatProperties
  <2> HIDE DEF list, base
  <2>6. new \in Editor /\ Loads(new)
    BY <1>1, <2>2, <2>5, EditorGetsWindows
  <2> HIDE DEF new
  <2> QED
    BY <2>1, <2>6, EditorStepTyped
<1>7. CASE Cancel(u)
  BY <1>2, <1>7, EditorStepTyped DEF Cancel
<1>8. ASSUME NEW t \in Tasks, OpenEditor(u, t) PROVE FrontTyped' /\ UNCHANGED storeVars
  <2> DEFINE new == [Dismissed(e) EXCEPT !.phase = "opening", !.subject = t,
                                         !.enabled = seen[u][t]]
  <2>1. seen[u][t] \in BOOLEAN
    <3>1. seen[u] \in [Tasks -> Option(BOOLEAN)]
      BY DEF FrontTyped
    <3>2. seen[u][t] # None /\ seen[u][t] \in Option(BOOLEAN)
      BY <1>8, <3>1 DEF OpenEditor
    <3> QED
      BY <3>2 DEF Option
  <2>2. new \in Editor /\ Loads(new)
    BY <1>2, <2>1, EditorOpens
  <2>3. editor' = [editor EXCEPT ![u] = new] /\ UNCHANGED <<storeVars, seen, entered>>
    BY <1>8 DEF OpenEditor
  <2> HIDE DEF new
  <2> QED
    BY <2>2, <2>3, EditorStepTyped
<1>9. ASSUME NEW r \in Requests, Answered(u, r) PROVE FrontTyped' /\ UNCHANGED storeVars
  <2> DEFINE rest == e.asked \ {r}
             new  == [e EXCEPT !.asked = rest]
  <2>1. editor' = [editor EXCEPT ![u] = IF answer[r] = "ok" THEN Dismissed(new) ELSE new]
    BY <1>9 DEF Answered
  <2>2. UNCHANGED <<storeVars, seen, entered>>
    BY <1>9 DEF Answered
  <2>3. rest \in SUBSET Requests
    BY <1>1 DEF Editor
  <2> HIDE DEF rest
  <2>4. new \in Editor /\ Loads(new)
    BY <1>1, <2>3, EditorWaits
  <2> HIDE DEF new
  <2>5. CASE answer[r] = "ok"
    BY <2>1, <2>2, <2>4, <2>5, EditorIsDismissed, EditorStepTyped
  <2>6. CASE answer[r] # "ok"
    BY <2>1, <2>2, <2>4, <2>6, EditorStepTyped
  <2> QED
    BY <2>5, <2>6
<1>10. ASSUME NEW r \in Requests, StrayAnswered(u, r)
       PROVE  FrontTyped' /\ UNCHANGED storeVars
  <2>1. UNCHANGED <<storeVars, entered>>
    BY <1>10 DEF StrayAnswered
  <2>2. CASE /\ editor' = [editor EXCEPT ![u] = Closed]
             /\ seen' = [seen EXCEPT ![u] = [t \in Tasks |-> None]]
    <3>1. /\ editor' \in [UIs -> Editor]
          /\ \A v \in UIs : editor'[v] = Closed \/ editor'[v] = editor[v]
      BY <2>2, ClosedTyped DEF FrontTyped
    <3>2. \A v \in UIs : editor'[v].phase \in {"opening", "fields"} => editor'[v].subject \in Tasks
      BY <3>1 DEF FrontTyped, Closed
    <3>3. seen' \in [UIs -> [Tasks -> Option(BOOLEAN)]]
      BY <2>2 DEF FrontTyped, Option
    <3> QED
      BY <2>1, <3>1, <3>2, <3>3 DEF FrontTyped
  <2>3. CASE editor' = [editor EXCEPT ![u].stray = @ \ {r}] /\ UNCHANGED seen
    <3> DEFINE rest == e.stray \ {r}
               new  == [e EXCEPT !.stray = rest]
    <3>1. editor' = [editor EXCEPT ![u] = new]
      BY <2>3
    <3>2. rest \in SUBSET Requests
      BY <1>1 DEF Editor
    <3> HIDE DEF rest
    <3>3. new \in Editor /\ Loads(new)
      BY <1>1, <3>2, EditorForgets
    <3> HIDE DEF new
    <3> QED
      BY <2>1, <2>3, <3>1, <3>3, EditorStepTyped
  <2> QED
    BY <1>10, <2>2, <2>3 DEF StrayAnswered
<1> QED
  BY <1>3, <1>4, <1>5, <1>6, <1>7, <1>8, <1>9, <1>10

(* A request that is sent, with what its editor showed.                    *)
LEMMA RequestTyped ==
    ASSUME NEW action \in Saves \cup {"DeleteTask", "EnableTask", "DisableTask"},
           NEW t \in Tasks, NEW enabled \in BOOLEAN, NEW kill \in BOOLEAN,
           NEW plan \in Seq(Triggers)
    PROVE  [action |-> action, task |-> t, plan |-> plan,
            row |-> [enabled |-> enabled, kill_on_timeout |-> kill]] \in Request
BY DEF Request, Row

(* SaveBtn_Click sends a well-formed request and remembers it.             *)
LEMMA SaveTyped ==
    ASSUME StoreTyped, FrontTyped, NEW u \in UIs, Save(u)
    PROVE  StoreTyped' /\ FrontTyped'
<1> DEFINE e    == editor[u]
           plan == [i \in DOMAIN e.list |-> ToDto(e.list[i])]
<1>1. PICK r \in Requests, t \in Target(u) :
        /\ Send(r, [action |-> IF e.subject = None THEN "CreateTask" ELSE "UpdateTask",
                    task |-> t,
                    row |-> [enabled |-> e.enabled, kill_on_timeout |-> e.kill],
                    plan |-> plan])
        /\ editor' = [editor EXCEPT ![u].asked = @ \cup {r}]
        /\ entered' = [entered EXCEPT ![r] =
                          [kill |-> e.kill, list |-> e.list,
                           kept |-> IF e.base # None /\ e.base = time_windows[t]
                                    THEN Triggered(e.base) ELSE None]]
  BY DEF Save
<1>2. /\ e \in Editor /\ Loads(e)
  BY DEF FrontTyped, Loads
<1>3. /\ e.enabled \in BOOLEAN /\ e.kill \in BOOLEAN /\ e.list \in Seq(EditKinds)
      /\ e.subject \in Option(Tasks) /\ e.asked \cup {r} \in SUBSET Requests
  BY <1>2 DEF Editor
<1>4. t \in Tasks
  BY <1>1, <1>3 DEF Target, Option
<1>5. plan \in Seq(Triggers)
  BY <1>3, PlanTyped
<1>6. StoreTyped'
  <2> DEFINE action == IF e.subject = None THEN "CreateTask" ELSE "UpdateTask"
  <2>1. action \in Saves \cup {"DeleteTask", "EnableTask", "DisableTask"}
    BY DEF Saves
  <2> HIDE DEF plan, action
  <2>2. [action |-> action, task |-> t, plan |-> plan,
         row |-> [enabled |-> e.enabled, kill_on_timeout |-> e.kill]] \in Request
    BY <1>3, <1>4, <1>5, <2>1, RequestTyped
  <2>3. Send(r, [action |-> action, task |-> t, plan |-> plan,
                 row |-> [enabled |-> e.enabled, kill_on_timeout |-> e.kill]])
    BY <1>1 DEF plan, action
  <2> QED
    BY <2>2, <2>3, SendTyped
<1>7. editor' \in [UIs -> Editor]
      /\ \A v \in UIs : editor'[v].phase \in {"opening", "fields"} => editor'[v].subject \in Tasks
  <2> DEFINE asked == e.asked \cup {r}
             new   == [e EXCEPT !.asked = asked]
  <2>1. editor' = [editor EXCEPT ![u] = new]
    BY <1>1
  <2> HIDE DEF asked
  <2>2. new \in Editor /\ Loads(new)
    BY <1>2, <1>3, EditorWaits DEF asked
  <2> HIDE DEF new
  <2>3. editor' \in [UIs -> Editor]
    BY <2>1, <2>2 DEF FrontTyped
  <2>4. \A v \in UIs : editor'[v] = new \/ editor'[v] = editor[v]
    BY <2>1 DEF FrontTyped
  <2> QED
    BY <2>2, <2>3, <2>4 DEF FrontTyped, Loads
<1>8. entered' \in [Requests -> [kill : BOOLEAN, list : Seq(EditKinds),
                                 kept : Seq(Triggers) \cup {None}]]
  <2> DEFINE kept == IF e.base # None /\ e.base = time_windows[t]
                     THEN Triggered(e.base) ELSE None
  <2>1. kept \in Seq(Triggers) \cup {None}
    <3>1. e.base = time_windows[t] => e.base \in Seq(Window)
      BY <1>4 DEF StoreTyped
    <3> QED
      BY <3>1, TriggeredTyped
  <2> HIDE DEF kept
  <2>2. [kill |-> e.kill, list |-> e.list, kept |-> kept]
            \in [kill : BOOLEAN, list : Seq(EditKinds), kept : Seq(Triggers) \cup {None}]
    BY <1>3, <2>1
  <2>3. entered' = [entered EXCEPT ![r] = [kill |-> e.kill, list |-> e.list, kept |-> kept]]
    BY <1>1 DEF kept
  <2> QED
    BY <2>2, <2>3 DEF FrontTyped
<1>9. UNCHANGED seen
  BY DEF Save
<1> QED
  BY <1>6, <1>7, <1>8, <1>9 DEF FrontTyped

(* So do the requests without a payload.                                   *)
LEMMA OrderTyped ==
    ASSUME StoreTyped, FrontTyped, NEW r \in Requests, NEW t \in Tasks,
           NEW action \in {"DeleteTask", "EnableTask", "DisableTask"}, Order(r, action, t)
    PROVE  StoreTyped' /\ FrontTyped'
<1> DEFINE asked == [action |-> action, task |-> t, plan |-> <<>>,
                     row |-> [enabled |-> TRUE, kill_on_timeout |-> FALSE]]
<1>1. asked \in Request
  <2>1. <<>> \in Seq(Triggers)
    OBVIOUS
  <2> QED
    BY <2>1 DEF Request, Row
<1>2. Send(r, asked) /\ UNCHANGED <<seen, editor, entered>>
  BY DEF Order
<1> HIDE DEF asked
<1> QED
  BY <1>1, <1>2, SendTyped DEF FrontTyped

(* Adding and removing windows.                                            *)
LEMMA EditTyped ==
    ASSUME StoreTyped, FrontTyped, NEW u \in UIs, NEW list \in Seq(EditKinds), Edit(u, list)
    PROVE  FrontTyped' /\ UNCHANGED storeVars
<1> DEFINE e   == editor[u]
           new == [e EXCEPT !.list = list, !.base = None]
<1>1. editor' = [editor EXCEPT ![u] = new]
  BY DEF Edit, FrontTyped
<1>2. UNCHANGED <<storeVars, seen, entered>>
  BY DEF Edit
<1>3. e \in Editor /\ Loads(e)
  BY DEF FrontTyped, Loads
<1>4. new \in Editor /\ Loads(new)
  BY <1>3, EditorIsEdited
<1> HIDE DEF new
<1> QED
  BY <1>1, <1>2, <1>4, EditorStepTyped

(* Every step of a front end keeps all types.                              *)
LEMMA UIStepTyped ==
    ASSUME StoreTyped, FrontTyped, NEW u \in UIs, UIStep(u)
    PROVE  StoreTyped' /\ FrontTyped'
<1> DEFINE e == editor[u]
<1>1. e \in Editor /\ Loads(e) /\ e.list \in Seq(EditKinds)
  BY DEF FrontTyped, Loads, Editor
<1>2. UNCHANGED storeVars => StoreTyped'
  BY DEF storeVars, store, threads, history, StoreTyped
<1>3. CASE LoadFails(u)
  <2> DEFINE new == [e EXCEPT !.phase = "failed"]
  <2>1. editor' = [editor EXCEPT ![u] = new]
    BY <1>3 DEF LoadFails
  <2>2. new \in Editor /\ Loads(new)
    BY <1>1, EditorFails
  <2> HIDE DEF new
  <2>3. /\ faults' = faults + 1 /\ faults < MaxFaults
        /\ UNCHANGED <<store, threads, history, seen, entered>>
    BY <1>3 DEF LoadFails
  <2>4. StoreTyped'
    BY <2>3, StoreAssumption DEF StoreTyped, store, threads, history
  <2> QED
    BY <2>1, <2>2, <2>3, <2>4, EditorStepTyped
<1>4. ASSUME NEW t \in Tasks, DeleteSelected(u, t) PROVE StoreTyped' /\ FrontTyped'
  BY <1>4, OrderTyped DEF DeleteSelected
<1>5. ASSUME NEW kind \in Chosen, AddTrigger(u, kind) PROVE StoreTyped' /\ FrontTyped'
  <2>1. Append(e.list, kind) \in Seq(EditKinds)
    BY <1>1, EditorAssumption
  <2> QED
    BY <1>2, <1>5, <2>1, EditTyped DEF AddTrigger
<1>6. ASSUME NEW i \in DOMAIN e.list, RemoveTrigger(u, i) PROVE StoreTyped' /\ FrontTyped'
  <2>1. RemoveAt(e.list, i) \in Seq(EditKinds)
    BY <1>1, RemoveAtTyped
  <2> QED
    BY <1>2, <1>6, <2>1, EditTyped DEF RemoveTrigger
<1>7. ASSUME NEW i \in DOMAIN e.list, NEW kind \in Chosen, ReplaceTrigger(u, i, kind)
      PROVE  StoreTyped' /\ FrontTyped'
  <2>1. kind \in EditKinds
    BY EditorAssumption
  <2>2. [e.list EXCEPT ![i] = kind] \in Seq(EditKinds)
    BY <1>1, <2>1
  <2> QED
    BY <1>2, <1>7, <2>2, EditTyped DEF ReplaceTrigger
<1> QED
  BY <1>2, <1>3, <1>4, <1>5, <1>6, <1>7, SaveTyped, WindowStepTyped DEF UIStep

(* And so does every step.                                                 *)
LEMMA TypedStep == Typed /\ [Next]_vars => Typed'
<1> SUFFICES ASSUME StoreTyped, FrontTyped, [Next]_vars PROVE StoreTyped' /\ FrontTyped'
  BY DEF Typed
<1>1. CASE StoreStep /\ UNCHANGED <<seen, editor, entered>>
  BY <1>1, StoreStepTyped DEF FrontTyped
<1>2. ASSUME NEW t \in Tasks, ToggleFromElsewhere(t) PROVE StoreTyped' /\ FrontTyped'
  BY <1>2, OrderTyped DEF ToggleFromElsewhere
<1>3. CASE UNCHANGED vars
  BY <1>3 DEF vars, storeVars, store, threads, history, StoreTyped, FrontTyped
<1> QED
  BY <1>1, <1>2, <1>3, UIStepTyped DEF Next

(* The types hold in every state.                                          *)
LEMMA AlwaysTyped == Spec => []Typed
BY TypedInit, TypedStep, PTL DEF Spec

(* Type correctness.                                                       *)
THEOREM EditorTyped == Spec => []TypeOK
<1>1. Typed => TypeOK
  BY DEF Typed, StoreTyped, FrontTyped, TypeOK
<1> QED
  BY <1>1, AlwaysTyped, PTL
-----------------------------------------------------------------------------
(* What a statement of r leaves alone: the other threads and the rows and  *)
(* windows of all tasks but its own.  Only the insertion of a row makes a  *)
(* task exist.                                                             *)
LEMMA StatementFrame ==
    ASSUME StoreTyped, NEW r \in Requests, Statement(r)
    PROVE  /\ UNCHANGED <<used, sent, request, lone, faults>>
           /\ Active(r) /\ pc'[r] \in {"clear", "insert", "done"}
           /\ \A q \in Requests \ {r} :
                 pc'[q] = pc[q] /\ todo'[q] = todo[q] /\ answer'[q] = answer[q]
           /\ \A t \in Tasks \ {request[r].task} :
                 tasks'[t] = tasks[t] /\ time_windows'[t] = time_windows[t]
           /\ request[r].task \in Tasks
           /\ \/ pc[r] = "row" /\ request[r].action = "CreateTask"
              \/ tasks[request[r].task] = None => tasks'[request[r].task] = None
<1> DEFINE t == request[r].task
<1>1. request[r] \in Request /\ t \in Tasks
  <2>1. request[r] \in Request
    BY DEF Statement, InsertTask, UpdateTask, DeleteTimeWindows, InsertTimeWindow, Finish,
       DeleteTask, ToggleTask, StoreTyped
  <2> QED
    BY <2>1 DEF Request
<1>2. CASE InsertTask(r)
  BY <1>1, <1>2 DEF InsertTask, StoreTyped, Active
<1>3. CASE UpdateTask(r)
  BY <1>1, <1>3 DEF UpdateTask, StoreTyped, Active, history
<1>4. CASE DeleteTimeWindows(r)
  BY <1>1, <1>4 DEF DeleteTimeWindows, StoreTyped, Active
<1>5. CASE InsertTimeWindow(r)
  <2>1. CASE HasParent(t)
    BY <1>1, <1>5, <2>1 DEF InsertTimeWindow, StoreTyped, Active, history
  <2>2. CASE ~HasParent(t)
    <3>1. Respond(r, "error") /\ UNCHANGED <<tasks, time_windows>>
      BY <1>5, <2>2 DEF InsertTimeWindow
    <3> QED
      BY <1>1, <1>5, <3>1 DEF InsertTimeWindow, Respond, StoreTyped, Active, history
  <2> QED
    BY <2>1, <2>2
<1>6. CASE Finish(r)
  BY <1>1, <1>6 DEF Finish, Respond, StoreTyped, Active, store, history
<1>7. CASE DeleteTask(r)
  BY <1>1, <1>7 DEF DeleteTask, Respond, StoreTyped, Active, history
<1>8. CASE ToggleTask(r)
  <2>1. PICK row : tasks' = [tasks EXCEPT ![t] = IF tasks[t] = None THEN None ELSE row]
    BY <1>8 DEF ToggleTask
  <2>2. pc[r] = "row" /\ Respond(r, "ok")
        /\ UNCHANGED <<used, time_windows, sent, request, faults, history>>
    BY <1>8 DEF ToggleTask
  <2> QED
    BY <1>1, <2>1, <2>2 DEF Respond, StoreTyped, Active, history
<1> QED
  BY <1>2, <1>3, <1>4, <1>5, <1>6, <1>7, <1>8 DEF Statement

(* A task whose row is gone has no windows left, whichever statement runs. *)
LEMMA StatementOwns ==
    ASSUME StoreTyped, WindowsBelongToTasks, NEW r \in Requests, Statement(r)
    PROVE  WindowsBelongToTasks'
<1> DEFINE t == request[r].task
<1>1. request[r] \in Request /\ t \in Tasks /\ request[r].row \in Row
  <2>1. request[r] \in Request
    BY DEF Statement, InsertTask, UpdateTask, DeleteTimeWindows, InsertTimeWindow, Finish,
       DeleteTask, ToggleTask, StoreTyped
  <2> QED
    BY <2>1 DEF Request
<1>2. FromJson(request[r].row) # None
  BY <1>1, RowsTyped
<1>3. SUFFICES tasks'[t] = None => time_windows'[t] = <<>>
  BY StatementFrame DEF WindowsBelongToTasks
<1>4. CASE InsertTask(r)
  BY <1>1, <1>2, <1>4 DEF InsertTask, StoreTyped
<1>5. CASE UpdateTask(r)
  BY <1>1, <1>2, <1>5 DEF UpdateTask, StoreTyped, WindowsBelongToTasks
<1>6. CASE DeleteTimeWindows(r)
  BY <1>1, <1>6 DEF DeleteTimeWindows, Cleared, StoreTyped
<1>7. CASE InsertTimeWindow(r)
  BY <1>1, <1>7 DEF InsertTimeWindow, HasParent, WindowsBelongToTasks
<1>8. CASE Finish(r)
  BY <1>1, <1>8 DEF Finish, store, WindowsBelongToTasks
<1>9. CASE DeleteTask(r)
  BY <1>1, <1>9 DEF DeleteTask, StoreTyped
<1>10. CASE ToggleTask(r)
  <2>1. tasks[t] # None =>
            [tasks[t] EXCEPT !.enabled = (request[r].action = "EnableTask")] \in Row
    BY <1>1, RowsTyped DEF StoreTyped, Option
  <2>2. None \notin Row
    BY StoreAssumption DEF Row
  <2>3. PICK row : /\ tasks' = [tasks EXCEPT ![t] = IF tasks[t] = None THEN None ELSE row]
                   /\ tasks[t] # None => row \in Row
    BY <1>10, <2>1 DEF ToggleTask
  <2>4. tasks[t] # None => tasks'[t] # None
    BY <1>1, <2>2, <2>3 DEF StoreTyped
  <2> QED
    BY <1>1, <1>10, <2>4 DEF ToggleTask, WindowsBelongToTasks
<1> QED
  BY <1>4, <1>5, <1>6, <1>7, <1>8, <1>9, <1>10 DEF Statement

(* Every other step leaves rows and windows alone.                         *)
LEMMA OnlyStatementsWrite ==
    ASSUME [Next]_vars, ~ \E r \in Requests : Statement(r)
    PROVE  UNCHANGED <<tasks, time_windows>>
<1>1. CASE StoreStep
  <2>1. ASSUME NEW r \in Requests, StatementFails(r) PROVE UNCHANGED <<tasks, time_windows>>
    BY <2>1 DEF StatementFails, store
  <2>2. CASE ServiceEnds
    BY <2>2 DEF ServiceEnds, store
  <2> QED
    BY <1>1, <2>1, <2>2 DEF StoreStep
<1>2. ASSUME NEW u \in UIs, UIStep(u) PROVE UNCHANGED <<tasks, time_windows>>
  BY <1>2 DEF UIStep, Refresh, OpenNew, LoadTask, LoadWindows, LoadFails, OpenEditor,
     DeleteSelected, Order, AddTrigger, RemoveTrigger, ReplaceTrigger, Edit, Save, Send, Cancel, Answered,
     StrayAnswered, storeVars, store
<1>3. ASSUME NEW t \in Tasks, ToggleFromElsewhere(t) PROVE UNCHANGED <<tasks, time_windows>>
  BY <1>3 DEF ToggleFromElsewhere, Order, Send
<1>4. CASE UNCHANGED vars
  BY <1>4 DEF vars, storeVars, store
<1> QED
  BY <1>1, <1>2, <1>3, <1>4 DEF Next

(* Initially only the tasks that exist have windows.                       *)
LEMMA OwnedInit == Init => WindowsBelongToTasks
<1> SUFFICES ASSUME Init, NEW t \in Tasks, tasks[t] = None PROVE time_windows[t] = <<>>
  BY DEF WindowsBelongToTasks
<1>1. [enabled |-> TRUE, kill_on_timeout |-> FALSE] # None
  <2>1. [enabled |-> TRUE, kill_on_timeout |-> FALSE]
            \in [enabled : BOOLEAN, kill_on_timeout : BOOLEAN]
    OBVIOUS
  <2> QED
    BY <2>1, StoreAssumption
<1>2. t \notin Existing
  BY <1>1 DEF Init, StoreInit
<1> QED
  BY <1>2 DEF Init, StoreInit

(* No window outlives its task (ON DELETE CASCADE, and the foreign key     *)
(* that insert_time_window meets), whatever saves are under way.           *)
THEOREM NoOrphanedWindows == Spec => []WindowsBelongToTasks
<1>1. Init => WindowsBelongToTasks
  BY OwnedInit
<1>2. WindowsBelongToTasks /\ Typed /\ [Next]_vars => WindowsBelongToTasks'
  BY StatementOwns, OnlyStatementsWrite DEF Typed, WindowsBelongToTasks
<1> QED
  BY <1>1, <1>2, AlwaysTyped, PTL DEF Spec
-----------------------------------------------------------------------------
(***************************************************************************)
(* A save that nobody overlaps is whole.  The invariant says what such a   *)
(* save has written so far: before its first statement a new task has no   *)
(* row, after it the row is the request's, and from the moment the windows *)
(* are cleared those that are stored, followed by those it has still to    *)
(* insert, are the request's.                                              *)
(***************************************************************************)
Sent(r) == pc[r] # "unsent"

TaskOf(r) == request[r].task

FreshIds ==
    /\ \A t \in Tasks \ used : tasks[t] = None
    /\ \A r \in Requests : Sent(r) => TaskOf(r) \in used
    /\ \A r \in Requests :
          pc[r] = "row" /\ request[r].action = "CreateTask" => tasks[TaskOf(r)] = None
    /\ \A r, q \in Requests :
          /\ Sent(r) /\ request[r].action = "CreateTask"
          /\ Sent(q) /\ request[q].action = "CreateTask"
          /\ TaskOf(r) = TaskOf(q)
          => r = q

LoneRequests ==
    /\ \A r \in lone : Sent(r)
    /\ \A r \in lone, q \in Requests :
          Active(r) /\ Active(q) /\ TaskOf(r) = TaskOf(q) => q = r

RowWritten(r) ==
    pc[r] \in {"clear", "insert"} /\ tasks[TaskOf(r)] # None =>
        tasks[TaskOf(r)] = FromJson(request[r].row)

WindowsWritten(r) ==
    pc[r] = "insert" /\ tasks[TaskOf(r)] # None =>
        Triggered(time_windows[TaskOf(r)]) \o todo[r] = request[r].plan

SaveSound ==
    /\ WindowsBelongToTasks
    /\ FreshIds
    /\ LoneRequests
    /\ \A r \in lone : RowWritten(r) /\ WindowsWritten(r)

(* A statement writes the row of a new task once, when it has none.        *)
LEMMA FreshStatement ==
    ASSUME StoreTyped, FreshIds, NEW r \in Requests, Statement(r)
    PROVE  FreshIds'
<1> DEFINE t == TaskOf(r)
<1>1. /\ UNCHANGED <<used, request>>
      /\ Active(r) /\ pc'[r] \in {"clear", "insert", "done"}
      /\ \A q \in Requests \ {r} : pc'[q] = pc[q]
      /\ \A s \in Tasks \ {t} : tasks'[s] = tasks[s]
      /\ t \in Tasks
      /\ \/ pc[r] = "row" /\ request[r].action = "CreateTask"
         \/ tasks[t] = None => tasks'[t] = None
  BY StatementFrame DEF TaskOf
<1>2. Sent(r) /\ t \in used
  BY <1>1 DEF Active, Sent, FreshIds
<1>3. \A s \in Tasks \ used' : tasks'[s] = None
  BY <1>1, <1>2 DEF FreshIds
<1>4. \A q \in Requests : Sent(q)' <=> Sent(q)
  BY <1>1, <1>2 DEF Sent
<1>5. \A q \in Requests : TaskOf(q)' = TaskOf(q)
  BY <1>1 DEF TaskOf
<1>6. ASSUME NEW q \in Requests, pc'[q] = "row", request'[q].action = "CreateTask"
      PROVE  tasks'[TaskOf(q)'] = None
  <2>1. q # r /\ pc[q] = "row" /\ request[q].action = "CreateTask" /\ tasks[TaskOf(q)] = None
    BY <1>1, <1>6 DEF FreshIds
  <2>2. TaskOf(q) \in Tasks
    <3>1. request[q] \in Request
      BY <2>1 DEF StoreTyped
    <3> QED
      BY <3>1 DEF Request, TaskOf
  <2>3. CASE TaskOf(q) = t
    <3>1. ~(pc[r] = "row" /\ request[r].action = "CreateTask")
      BY <1>2, <2>1, <2>3 DEF FreshIds, Sent
    <3> QED
      BY <1>1, <1>5, <2>1, <2>3, <3>1
  <2>4. CASE TaskOf(q) # t
    BY <1>1, <1>5, <2>1, <2>2, <2>4
  <2> QED
    BY <2>3, <2>4
<1>7. \A p, q \in Requests :
          /\ Sent(p)' /\ request'[p].action = "CreateTask"
          /\ Sent(q)' /\ request'[q].action = "CreateTask"
          /\ TaskOf(p)' = TaskOf(q)'
          => p = q
  BY <1>1, <1>4, <1>5 DEF FreshIds
<1>8. \A q \in Requests : Sent(q)' => TaskOf(q)' \in used'
  BY <1>1, <1>4, <1>5 DEF FreshIds
<1> QED
  BY <1>3, <1>6, <1>7, <1>8 DEF FreshIds

(* A statement starts nothing that could overlap a lone save.              *)
LEMMA LoneStatement ==
    ASSUME StoreTyped, LoneRequests, NEW r \in Requests, Statement(r)
    PROVE  LoneRequests'
<1>1. /\ UNCHANGED <<request, lone>>
      /\ Active(r) /\ pc'[r] \in {"clear", "insert", "done"}
      /\ \A q \in Requests \ {r} : pc'[q] = pc[q]
  BY StatementFrame
<1>2. lone \subseteq Requests
  BY DEF StoreTyped
<1>3. \A q \in Requests : Active(q)' => Active(q)
  BY <1>1 DEF Active
<1>4. \A q \in Requests : Sent(q) => Sent(q)'
  BY <1>1 DEF Sent
<1>5. \A q \in Requests : TaskOf(q)' = TaskOf(q)
  BY <1>1 DEF TaskOf
<1> QED
  BY <1>1, <1>2, <1>3, <1>4, <1>5 DEF LoneRequests

(* What a lone save has written after its own next statement.              *)
LEMMA OwnStatement ==
    ASSUME StoreTyped, SaveSound, NEW r \in lone, Statement(r)
    PROVE  RowWritten(r)' /\ WindowsWritten(r)'
<1> DEFINE t == TaskOf(r)
<1>1. r \in Requests
  BY DEF StoreTyped
<1>2. /\ request[r] \in Request /\ request[r].plan \in Seq(Triggers)
      /\ t \in Tasks /\ TaskOf(r)' = t /\ request'[r] = request[r]
  <2>1. request[r] \in Request
    BY <1>1 DEF Statement, InsertTask, UpdateTask, DeleteTimeWindows, InsertTimeWindow, Finish,
       DeleteTask, ToggleTask, StoreTyped
  <2>2. request' = request
    BY <1>1, StatementFrame
  <2> QED
    BY <2>1, <2>2 DEF Request, TaskOf
<1>3. /\ RowWritten(r) /\ WindowsWritten(r) /\ FreshIds /\ WindowsBelongToTasks
  BY DEF SaveSound
<1>4. \A s \in Seq(Triggers) : <<>> \o s = s
  OBVIOUS
<1>5. Triggered(<<>>) = <<>>
  BY DEF Triggered
<1>6. CASE InsertTask(r)
  <2>1. /\ tasks' = [tasks EXCEPT ![t] = FromJson(request[r].row)]
        /\ pc' = [pc EXCEPT ![r] = "insert"]
        /\ todo' = [todo EXCEPT ![r] = request[r].plan]
        /\ time_windows' = time_windows
        /\ pc[r] = "row" /\ request[r].action = "CreateTask"
    BY <1>6 DEF InsertTask, TaskOf
  <2>2. time_windows[t] = <<>>
    BY <1>1, <1>2, <1>3, <2>1 DEF FreshIds, WindowsBelongToTasks
  <2>3. /\ tasks'[t] = FromJson(request[r].row)
        /\ Triggered(time_windows'[t]) = <<>> /\ todo'[r] = request[r].plan
    BY <1>1, <1>2, <1>5, <2>1, <2>2 DEF StoreTyped
  <2> QED
    BY <1>2, <1>4, <2>3 DEF RowWritten, WindowsWritten
<1>7. CASE UpdateTask(r)
  <2>1. /\ tasks' = [tasks EXCEPT ![t] = IF @ = None THEN None ELSE FromJson(request[r].row)]
        /\ pc' = [pc EXCEPT ![r] = "clear"]
    BY <1>7 DEF UpdateTask, TaskOf
  <2>2. /\ pc'[r] = "clear"
        /\ tasks'[t] = None \/ tasks'[t] = FromJson(request[r].row)
    BY <1>1, <1>2, <2>1 DEF StoreTyped
  <2> QED
    BY <1>2, <2>2 DEF RowWritten, WindowsWritten
<1>8. CASE DeleteTimeWindows(r)
  <2>1. /\ time_windows' = [time_windows EXCEPT ![t] = <<>>]
        /\ pc' = [pc EXCEPT ![r] = "insert"]
        /\ todo' = [todo EXCEPT ![r] = request[r].plan]
        /\ tasks' = tasks /\ pc[r] = "clear"
    BY <1>2, <1>8 DEF DeleteTimeWindows, Cleared, TaskOf
  <2>2. Triggered(time_windows'[t]) = <<>> /\ todo'[r] = request[r].plan
    BY <1>1, <1>2, <1>5, <2>1 DEF StoreTyped
  <2> QED
    BY <1>2, <1>3, <1>4, <2>1, <2>2 DEF RowWritten, WindowsWritten
<1>9. CASE InsertTimeWindow(r)
  <2>1. CASE HasParent(t)
    <3> DEFINE w == [trigger |-> Head(todo[r]), by |-> r]
    <3>1. /\ time_windows' = [time_windows EXCEPT ![t] = Append(@, w)]
          /\ todo' = [todo EXCEPT ![r] = Tail(@)]
          /\ UNCHANGED <<pc, tasks>>
          /\ pc[r] = "insert" /\ todo[r] # <<>>
      BY <1>9, <2>1 DEF InsertTimeWindow, TaskOf
    <3>2. /\ todo[r] \in Seq(Triggers) /\ Head(todo[r]) \in Triggers
          /\ time_windows[t] \in Seq(Window)
      BY <1>1, <1>2, <3>1, HeadTailProperties DEF StoreTyped
    <3>3. w \in Window /\ w.trigger = Head(todo[r])
      BY <1>1, <3>2 DEF Window
    <3>4. time_windows'[t] = Append(time_windows[t], w) /\ todo'[r] = Tail(todo[r])
      BY <1>1, <1>2, <3>1 DEF StoreTyped
    <3> HIDE DEF w
    <3>5. Triggered(time_windows'[t]) = Append(Triggered(time_windows[t]), Head(todo[r]))
      BY <3>2, <3>3, <3>4, AppendTriggered
    <3>6. Triggered(time_windows[t]) \in Seq(Triggers)
      BY <3>2, TriggeredTyped
    <3>7. ASSUME NEW a \in Seq(Triggers), NEW b \in Seq(Triggers), b # <<>>
          PROVE  Append(a, Head(b)) \o Tail(b) = a \o b
      BY <3>7
    <3>8. Triggered(time_windows'[t]) \o todo'[r] = Triggered(time_windows[t]) \o todo[r]
      BY <3>1, <3>2, <3>4, <3>5, <3>6, <3>7
    <3>9. /\ pc'[r] = pc[r] /\ tasks'[t] = tasks[t]
      BY <3>1
    <3> QED
      BY <1>2, <1>3, <3>8, <3>9 DEF RowWritten, WindowsWritten
  <2>2. CASE ~HasParent(t)
    <3>1. Respond(r, "error")
      BY <1>9, <2>2 DEF InsertTimeWindow, TaskOf
    <3>2. pc'[r] = "done"
      BY <1>1, <3>1 DEF Respond, StoreTyped
    <3> QED
      BY <3>2 DEF RowWritten, WindowsWritten
  <2> QED
    BY <2>1, <2>2
<1>10. CASE Finish(r) \/ DeleteTask(r) \/ ToggleTask(r)
  <2>1. Respond(r, "ok")
    BY <1>10 DEF Finish, DeleteTask, ToggleTask
  <2>2. pc'[r] = "done"
    BY <1>1, <2>1 DEF Respond, StoreTyped
  <2> QED
    BY <2>2 DEF RowWritten, WindowsWritten
<1> QED
  BY <1>6, <1>7, <1>8, <1>9, <1>10 DEF Statement

(* A statement of one thread leaves what a lone save of another has        *)
(* written.                                                                *)
LEMMA SaveStatement ==
    ASSUME StoreTyped, SaveSound, NEW r \in Requests, Statement(r)
    PROVE  SaveSound'
<1>1. WindowsBelongToTasks' /\ FreshIds' /\ LoneRequests'
  BY StatementOwns, FreshStatement, LoneStatement DEF SaveSound
<1>2. /\ UNCHANGED <<request, lone>>
      /\ Active(r)
      /\ \A q \in Requests \ {r} : pc'[q] = pc[q] /\ todo'[q] = todo[q]
      /\ \A t \in Tasks \ {TaskOf(r)} :
            tasks'[t] = tasks[t] /\ time_windows'[t] = time_windows[t]
  BY StatementFrame DEF TaskOf
<1>3. ASSUME NEW q \in lone, q # r PROVE RowWritten(q)' /\ WindowsWritten(q)'
  <2>1. q \in Requests /\ RowWritten(q) /\ WindowsWritten(q)
    BY DEF StoreTyped, SaveSound
  <2>2. CASE pc[q] \in {"clear", "insert"}
    <3>1. TaskOf(q) # TaskOf(r)
      BY <1>2, <1>3, <2>1, <2>2 DEF SaveSound, LoneRequests, Active
    <3>2. TaskOf(q) \in Tasks
      <4>1. request[q] \in Request
        BY <2>1, <2>2 DEF StoreTyped
      <4> QED
        BY <4>1 DEF Request, TaskOf
    <3>3. /\ pc'[q] = pc[q] /\ todo'[q] = todo[q] /\ request'[q] = request[q]
          /\ TaskOf(q)' = TaskOf(q)
          /\ tasks'[TaskOf(q)] = tasks[TaskOf(q)]
          /\ time_windows'[TaskOf(q)] = time_windows[TaskOf(q)]
      BY <1>2, <1>3, <2>1, <3>1, <3>2 DEF TaskOf
    <3> QED
      BY <2>1, <3>3 DEF RowWritten, WindowsWritten
  <2>3. CASE pc[q] \notin {"clear", "insert"}
    BY <1>2, <1>3, <2>1, <2>3 DEF RowWritten, WindowsWritten
  <2> QED
    BY <2>2, <2>3
<1>4. \A q \in lone' : RowWritten(q)' /\ WindowsWritten(q)'
  BY <1>2, <1>3, OwnStatement
<1> QED
  BY <1>1, <1>4 DEF SaveSound

(* Threads that end (a failed statement, the end of the service) leave the *)
(* database as it is, and so does a front end that asks nothing.           *)
LEMMA SaveEnds ==
    ASSUME StoreTyped, SaveSound, UNCHANGED <<tasks, time_windows, used, request, lone>>,
           \A q \in Requests : \/ pc'[q] = pc[q] /\ (Active(q) => todo'[q] = todo[q])
                               \/ Sent(q) /\ pc'[q] = "done"
    PROVE  SaveSound'
<1>1. lone \subseteq Requests
  BY DEF StoreTyped
<1>2. \A q \in Requests : /\ Sent(q)' <=> Sent(q)
                          /\ Active(q)' => Active(q)
                          /\ TaskOf(q)' = TaskOf(q)
                          /\ pc'[q] = "row" => pc[q] = "row"
  BY DEF Sent, Active, TaskOf
<1>3. WindowsBelongToTasks'
  BY DEF SaveSound, WindowsBelongToTasks
<1>4. FreshIds'
  BY <1>2 DEF SaveSound, FreshIds
<1>5. LoneRequests'
  BY <1>1, <1>2 DEF SaveSound, LoneRequests
<1>6. ASSUME NEW q \in lone' PROVE RowWritten(q)' /\ WindowsWritten(q)'
  BY <1>1, <1>2 DEF SaveSound, RowWritten, WindowsWritten, Active
<1> QED
  BY <1>3, <1>4, <1>5, <1>6 DEF SaveSound

(* A request is sent: of a new task, with an id that was never used.       *)
LEMMA SaveSent ==
    ASSUME StoreTyped, SaveSound, NEW r \in Requests, NEW asked \in Request, Send(r, asked),
           asked.action = "CreateTask" => asked.task \notin used
    PROVE  SaveSound'
<1>1. /\ r = sent + 1
      /\ request' = [request EXCEPT ![r] = asked]
      /\ pc' = [pc EXCEPT ![r] = "row"]
      /\ used' = used \cup {asked.task}
      /\ lone' = IF OnTask(asked.task) = {} THEN lone \cup {r} ELSE lone \ OnTask(asked.task)
      /\ UNCHANGED <<tasks, time_windows, todo>>
  BY DEF Send
<1>2. ~Sent(r) /\ ~Active(r) /\ r \notin lone /\ lone \subseteq Requests /\ asked.task \in Tasks
  <2>1. pc[r] = "unsent"
    BY <1>1 DEF StoreTyped
  <2> QED
    BY <2>1 DEF Sent, Active, SaveSound, LoneRequests, StoreTyped, Request
<1>3. /\ Sent(r)' /\ Active(r)' /\ TaskOf(r)' = asked.task /\ request'[r] = asked
      /\ pc'[r] = "row"
  BY <1>1 DEF StoreTyped, Sent, Active, TaskOf
<1>4. \A q \in Requests \ {r} :
          /\ Sent(q)' <=> Sent(q)
          /\ Active(q)' <=> Active(q)
          /\ TaskOf(q)' = TaskOf(q)
          /\ request'[q] = request[q] /\ pc'[q] = pc[q]
  BY <1>1 DEF StoreTyped, Sent, Active, TaskOf
<1>5. WindowsBelongToTasks'
  BY <1>1 DEF SaveSound, WindowsBelongToTasks
<1>6. FreshIds'
  <2>1. FreshIds
    BY DEF SaveSound
  <2>2. \A t \in Tasks \ used' : tasks'[t] = None
    BY <1>1, <2>1 DEF FreshIds
  <2>3. \A q \in Requests : Sent(q)' => TaskOf(q)' \in used'
    BY <1>1, <1>3, <1>4, <2>1 DEF FreshIds
  <2>4. \A q \in Requests :
            pc'[q] = "row" /\ request'[q].action = "CreateTask" => tasks'[TaskOf(q)'] = None
    <3>1. asked.action = "CreateTask" => tasks[asked.task] = None
      BY <1>2, <2>1 DEF FreshIds
    <3> QED
      BY <1>1, <1>3, <1>4, <2>1, <3>1 DEF FreshIds
  <2>5. \A q \in Requests \ {r} :
            Sent(q) /\ TaskOf(q) = asked.task => asked.action # "CreateTask"
    BY <2>1 DEF FreshIds
  <2>6. \A p, q \in Requests :
            /\ Sent(p)' /\ request'[p].action = "CreateTask"
            /\ Sent(q)' /\ request'[q].action = "CreateTask"
            /\ TaskOf(p)' = TaskOf(q)'
            => p = q
    <3> SUFFICES ASSUME NEW p \in Requests, NEW q \in Requests,
                        Sent(p)', request'[p].action = "CreateTask",
                        Sent(q)', request'[q].action = "CreateTask",
                        TaskOf(p)' = TaskOf(q)', p # q
                 PROVE  FALSE
      OBVIOUS
    <3>1. CASE p = r
      BY <1>3, <1>4, <2>5, <3>1
    <3>2. CASE q = r
      BY <1>3, <1>4, <2>5, <3>2
    <3>3. CASE p # r /\ q # r
      BY <1>4, <2>1, <3>3 DEF FreshIds
    <3> QED
      BY <3>1, <3>2, <3>3
  <2> QED
    BY <2>2, <2>3, <2>4, <2>6 DEF FreshIds
<1>7. LoneRequests'
  <2>1. LoneRequests
    BY DEF SaveSound
  <2>2. \A p \in lone' : p \in Requests /\ Sent(p)'
    BY <1>1, <1>2, <1>3, <1>4, <2>1 DEF LoneRequests
  <2>3. ASSUME NEW p \in lone', NEW q \in Requests, Active(p)', Active(q)', TaskOf(p)' = TaskOf(q)'
        PROVE  q = p
    <3>1. CASE p = r
      <4>1. OnTask(asked.task) = {}
        BY <1>1, <1>2, <2>3, <3>1
      <4> QED
        BY <1>3, <1>4, <2>3, <3>1, <4>1 DEF OnTask, TaskOf
    <3>2. CASE p # r /\ q = r
      <4>1. p \in lone /\ Active(p) /\ TaskOf(p) = asked.task /\ p \in Requests
        BY <1>1, <1>3, <1>4, <2>2, <2>3, <3>2
      <4>2. p \in OnTask(asked.task)
        BY <4>1 DEF OnTask, TaskOf
      <4> QED
        BY <1>1, <4>2
    <3>3. CASE p # r /\ q # r
      <4>1. p \in lone /\ p \in Requests
        BY <1>1, <2>2, <2>3, <3>3
      <4> QED
        BY <1>4, <2>1, <2>3, <3>3, <4>1 DEF LoneRequests
    <3> QED
      BY <3>1, <3>2, <3>3
  <2> QED
    BY <2>2, <2>3 DEF LoneRequests
<1>8. ASSUME NEW q \in lone' PROVE RowWritten(q)' /\ WindowsWritten(q)'
  <2>1. CASE q = r
    BY <1>3, <2>1 DEF RowWritten, WindowsWritten
  <2>2. CASE q # r
    <3>1. q \in lone /\ q \in Requests /\ RowWritten(q) /\ WindowsWritten(q)
      BY <1>1, <1>2, <1>8, <2>2 DEF SaveSound
    <3> QED
      BY <1>1, <1>4, <2>2, <3>1 DEF RowWritten, WindowsWritten
  <2> QED
    BY <2>1, <2>2
<1> QED
  BY <1>5, <1>6, <1>7, <1>8 DEF SaveSound

(* Deletions and toggles create no task.                                   *)
LEMMA OrderSends ==
    ASSUME NEW r \in Requests, NEW t \in Tasks,
           NEW action \in {"DeleteTask", "EnableTask", "DisableTask"}, Order(r, action, t)
    PROVE  \E asked \in Request :
              Send(r, asked) /\ (asked.action = "CreateTask" => asked.task \notin used)
<1> DEFINE asked == [action |-> action, task |-> t, plan |-> <<>>,
                     row |-> [enabled |-> TRUE, kill_on_timeout |-> FALSE]]
<1>1. <<>> \in Seq(Triggers)
  OBVIOUS
<1>2. asked \in Request
  BY <1>1 DEF Request, Row
<1>3. Send(r, asked) /\ asked.action # "CreateTask"
  BY DEF Order
<1> HIDE DEF asked
<1> QED
  BY <1>2, <1>3

(* Of the front ends' steps only Save, DeleteSelected and                  *)
(* ToggleFromElsewhere send anything.                                      *)
LEMMA FrontSends ==
    ASSUME StoreTyped, FrontTyped, NEW u \in UIs, UIStep(u)
    PROVE  \/ UNCHANGED <<tasks, time_windows, used, request, history, pc, todo, answer>>
           \/ \E r \in Requests, asked \in Request :
                 /\ Send(r, asked)
                 /\ asked.action = "CreateTask" => asked.task \notin used
<1> DEFINE Quiet == UNCHANGED <<tasks, time_windows, used, request, history, pc, todo, answer>>
<1>1. CASE Save(u)
  <2> DEFINE e      == editor[u]
             plan   == [i \in DOMAIN e.list |-> ToDto(e.list[i])]
             action == IF e.subject = None THEN "CreateTask" ELSE "UpdateTask"
  <2>1. PICK r \in Requests, t \in Target(u) :
          Send(r, [action |-> action, task |-> t,
                   row |-> [enabled |-> e.enabled, kill_on_timeout |-> e.kill],
                   plan |-> plan])
    BY <1>1 DEF Save
  <2>2. /\ e.enabled \in BOOLEAN /\ e.kill \in BOOLEAN /\ e.list \in Seq(EditKinds)
        /\ e.subject \in Option(Tasks)
    BY DEF FrontTyped, Editor
  <2>3. t \in Tasks /\ (action = "CreateTask" => t \notin used)
    BY <2>2 DEF Target, Option
  <2>4. plan \in Seq(Triggers)
    BY <2>2, PlanTyped
  <2>5. action \in Saves \cup {"DeleteTask", "EnableTask", "DisableTask"}
    BY DEF Saves
  <2> HIDE DEF plan, action
  <2> DEFINE asked == [action |-> action, task |-> t, plan |-> plan,
                       row |-> [enabled |-> e.enabled, kill_on_timeout |-> e.kill]]
  <2>6. asked \in Request
    BY <2>2, <2>3, <2>4, <2>5, RequestTyped
  <2>7. Send(r, asked) /\ asked.action = action /\ asked.task = t
    BY <2>1
  <2> HIDE DEF asked
  <2> QED
    BY <2>3, <2>6, <2>7
<1>2. ASSUME NEW t \in Tasks, DeleteSelected(u, t)
      PROVE  \E r \in Requests, asked \in Request :
                Send(r, asked) /\ (asked.action = "CreateTask" => asked.task \notin used)
  <2>1. PICK r \in Requests : Order(r, "DeleteTask", t)
    BY <1>2 DEF DeleteSelected
  <2> QED
    BY <2>1, OrderSends
<1>3. CASE LoadFails(u)
  BY <1>3 DEF LoadFails, store, threads, history
<1>4. ASSUME NEW kind \in Chosen, AddTrigger(u, kind) PROVE Quiet
  BY <1>4 DEF AddTrigger, Edit, storeVars, store, threads, history
<1>5. ASSUME NEW i \in DOMAIN editor[u].list, RemoveTrigger(u, i) PROVE Quiet
  BY <1>5 DEF RemoveTrigger, Edit, storeVars, store, threads, history
<1>6. ASSUME NEW i \in DOMAIN editor[u].list, NEW kind \in Chosen, ReplaceTrigger(u, i, kind)
      PROVE  Quiet
  BY <1>6 DEF ReplaceTrigger, Edit, storeVars, store, threads, history
<1>7. UNCHANGED storeVars => Quiet
  BY DEF storeVars, store, threads, history
<1> QED
  BY <1>1, <1>2, <1>3, <1>4, <1>5, <1>6, <1>7, WindowStepTyped DEF UIStep

(* Initially no request was sent.                                          *)
LEMMA SaveInit == Init => SaveSound
<1> SUFFICES ASSUME Init PROVE SaveSound
  OBVIOUS
<1>1. WindowsBelongToTasks
  BY OwnedInit
<1>2. \A r \in Requests : pc[r] = "unsent"
  BY DEF Init, StoreInit
<1>3. \A t \in Tasks \ used : tasks[t] = None
  BY DEF Init, StoreInit
<1>4. lone = {}
  BY DEF Init, StoreInit
<1> QED
  BY <1>1, <1>2, <1>3, <1>4 DEF SaveSound, FreshIds, LoneRequests, Sent

(* What one step may do to a save, and to its answer.                      *)
LEMMA SaveStep ==
    ASSUME Typed, SaveSound, [Next]_vars
    PROVE  /\ SaveSound'
           /\ \/ \E r \in Requests : Statement(r)
              \/ \A q \in Requests : answer'[q] = "ok" => answer[q] = "ok"
<1> USE DEF Typed
<1>1. ASSUME NEW r \in Requests, Statement(r) PROVE SaveSound'
  BY <1>1, SaveStatement
<1>2. ASSUME NEW r \in Requests, StatementFails(r)
      PROVE  SaveSound' /\ \A q \in Requests : answer'[q] = "ok" => answer[q] = "ok"
  <2>1. /\ Respond(r, "error") /\ Active(r)
        /\ UNCHANGED <<tasks, time_windows, used, request, lone>>
    BY <1>2 DEF StatementFails, Fail, store, history
  <2>2. \A q \in Requests : \/ pc'[q] = pc[q] /\ todo'[q] = todo[q]
                            \/ Sent(q) /\ pc'[q] = "done"
    BY <2>1 DEF Respond, StoreTyped, Active, Sent
  <2>3. \A q \in Requests : answer'[q] = "ok" => answer[q] = "ok"
    BY <2>1 DEF Respond, StoreTyped
  <2> QED
    BY <2>1, <2>2, <2>3, SaveEnds
<1>3. ASSUME ServiceEnds
      PROVE  SaveSound' /\ \A q \in Requests : answer'[q] = "ok" => answer[q] = "ok"
  <2>1. UNCHANGED <<tasks, time_windows, used, request, lone>>
    BY <1>3 DEF ServiceEnds, store, history
  <2>2. SaveSound'
    <3>1. \A q \in Requests : \/ Sent(q) /\ pc'[q] = "done"
                              \/ pc'[q] = pc[q] /\ ~Active(q)
      BY <1>3 DEF ServiceEnds, Active, Sent
    <3> QED
      BY <2>1, <3>1, SaveEnds
  <2>3. \A q \in Requests : answer'[q] = "ok" => answer[q] = "ok"
    BY <1>3 DEF ServiceEnds
  <2> QED
    BY <2>2, <2>3
<1>4. ASSUME NEW r \in Requests, NEW asked \in Request, Send(r, asked),
             asked.action = "CreateTask" => asked.task \notin used
      PROVE  SaveSound' /\ answer' = answer
  BY <1>4, SaveSent DEF Send
<1>5. ASSUME UNCHANGED <<tasks, time_windows, used, request, lone, pc, todo, answer>>
      PROVE  SaveSound' /\ answer' = answer
  BY <1>5, SaveEnds
<1>6. ASSUME NEW u \in UIs, UIStep(u) PROVE SaveSound' /\ answer' = answer
  BY <1>4, <1>5, <1>6, FrontSends DEF history
<1>7. ASSUME NEW t \in Tasks, ToggleFromElsewhere(t) PROVE SaveSound' /\ answer' = answer
  <2>1. PICK r \in Requests, action \in {"EnableTask", "DisableTask"} : Order(r, action, t)
    BY <1>7 DEF ToggleFromElsewhere
  <2> QED
    BY <1>4, <2>1, OrderSends
<1>8. CASE UNCHANGED vars
  BY <1>5, <1>8 DEF vars, storeVars, store, threads, history
<1> QED
  BY <1>1, <1>2, <1>3, <1>6, <1>7, <1>8 DEF Next, StoreStep

(* The answer ok is a save's last step.                                    *)
LEMMA FinishedStep ==
    ASSUME Typed, SaveSound, NEW r \in Requests, [Next]_vars, Finished(r)
    PROVE  /\ Triggered(time_windows'[request[r].task]) = request[r].plan
           /\ tasks'[request[r].task] = FromJson(request[r].row)
<1>1. StoreTyped
  BY DEF Typed
<1>2. /\ answer[r] = "none" /\ answer'[r] = "ok" /\ request[r].action \in Saves
      /\ r \in lone /\ tasks[TaskOf(r)] # None
  BY DEF Finished, TaskOf
<1>3. PICK q \in Requests : Statement(q)
  BY <1>2, SaveStep
<1>4. q = r
  <2>1. \A p \in Requests \ {q} : answer'[p] = answer[p]
    BY <1>1, <1>3, StatementFrame
  <2> QED
    BY <1>2, <2>1
<1>5. Finish(r)
  <2>1. ~DeleteTask(r) /\ ~ToggleTask(r)
    BY <1>2 DEF DeleteTask, ToggleTask, Saves
  <2>2. ~InsertTask(r) /\ ~UpdateTask(r) /\ ~DeleteTimeWindows(r)
    BY <1>2 DEF InsertTask, UpdateTask, DeleteTimeWindows
  <2>3. ~InsertTimeWindow(r)
    <3>1. ASSUME Respond(r, "error") PROVE FALSE
      BY <1>1, <1>2, <3>1 DEF Respond, StoreTyped
    <3> QED
      BY <1>2, <3>1 DEF InsertTimeWindow
  <2> QED
    BY <1>3, <1>4, <2>1, <2>2, <2>3 DEF Statement
<1>6. /\ pc[r] = "insert" /\ todo[r] = <<>> /\ UNCHANGED <<tasks, time_windows>>
  BY <1>5 DEF Finish, store
<1>7. RowWritten(r) /\ WindowsWritten(r)
  BY <1>2 DEF SaveSound
<1>8. /\ tasks[TaskOf(r)] = FromJson(request[r].row)
      /\ Triggered(time_windows[TaskOf(r)]) \o <<>> = request[r].plan
  BY <1>2, <1>6, <1>7 DEF RowWritten, WindowsWritten
<1>9. Triggered(time_windows[TaskOf(r)]) \in Seq(Triggers)
  <2>1. request[r] \in Request
    BY <1>1, <1>6 DEF StoreTyped
  <2>2. time_windows[TaskOf(r)] \in Seq(Window)
    BY <1>1, <2>1 DEF StoreTyped, Request, TaskOf
  <2> QED
    BY <2>2, TriggeredTyped
<1>10. \A s \in Seq(Triggers) : s \o <<>> = s
  OBVIOUS
<1> QED
  BY <1>6, <1>8, <1>9, <1>10 DEF TaskOf

(* A save that nothing overlaps and that is answered ok is whole.          *)
THEOREM LoneSavesAreWhole == Spec => SaveIsWhole
<1>1. Typed /\ SaveSound /\ [Next]_vars => SaveSound'
  BY SaveStep
<1>2. Typed /\ SaveSound /\ [Next]_vars =>
        [\A r \in Requests : Finished(r) =>
          /\ Triggered(time_windows'[request[r].task]) = request[r].plan
          /\ tasks'[request[r].task] = FromJson(request[r].row)]_vars
  BY FinishedStep
<1> QED
  BY <1>1, <1>2, AlwaysTyped, SaveInit, PTL DEF Spec, SaveIsWhole
-----------------------------------------------------------------------------
(***************************************************************************)
(* What becomes of a schedule that is saved, for any number of front ends, *)
(* tasks and requests: the last save of a task that replaced its windows   *)
(* and was answered ok has all of its windows in the table, whatever       *)
(* overlapped it; and a save without an edit keeps the schedule.           *)
(***************************************************************************)

(* Induction over the natural numbers, on a set instead of a predicate.    *)
LEMMA SetInduction ==
    ASSUME NEW S, 0 \in S, \A n \in Nat : n \in S => n + 1 \in S
    PROVE  Nat \subseteq S
<1> SUFFICES ASSUME Nat \ S # {} PROVE FALSE
  OBVIOUS
<1>1. PICK n \in Nat \ S : \A m \in Nat \ S : ~(<<m, n>> \in OpToRel(<, Nat))
  BY NatLessThanWellFounded, WFMin
<1>2. \A m \in Nat \ S : ~ (m < n)
  BY <1>1 DEF OpToRel
<1>3. n # 0 /\ n - 1 \in Nat
  OBVIOUS
<1>4. n - 1 \in S
  BY <1>2, <1>3
<1> QED
  BY <1>3, <1>4

(* The equation of the recursive function in InsertedBy, on 0..m.          *)
Taking(f, r, windows, m) ==
    f = [n \in 0..m |-> IF n = 0 THEN <<>>
                        ELSE IF windows[n].by = r THEN Append(f[n - 1], windows[n].trigger)
                        ELSE f[n - 1]]

(* One step of it.                                                         *)
LEMMA TakingStep ==
    ASSUME NEW r, NEW windows, NEW m \in Nat, NEW f, Taking(f, r, windows, m), NEW n \in 1..m
    PROVE  f[n] = IF windows[n].by = r THEN Append(f[n - 1], windows[n].trigger) ELSE f[n - 1]
<1>1. n \in 0..m /\ n # 0
  OBVIOUS
<1>2. f = [k \in 0..m |-> IF k = 0 THEN <<>>
                          ELSE IF windows[k].by = r THEN Append(f[k - 1], windows[k].trigger)
                          ELSE f[k - 1]]
  BY DEF Taking
<1> QED
  BY <1>1, <1>2

(* It has a solution,                                                      *)
LEMMA TakingExists ==
    ASSUME NEW r, NEW windows, NEW m \in Nat
    PROVE  \E f : Taking(f, r, windows, m)
<1> DEFINE S == {n \in Nat : \E f : Taking(f, r, windows, n)}
<1>1. 0 \in S
  <2>1. Taking([n \in 0..0 |-> <<>>], r, windows, 0)
    BY DEF Taking
  <2> QED
    BY <2>1
<1>2. ASSUME NEW n \in Nat, n \in S PROVE n + 1 \in S
  <2>1. PICK f : Taking(f, r, windows, n)
    BY <1>2
  <2> DEFINE g == [k \in 0..(n + 1) |->
                     IF k <= n THEN f[k]
                     ELSE IF windows[k].by = r THEN Append(f[n], windows[k].trigger) ELSE f[n]]
             h == [k \in 0..(n + 1) |->
                     IF k = 0 THEN <<>>
                     ELSE IF windows[k].by = r THEN Append(g[k - 1], windows[k].trigger)
                     ELSE g[k - 1]]
  <2>2. \A k \in 0..(n + 1) : g[k] = h[k]
    <3> SUFFICES ASSUME NEW k \in 0..(n + 1) PROVE g[k] = h[k]
      OBVIOUS
    <3>1. CASE k = 0
      BY <2>1, <3>1 DEF Taking
    <3>2. CASE k \in 1..n
      <4>1. k \in 0..n /\ k - 1 \in 0..n /\ k # 0
        BY <3>2
      <4>2. f[k] = IF windows[k].by = r THEN Append(f[k - 1], windows[k].trigger) ELSE f[k - 1]
        BY <2>1, <3>2, TakingStep
      <4>3. g[k] = f[k] /\ g[k - 1] = f[k - 1]
        BY <4>1
      <4> QED
        BY <4>1, <4>2, <4>3
    <3>3. CASE k = n + 1
      <4>1. g[n] = f[n]
        OBVIOUS
      <4> QED
        BY <3>3, <4>1
    <3> QED
      BY <3>1, <3>2, <3>3
  <2>3. g = h
    BY <2>2
  <2>4. Taking(g, r, windows, n + 1)
    BY <2>3 DEF Taking
  <2> QED
    BY <2>4
<1>3. Nat \subseteq S
  BY <1>1, <1>2, SetInduction
<1> QED
  BY <1>3

(* and only one, which the windows after a position do not change.         *)
LEMMA TakingUnique ==
    ASSUME NEW r, NEW v, NEW w, NEW m \in Nat, NEW k \in Nat, m <= k,
           \A i \in 1..m : v[i] = w[i],
           NEW f, Taking(f, r, v, m), NEW g, Taking(g, r, w, k)
    PROVE  \A n \in 0..m : f[n] = g[n]
<1> DEFINE S == {n \in Nat : n <= m => f[n] = g[n]}
<1>1. 0 \in S
  BY DEF Taking
<1>2. ASSUME NEW n \in Nat, n \in S PROVE n + 1 \in S
  <2> SUFFICES ASSUME n + 1 <= m PROVE f[n + 1] = g[n + 1]
    OBVIOUS
  <2>1. PICK p \in 1..m : p = n + 1 /\ p - 1 = n /\ p \in 1..k /\ f[n] = g[n]
    BY <1>2
  <2>2. f[p] = IF v[p].by = r THEN Append(f[p - 1], v[p].trigger) ELSE f[p - 1]
    BY TakingStep
  <2>3. g[p] = IF w[p].by = r THEN Append(g[p - 1], w[p].trigger) ELSE g[p - 1]
    BY <2>1, TakingStep
  <2>4. v[p] = w[p]
    OBVIOUS
  <2> QED
    BY <2>1, <2>2, <2>3, <2>4
<1>3. Nat \subseteq S
  BY <1>1, <1>2, SetInduction
<1> QED
  BY <1>3

(* One window more is one step more.                                       *)
LEMMA TakingOneMore ==
    ASSUME NEW r, NEW v, NEW w, NEW m \in Nat, \A i \in 1..m : v[i] = w[i],
           NEW f, Taking(f, r, v, m), NEW g, Taking(g, r, w, m + 1)
    PROVE  g[m + 1] = IF w[m + 1].by = r THEN Append(f[m], w[m + 1].trigger) ELSE f[m]
<1>1. PICK p \in Nat : p = m + 1 /\ p \in 1..p /\ p - 1 = m /\ m <= p /\ m \in 0..m
  OBVIOUS
<1>2. Taking(g, r, w, p)
  BY <1>1
<1>3. f[m] = g[m]
  BY <1>1, <1>2, TakingUnique
<1>4. g[p] = IF w[p].by = r THEN Append(g[p - 1], w[p].trigger) ELSE g[p - 1]
  BY <1>1, <1>2, TakingStep
<1> QED
  BY <1>1, <1>3, <1>4

(* So InsertedBy is what its recursion says.                               *)
LEMMA InsertedByTakes ==
    ASSUME NEW r, NEW windows, Len(windows) \in Nat
    PROVE  \E f : Taking(f, r, windows, Len(windows)) /\ InsertedBy(r, windows) = f[Len(windows)]
<1> DEFINE f == CHOOSE f : Taking(f, r, windows, Len(windows))
<1>1. Taking(f, r, windows, Len(windows))
  BY TakingExists
<1>2. InsertedBy(r, windows) = f[Len(windows)]
  BY DEF InsertedBy, Taking
<1> HIDE DEF f
<1> QED
  BY <1>1, <1>2

(* Nothing is taken of nothing.                                            *)
LEMMA InsertedByEmpty ==
    ASSUME NEW r
    PROVE  InsertedBy(r, <<>>) = <<>>
<1>1. Len(<<>>) = 0
  OBVIOUS
<1>2. PICK f : Taking(f, r, <<>>, 0) /\ InsertedBy(r, <<>>) = f[0]
  BY <1>1, InsertedByTakes
<1> QED
  BY <1>2 DEF Taking

(* A window more counts if r inserted it.                                  *)
LEMMA InsertedByAppend ==
    ASSUME NEW r, NEW windows \in Seq(Window), NEW w \in Window
    PROVE  InsertedBy(r, Append(windows, w)) =
              IF w.by = r THEN Append(InsertedBy(r, windows), w.trigger)
                          ELSE InsertedBy(r, windows)
<1> DEFINE m == Len(windows)
           longer == Append(windows, w)
<1>1. /\ m \in Nat /\ Len(longer) = m + 1 /\ longer[m + 1] = w
      /\ \A i \in 1..m : windows[i] = longer[i]
  BY AppendProperties
<1> HIDE DEF m, longer
<1>2. PICK f : Taking(f, r, windows, m) /\ InsertedBy(r, windows) = f[m]
  BY <1>1, InsertedByTakes DEF m
<1>3. PICK g : Taking(g, r, longer, m + 1) /\ InsertedBy(r, longer) = g[m + 1]
  BY <1>1, InsertedByTakes
<1>4. g[m + 1] = IF longer[m + 1].by = r THEN Append(f[m], longer[m + 1].trigger) ELSE f[m]
  BY <1>1, <1>2, <1>3, TakingOneMore
<1> QED
  BY <1>1, <1>2, <1>3, <1>4 DEF longer

(* What is taken of windows are triggers.                                  *)
LEMMA InsertedByTyped ==
    ASSUME NEW r, NEW windows \in Seq(Window)
    PROVE  InsertedBy(r, windows) \in Seq(Triggers)
<1> DEFINE m == Len(windows)
<1>1. m \in Nat /\ \A i \in 1..m : windows[i].trigger \in Triggers
  <2>1. \A i \in 1..m : windows[i] \in Window
    BY ElementOfSeq
  <2> QED
    BY <2>1 DEF Window
<1>2. PICK f : Taking(f, r, windows, m) /\ InsertedBy(r, windows) = f[m]
  BY <1>1, InsertedByTakes
<1> HIDE DEF m
<1> DEFINE S == {n \in Nat : n <= m => f[n] \in Seq(Triggers)}
<1>3. 0 \in S
  BY <1>1, <1>2 DEF Taking
<1>4. ASSUME NEW n \in Nat, n \in S PROVE n + 1 \in S
  <2> SUFFICES ASSUME n + 1 <= m PROVE f[n + 1] \in Seq(Triggers)
    OBVIOUS
  <2>1. PICK p \in 1..m : p = n + 1 /\ p - 1 = n /\ f[n] \in Seq(Triggers)
    BY <1>1, <1>4
  <2>2. f[p] = IF windows[p].by = r THEN Append(f[p - 1], windows[p].trigger) ELSE f[p - 1]
    BY <1>1, <1>2, TakingStep
  <2>3. windows[p].trigger \in Triggers
    BY <1>1
  <2>4. Append(f[n], windows[p].trigger) \in Seq(Triggers)
    BY <2>1, <2>3, AppendProperties
  <2> QED
    BY <2>1, <2>2, <2>4
<1>5. Nat \subseteq S
  BY <1>3, <1>4, SetInduction
<1> QED
  BY <1>1, <1>2, <1>5
-----------------------------------------------------------------------------
(***************************************************************************)
(* What one step may do to the requests and to what they have written.     *)
(***************************************************************************)
LEMMA EditorStep ==
    ASSUME Typed, [Next]_vars
    PROVE  \/ \E r \in Requests : Statement(r)
           \/ /\ UNCHANGED <<tasks, time_windows, request, standing>>
              /\ \A q \in Requests :
                    \/ pc'[q] = pc[q] /\ answer'[q] = answer[q]
                       /\ (Active(q) => todo'[q] = todo[q])
                    \/ Active(q) /\ pc'[q] = "done" /\ answer'[q] = "error"
           \/ \E r \in Requests, asked \in Request : Send(r, asked)
<1> USE DEF Typed
<1>1. ASSUME NEW r \in Requests, StatementFails(r)
      PROVE  /\ UNCHANGED <<tasks, time_windows, request, standing>>
             /\ \A q \in Requests :
                    \/ pc'[q] = pc[q] /\ answer'[q] = answer[q] /\ todo'[q] = todo[q]
                    \/ Active(q) /\ pc'[q] = "done" /\ answer'[q] = "error"
  <2>1. /\ Respond(r, "error") /\ Active(r)
        /\ UNCHANGED <<tasks, time_windows, request, standing>>
    BY <1>1 DEF StatementFails, Fail, store, history
  <2> QED
    BY <2>1 DEF Respond, StoreTyped
<1>2. ASSUME ServiceEnds
      PROVE  /\ UNCHANGED <<tasks, time_windows, request, standing>>
             /\ \A q \in Requests :
                    \/ pc'[q] = pc[q] /\ answer'[q] = answer[q] /\ ~Active(q)
                    \/ Active(q) /\ pc'[q] = "done" /\ answer'[q] = "error"
  BY <1>2 DEF ServiceEnds, store, history
<1>3. UNCHANGED <<history, pc, todo, answer, request>> =>
        /\ UNCHANGED <<request, standing>>
        /\ \A q \in Requests :
              pc'[q] = pc[q] /\ answer'[q] = answer[q] /\ todo'[q] = todo[q]
  BY DEF history
<1>4. ASSUME NEW t \in Tasks, ToggleFromElsewhere(t)
      PROVE  \E r \in Requests, asked \in Request : Send(r, asked)
  <2>1. PICK r \in Requests, action \in {"EnableTask", "DisableTask"} : Order(r, action, t)
    BY <1>4 DEF ToggleFromElsewhere
  <2> QED
    BY <2>1, OrderSends
<1>5. CASE UNCHANGED vars
  BY <1>3, <1>5 DEF vars, storeVars, store, threads
<1>6. ASSUME NEW u \in UIs, UIStep(u)
      PROVE  \/ UNCHANGED <<tasks, time_windows, history, pc, todo, answer, request>>
             \/ \E r \in Requests, asked \in Request : Send(r, asked)
  BY <1>6, FrontSends
<1> QED
  BY <1>1, <1>2, <1>3, <1>4, <1>5, <1>6 DEF Next, StoreStep
-----------------------------------------------------------------------------
(***************************************************************************)
(* The last save that replaced a task's windows.  As long as the task is   *)
(* there, the windows it has inserted, followed by those it has still to   *)
(* insert, are the request's, whoever else inserts between them; a save    *)
(* that is answered ok had none left to insert.                            *)
(***************************************************************************)
Delivered(q) ==
    tasks[TaskOf(q)] # None =>
        LET delivered == InsertedBy(q, time_windows[TaskOf(q)]) IN
        /\ pc[q] = "insert" => delivered \o todo[q] = request[q].plan
        /\ answer[q] = "ok" => delivered = request[q].plan

StandingSound ==
    /\ \A t \in Tasks, q \in Requests : standing[t] = q =>
          pc[q] \in {"insert", "done"} /\ TaskOf(q) = t /\ Delivered(q)
    /\ \A q \in Requests : answer[q] = "ok" => pc[q] = "done"

(* What r delivers does not disturb the save that stands for another task. *)
LEMMA StandsElsewhere ==
    ASSUME StoreTyped, StandingSound, NEW r \in Requests, Statement(r),
           NEW t \in Tasks, t # TaskOf(r), NEW q \in Requests, standing[t] = q
    PROVE  (pc[q] \in {"insert", "done"} /\ TaskOf(q) = t /\ Delivered(q))'
<1>1. pc[q] \in {"insert", "done"} /\ TaskOf(q) = t /\ Delivered(q) /\ q # r
  BY DEF StandingSound
<1>2. /\ request' = request
      /\ pc'[q] = pc[q] /\ todo'[q] = todo[q] /\ answer'[q] = answer[q]
      /\ tasks'[t] = tasks[t] /\ time_windows'[t] = time_windows[t]
  BY <1>1, StatementFrame DEF TaskOf
<1> QED
  BY <1>1, <1>2 DEF Delivered, TaskOf

(* A save that starts to insert stands.                                    *)
LEMMA StandsAnew ==
    ASSUME StoreTyped, StandingSound, NEW r \in Requests, Statement(r),
           standing' = [standing EXCEPT ![TaskOf(r)] = r], pc[r] # "insert",
           pc'[r] = "insert", todo'[r] = request[r].plan, answer' = answer,
           time_windows'[TaskOf(r)] = <<>>, request[r].plan \in Seq(Triggers)
    PROVE  StandingSound'
<1>1. /\ Active(r) /\ request' = request /\ TaskOf(r) \in Tasks
      /\ \A q \in Requests \ {r} : pc'[q] = pc[q]
  BY StatementFrame DEF TaskOf
<1>2. answer[r] # "ok"
  BY <1>1 DEF StandingSound, Active
<1>3. \A q \in Requests : answer'[q] = "ok" => pc'[q] = "done"
  BY <1>1, <1>2 DEF StandingSound
<1>4. Delivered(r)'
  <2>1. \A s \in Seq(Triggers) : <<>> \o s = s
    OBVIOUS
  <2>2. TaskOf(r)' = TaskOf(r) /\ request'[r].plan = request[r].plan
    BY <1>1 DEF TaskOf
  <2>3. InsertedBy(r, time_windows'[TaskOf(r)]) = <<>>
    BY InsertedByEmpty
  <2> QED
    BY <1>2, <2>1, <2>2, <2>3 DEF Delivered
<1>5. ASSUME NEW t \in Tasks, NEW q \in Requests, standing'[t] = q
      PROVE  (pc[q] \in {"insert", "done"} /\ TaskOf(q) = t /\ Delivered(q))'
  <2>1. CASE t = TaskOf(r)
    <3>1. q = r
      BY <1>5, <2>1 DEF StoreTyped
    <3>2. TaskOf(r)' = TaskOf(r)
      BY <1>1 DEF TaskOf
    <3> QED
      BY <1>4, <2>1, <3>1, <3>2
  <2>2. CASE t # TaskOf(r)
    <3>1. standing[t] = q
      BY <1>5, <2>2 DEF StoreTyped
    <3> QED
      BY <2>2, <3>1, StandsElsewhere
  <2> QED
    BY <2>1, <2>2
<1> QED
  BY <1>3, <1>5 DEF StandingSound

(* A statement that starts no save concerns the save that stands for its   *)
(* own task only.                                                          *)
LEMMA StandsStill ==
    ASSUME StoreTyped, StandingSound, NEW r \in Requests, Statement(r), standing' = standing,
           answer'[r] = "ok" => pc'[r] = "done",
           \A q \in Requests : standing[TaskOf(r)] = q =>
               pc'[q] \in {"insert", "done"} /\ Delivered(q)'
    PROVE  StandingSound'
<1>1. request' = request /\ \A q \in Requests \ {r} : pc'[q] = pc[q] /\ answer'[q] = answer[q]
  BY StatementFrame
<1>2. \A q \in Requests : answer'[q] = "ok" => pc'[q] = "done"
  BY <1>1 DEF StandingSound
<1>3. ASSUME NEW t \in Tasks, NEW q \in Requests, standing[t] = q
      PROVE  (pc[q] \in {"insert", "done"} /\ TaskOf(q) = t /\ Delivered(q))'
  <2>1. CASE t = TaskOf(r)
    <3>1. TaskOf(q)' = t
      BY <1>1, <1>3 DEF StandingSound, TaskOf
    <3> QED
      BY <1>3, <2>1, <3>1
  <2>2. CASE t # TaskOf(r)
    BY <1>3, <2>2, StandsElsewhere
  <2> QED
    BY <2>1, <2>2
<1> QED
  BY <1>2, <1>3 DEF StandingSound

(* The insertion of a window brings the save that stands forward by one,   *)
(* if it is its own.                                                       *)
LEMMA InsertStands ==
    ASSUME StoreTyped, StandingSound, NEW r \in Requests, InsertTimeWindow(r)
    PROVE  StandingSound'
<1> DEFINE t == TaskOf(r)
<1>1. Statement(r) /\ standing' = standing /\ tasks' = tasks /\ request' = request
  BY DEF Statement, InsertTimeWindow, history
<1>2. /\ t \in Tasks
      /\ \A q \in Requests \ {r} :
            pc'[q] = pc[q] /\ todo'[q] = todo[q] /\ answer'[q] = answer[q]
  BY <1>1, StatementFrame DEF TaskOf
<1>3. pc[r] = "insert" /\ todo[r] # <<>> /\ answer[r] # "ok"
  BY DEF InsertTimeWindow, StandingSound
<1>4. ASSUME NEW q \in Requests, standing[t] = q
      PROVE  /\ pc[q] \in {"insert", "done"} /\ TaskOf(q) = t /\ TaskOf(q)' = t
             /\ Delivered(q)
  BY <1>1, <1>2, <1>4 DEF StandingSound, TaskOf
<1>5. CASE HasParent(t)
  <2> DEFINE w == [trigger |-> Head(todo[r]), by |-> r]
  <2>1. /\ time_windows' = [time_windows EXCEPT ![t] = Append(@, w)]
        /\ todo' = [todo EXCEPT ![r] = Tail(@)]
        /\ UNCHANGED <<pc, answer>>
    BY <1>5 DEF InsertTimeWindow, TaskOf
  <2>2. /\ todo[r] \in Seq(Triggers) /\ Head(todo[r]) \in Triggers
        /\ time_windows[t] \in Seq(Window)
    BY <1>2, <1>3, HeadTailProperties DEF StoreTyped
  <2>3. w \in Window /\ w.trigger = Head(todo[r]) /\ w.by = r
    BY <2>2 DEF Window
  <2>4. time_windows'[t] = Append(time_windows[t], w) /\ todo'[r] = Tail(todo[r])
    BY <1>2, <2>1 DEF StoreTyped
  <2> HIDE DEF w
  <2>5. ASSUME NEW q \in Requests
        PROVE  InsertedBy(q, time_windows'[t]) =
                  IF q = r THEN Append(InsertedBy(q, time_windows[t]), Head(todo[r]))
                           ELSE InsertedBy(q, time_windows[t])
    <3>1. InsertedBy(q, Append(time_windows[t], w)) =
              IF w.by = q THEN Append(InsertedBy(q, time_windows[t]), w.trigger)
                          ELSE InsertedBy(q, time_windows[t])
      BY <2>2, <2>3, InsertedByAppend
    <3> QED
      BY <2>3, <2>4, <3>1
  <2>6. ASSUME standing[t] = r PROVE Delivered(r)'
    <3>1. tasks[t] # None => InsertedBy(r, time_windows[t]) \o todo[r] = request[r].plan
      BY <1>3, <1>4, <2>6 DEF Delivered
    <3>2. InsertedBy(r, time_windows[t]) \in Seq(Triggers)
      BY <2>2, InsertedByTyped
    <3>3. ASSUME NEW a \in Seq(Triggers), NEW b \in Seq(Triggers), b # <<>>
          PROVE  Append(a, Head(b)) \o Tail(b) = a \o b
      BY <3>3
    <3>4. InsertedBy(r, time_windows'[t]) \o todo'[r] =
              InsertedBy(r, time_windows[t]) \o todo[r]
      BY <1>3, <2>2, <2>4, <2>5, <3>2, <3>3
    <3> QED
      BY <1>1, <1>3, <1>4, <2>1, <2>6, <3>1, <3>4 DEF Delivered
  <2>7. ASSUME NEW q \in Requests \ {r}, standing[t] = q PROVE Delivered(q)'
    <3>1. InsertedBy(q, time_windows'[t]) = InsertedBy(q, time_windows[t])
      BY <2>5, <2>7
    <3>2. pc'[q] = pc[q] /\ todo'[q] = todo[q] /\ answer'[q] = answer[q]
      BY <1>2, <2>7
    <3>3. TaskOf(q) = t /\ TaskOf(q)' = t /\ Delivered(q)
      BY <1>4, <2>7
    <3> QED
      BY <1>1, <3>1, <3>2, <3>3 DEF Delivered
  <2> QED
    BY <1>1, <1>3, <1>4, <2>1, <2>6, <2>7, StandsStill
<1>6. CASE ~HasParent(t)
  <2>1. Respond(r, "error")
    BY <1>6 DEF InsertTimeWindow, TaskOf
  <2>2. pc'[r] = "done" /\ tasks'[t] = None
    BY <1>1, <1>6, <2>1 DEF Respond, StoreTyped, HasParent
  <2> QED
    BY <1>1, <1>2, <1>4, <2>2, StandsStill DEF Delivered
<1> QED
  BY <1>5, <1>6

(* So does every other statement keep what the saves that stand have       *)
(* delivered.                                                              *)
LEMMA StatementStands ==
    ASSUME StoreTyped, SaveSound, StandingSound, NEW r \in Requests, Statement(r)
    PROVE  StandingSound'
<1> DEFINE t == TaskOf(r)
<1>1. /\ t \in Tasks /\ request' = request
      /\ \A q \in Requests \ {r} :
            pc'[q] = pc[q] /\ todo'[q] = todo[q] /\ answer'[q] = answer[q]
  BY StatementFrame DEF TaskOf
<1>2. request[r] \in Request /\ request[r].plan \in Seq(Triggers)
  <2>1. request[r] \in Request
    BY StatementFrame DEF StoreTyped, Active
  <2> QED
    BY <2>1 DEF Request
<1>3. ASSUME NEW q \in Requests, standing[t] = q
      PROVE  /\ pc[q] \in {"insert", "done"} /\ TaskOf(q) = t /\ TaskOf(q)' = t
             /\ Delivered(q)
  BY <1>1, <1>3 DEF StandingSound, TaskOf
<1>4. CASE InsertTask(r)
  <2>1. /\ standing' = [standing EXCEPT ![t] = r]
        /\ pc' = [pc EXCEPT ![r] = "insert"] /\ pc[r] = "row"
        /\ todo' = [todo EXCEPT ![r] = request[r].plan]
        /\ answer' = answer /\ time_windows' = time_windows
        /\ request[r].action = "CreateTask"
    BY <1>4 DEF InsertTask, TaskOf
  <2>2. time_windows[t] = <<>>
    BY <1>1, <2>1 DEF SaveSound, FreshIds, WindowsBelongToTasks
  <2>3. pc'[r] = "insert" /\ todo'[r] = request[r].plan
    BY <2>1 DEF StoreTyped
  <2> QED
    BY <1>2, <2>1, <2>2, <2>3, StandsAnew
<1>5. CASE DeleteTimeWindows(r)
  <2>1. /\ standing' = [standing EXCEPT ![t] = r]
        /\ pc' = [pc EXCEPT ![r] = "insert"] /\ pc[r] = "clear"
        /\ todo' = [todo EXCEPT ![r] = request[r].plan]
        /\ answer' = answer
        /\ time_windows' = [time_windows EXCEPT ![t] = <<>>]
    BY <1>1, <1>5 DEF DeleteTimeWindows, Cleared, TaskOf
  <2>2. time_windows'[t] = <<>> /\ pc'[r] = "insert" /\ todo'[r] = request[r].plan
    BY <1>1, <2>1 DEF StoreTyped
  <2> QED
    BY <1>2, <2>1, <2>2, StandsAnew
<1>6. CASE InsertTimeWindow(r)
  BY <1>6, InsertStands
<1>7. CASE Finish(r)
  <2>1. /\ pc[r] = "insert" /\ todo[r] = <<>> /\ Respond(r, "ok")
        /\ UNCHANGED <<tasks, time_windows, standing>>
    BY <1>7 DEF Finish, store, history
  <2>2. pc'[r] = "done"
    BY <2>1 DEF Respond, StoreTyped
  <2>3. ASSUME standing[t] = r PROVE Delivered(r)'
    <3>1. tasks[t] # None => InsertedBy(r, time_windows[t]) \o <<>> = request[r].plan
      BY <1>3, <2>1, <2>3 DEF Delivered
    <3>2. InsertedBy(r, time_windows[t]) \in Seq(Triggers)
      BY <1>1, InsertedByTyped DEF StoreTyped
    <3>3. \A s \in Seq(Triggers) : s \o <<>> = s
      OBVIOUS
    <3>4. tasks[t] # None => InsertedBy(r, time_windows[t]) = request[r].plan
      BY <3>1, <3>2, <3>3
    <3> QED
      BY <1>1, <1>3, <2>1, <2>2, <2>3, <3>4 DEF Delivered
  <2>4. ASSUME NEW q \in Requests \ {r}, standing[t] = q PROVE Delivered(q)'
    <3>1. TaskOf(q) = t /\ TaskOf(q)' = t /\ Delivered(q)
      BY <1>3, <2>4
    <3>2. /\ tasks' = tasks /\ time_windows' = time_windows /\ request' = request
          /\ pc'[q] = pc[q] /\ todo'[q] = todo[q] /\ answer'[q] = answer[q]
      BY <1>1, <2>1
    <3> HIDE DEF t
    <3> QED
      BY <3>1, <3>2 DEF Delivered
  <2> QED
    BY <1>1, <1>3, <2>1, <2>2, <2>3, <2>4, StandsStill
<1>8. CASE UpdateTask(r) \/ ToggleTask(r)
  <2>1. /\ pc[r] = "row" /\ request[r].action # "CreateTask"
        /\ UNCHANGED <<time_windows, standing>>
        /\ answer'[r] = "ok" => pc'[r] = "done"
    BY <1>8 DEF UpdateTask, ToggleTask, Respond, StoreTyped, StandingSound, history
  <2>2. tasks[t] = None => tasks'[t] = None
    BY <2>1, StatementFrame DEF TaskOf
  <2>3. \A q \in Requests : standing[t] = q => pc'[q] \in {"insert", "done"} /\ Delivered(q)'
    BY <1>1, <1>3, <2>1, <2>2 DEF Delivered
  <2> QED
    BY <2>1, <2>3, StandsStill
<1>9. CASE DeleteTask(r)
  <2>1. /\ pc[r] = "row" /\ standing' = standing /\ Respond(r, "ok")
        /\ tasks' = [tasks EXCEPT ![t] = None]
    BY <1>9 DEF DeleteTask, TaskOf, history
  <2>2. pc'[r] = "done" /\ tasks'[t] = None
    BY <1>1, <2>1 DEF Respond, StoreTyped
  <2> QED
    BY <1>1, <1>3, <2>1, <2>2, StandsStill DEF Delivered
<1> QED
  BY <1>4, <1>5, <1>6, <1>7, <1>8, <1>9 DEF Statement

(* A request that is sent has not come to stand.                           *)
LEMMA SendStands ==
    ASSUME StoreTyped, StandingSound, NEW r \in Requests, NEW asked \in Request, Send(r, asked)
    PROVE  StandingSound'
<1>1. /\ r = sent + 1
      /\ request' = [request EXCEPT ![r] = asked]
      /\ pc' = [pc EXCEPT ![r] = "row"]
      /\ UNCHANGED <<tasks, time_windows, todo, answer, standing>>
  BY DEF Send
<1>2. pc[r] = "unsent" /\ answer[r] # "ok"
  BY <1>1 DEF StoreTyped, StandingSound
<1>3. \A q \in Requests \ {r} : request'[q] = request[q] /\ pc'[q] = pc[q] /\ TaskOf(q)' = TaskOf(q)
  BY <1>1 DEF StoreTyped, TaskOf
<1>4. \A t \in Tasks, q \in Requests : standing[t] = q => q # r
  BY <1>2 DEF StandingSound
<1> QED
  BY <1>1, <1>2, <1>3, <1>4 DEF StandingSound, Delivered

(* Every step keeps what stands.                                           *)
LEMMA StandingStep ==
    ASSUME Typed, SaveSound, StandingSound, [Next]_vars
    PROVE  StandingSound'
<1>1. StoreTyped
  BY DEF Typed
<1>2. ASSUME UNCHANGED <<tasks, time_windows, request, standing>>,
             \A q \in Requests :
                \/ pc'[q] = pc[q] /\ answer'[q] = answer[q] /\ (Active(q) => todo'[q] = todo[q])
                \/ Active(q) /\ pc'[q] = "done" /\ answer'[q] = "error"
      PROVE  StandingSound'
  <2>1. \A q \in Requests : TaskOf(q)' = TaskOf(q)
    BY <1>2 DEF TaskOf
  <2>2. \A q \in Requests : Delivered(q) => Delivered(q)'
    BY <1>2, <2>1 DEF Delivered, Active
  <2> QED
    BY <1>2, <2>1, <2>2 DEF StandingSound
<1> QED
  BY <1>1, <1>2, EditorStep, StatementStands, SendStands

(* Initially no save has touched any windows.                              *)
LEMMA StandingInit == Init => StandingSound
<1> SUFFICES ASSUME Init PROVE StandingSound
  OBVIOUS
<1>1. \A t \in Tasks : standing[t] = None
  BY DEF Init, StoreInit
<1>2. \A r \in Requests : answer[r] = "none"
  BY DEF Init, StoreInit
<1> QED
  BY <1>1, <1>2, StoreAssumption DEF StandingSound

(* Of the last save that replaced a task's windows no window is missing    *)
(* and none is twice (the handlers of CreateTask and UpdateTask,           *)
(* insert_time_window), under any overlap of requests, failed statements   *)
(* and ends of the service.                                                *)
THEOREM LastSaveIsComplete == Spec => []NothingIsLost
<1>1. Init => SaveSound /\ StandingSound
  BY SaveInit, StandingInit
<1>2. Typed /\ SaveSound /\ StandingSound /\ [Next]_vars => SaveSound' /\ StandingSound'
  BY SaveStep, StandingStep
<1>3. StandingSound => NothingIsLost
  <2> SUFFICES ASSUME StandingSound, NEW t \in Tasks, NEW r \in Requests,
                      standing[t] = r, answer[r] = "ok", tasks[t] # None
               PROVE  InsertedBy(r, time_windows[t]) = request[r].plan
    BY DEF NothingIsLost
  <2>1. TaskOf(r) = t /\ Delivered(r)
    BY DEF StandingSound
  <2> QED
    BY <2>1 DEF Delivered
<1> QED
  BY <1>1, <1>2, <1>3, AlwaysTyped, PTL DEF Spec
-----------------------------------------------------------------------------
(***************************************************************************)
(* A schedule that was loaded and saved without an edit.  Until the user   *)
(* edits it, an editor's list is what it loaded; and a request that was    *)
(* sent in this state carries the same windows, each as ToDto renders it.  *)
(***************************************************************************)
BaseSound ==
    \A u \in UIs : editor[u].base # None => editor[u].list = Triggered(editor[u].base)

KeptSound ==
    \A r \in Requests : entered[r].kept # None =>
        /\ Sent(r)
        /\ request[r].plan = [i \in DOMAIN entered[r].kept |-> ToDto(entered[r].kept[i])]

(* A step that changes one editor.                                         *)
LEMMA EditorStepBase ==
    ASSUME FrontTyped, BaseSound, NEW u \in UIs, NEW e,
           editor' = [editor EXCEPT ![u] = e], e.base # None => e.list = Triggered(e.base)
    PROVE  BaseSound'
<1>1. \A v \in UIs : editor'[v] = IF v = u THEN e ELSE editor[v]
  BY DEF FrontTyped
<1> QED
  BY <1>1 DEF BaseSound

(* A step of a front end keeps it: what changes the list either loads it   *)
(* or forgets what was loaded.                                             *)
LEMMA UIStepBase ==
    ASSUME Typed, BaseSound, NEW u \in UIs, UIStep(u)
    PROVE  BaseSound'
<1> DEFINE e == editor[u]
<1>1. FrontTyped /\ StoreTyped /\ e \in Editor
  BY DEF Typed, FrontTyped
<1>2. e.base # None => e.list = Triggered(e.base)
  BY DEF BaseSound
<1>3. ASSUME NEW d \in Editor PROVE Dismissed(d).base = None
  BY <1>3, EditorIsDismissed
<1>4. CASE OpenNew(u) \/ \E t \in Tasks : OpenEditor(u, t)
  <2>1. CASE OpenNew(u)
    <3>1. PICK kill \in BOOLEAN :
            editor' = [editor EXCEPT ![u] =
                          [Dismissed(e) EXCEPT !.phase = "loaded", !.kill = kill]]
      BY <2>1 DEF OpenNew
    <3>2. [Dismissed(e) EXCEPT !.phase = "loaded", !.kill = kill].base = None
      BY DEF Dismissed, Closed
    <3> QED
      BY <1>1, <3>1, <3>2, EditorStepBase
  <2>2. ASSUME NEW t \in Tasks, OpenEditor(u, t) PROVE BaseSound'
    <3> DEFINE new == [Dismissed(e) EXCEPT !.phase = "opening", !.subject = t,
                                           !.enabled = seen[u][t]]
    <3>1. editor' = [editor EXCEPT ![u] = new]
      BY <2>2 DEF OpenEditor
    <3>2. new.base = None
      BY DEF Dismissed, Closed
    <3> HIDE DEF new
    <3> QED
      BY <1>1, <3>1, <3>2, EditorStepBase
  <2> QED
    BY <1>4, <2>1, <2>2
<1>5. ASSUME NEW new, editor' = [editor EXCEPT ![u] = new], new.base = e.base, new.list = e.list
      PROVE  BaseSound'
  BY <1>1, <1>2, <1>5, EditorStepBase
<1>6. CASE LoadWindows(u)
  <2> DEFINE stored == time_windows[e.subject]
             list == e.list \o Triggered(stored)
             base == IF e.list = <<>> THEN stored ELSE None
             new  == [e EXCEPT !.phase = "loaded", !.list = list, !.base = base]
  <2>1. e.phase = "fields" /\ editor' = [editor EXCEPT ![u] = new]
    BY <1>6 DEF LoadWindows
  <2>2. Triggered(stored) \in Seq(Triggers)
    <3>1. e.subject \in Tasks
      BY <1>1, <2>1 DEF FrontTyped
    <3> QED
      BY <1>1, <3>1, TriggeredTyped DEF StoreTyped
  <2>3. \A s \in Seq(Triggers) : <<>> \o s = s
    OBVIOUS
  <2>4. base # None => list = Triggered(base)
    BY <2>2, <2>3
  <2> HIDE DEF list, base
  <2>5. new.base = base /\ new.list = list
    BY <1>1 DEF Editor
  <2> HIDE DEF new
  <2> QED
    BY <1>1, <2>1, <2>4, <2>5, EditorStepBase
<1>7. CASE LoadTask(u) \/ LoadFails(u)
  <2> DEFINE k      == tasks[e.subject].kill_on_timeout
             failed == [e EXCEPT !.phase = "failed"]
             fields == [e EXCEPT !.phase = "fields", !.kill = k]
  <2>1. \/ editor' = [editor EXCEPT ![u] = failed]
        \/ editor' = [editor EXCEPT ![u] = fields]
    BY <1>7 DEF LoadTask, LoadFails
  <2> HIDE DEF k
  <2>2. failed.base = e.base /\ failed.list = e.list
    BY <1>1 DEF Editor
  <2>3. fields.base = e.base /\ fields.list = e.list
    BY <1>1 DEF Editor
  <2> HIDE DEF failed, fields
  <2> QED
    BY <1>5, <2>1, <2>2, <2>3
<1>8. ASSUME NEW list, Edit(u, list) PROVE BaseSound'
  <2> DEFINE new == [e EXCEPT !.list = list, !.base = None]
  <2>1. editor' = [editor EXCEPT ![u] = new]
    BY <1>1, <1>8 DEF Edit, FrontTyped
  <2>2. new.base = None
    BY <1>1 DEF Editor
  <2> HIDE DEF new
  <2> QED
    BY <1>1, <2>1, <2>2, EditorStepBase
<1>9. CASE \/ \E kind \in Chosen : AddTrigger(u, kind)
           \/ \E i \in DOMAIN e.list :
                 RemoveTrigger(u, i) \/ \E kind \in Chosen : ReplaceTrigger(u, i, kind)
  BY <1>8, <1>9 DEF AddTrigger, RemoveTrigger, ReplaceTrigger
<1>10. ASSUME NEW asked, editor' = [editor EXCEPT ![u] = [e EXCEPT !.asked = asked]]
       PROVE  BaseSound'
  <2> DEFINE new == [e EXCEPT !.asked = asked]
  <2>1. new.base = e.base /\ new.list = e.list
    BY <1>1 DEF Editor
  <2> HIDE DEF new
  <2> QED
    BY <1>5, <1>10, <2>1 DEF new
<1>11. CASE Save(u)
  <2>1. PICK r : editor' = [editor EXCEPT ![u].asked = @ \cup {r}]
    BY <1>11 DEF Save
  <2>2. editor' = [editor EXCEPT ![u] = [e EXCEPT !.asked = e.asked \cup {r}]]
    BY <1>1, <2>1
  <2> QED
    BY <1>10, <2>2
<1>12. CASE Cancel(u)
  BY <1>1, <1>3, <1>12, EditorStepBase DEF Cancel
<1>13. ASSUME NEW r \in Requests, Answered(u, r) PROVE BaseSound'
  <2>1. CASE answer[r] = "ok"
    <3> DEFINE rest == [e EXCEPT !.asked = e.asked \ {r}]
    <3>1. editor' = [editor EXCEPT ![u] = Dismissed(rest)]
      BY <1>13, <2>1 DEF Answered
    <3>2. rest \in Editor
      BY <1>1 DEF Editor
    <3> HIDE DEF rest
    <3> QED
      BY <1>1, <1>3, <3>1, <3>2, EditorStepBase
  <2>2. CASE answer[r] # "ok"
    <3>1. editor' = [editor EXCEPT ![u] = [e EXCEPT !.asked = e.asked \ {r}]]
      BY <1>13, <2>2 DEF Answered
    <3> QED
      BY <1>10, <3>1
  <2> QED
    BY <2>1, <2>2
<1>14. ASSUME NEW r \in Requests, StrayAnswered(u, r) PROVE BaseSound'
  <2>1. CASE editor' = [editor EXCEPT ![u] = Closed]
    BY <1>1, <2>1, EditorStepBase DEF Closed
  <2>2. CASE editor' = [editor EXCEPT ![u].stray = @ \ {r}]
    <3> DEFINE new == [e EXCEPT !.stray = e.stray \ {r}]
    <3>1. editor' = [editor EXCEPT ![u] = new]
      BY <1>1, <2>2
    <3>2. new.base = e.base /\ new.list = e.list
      BY <1>1 DEF Editor
    <3> HIDE DEF new
    <3> QED
      BY <1>5, <3>1, <3>2
  <2> QED
    BY <1>14, <2>1, <2>2 DEF StrayAnswered
<1>15. CASE Refresh(u) \/ \E t \in Tasks : DeleteSelected(u, t)
  <2>1. editor' = editor
    BY <1>15 DEF Refresh, DeleteSelected, Order
  <2> QED
    BY <2>1 DEF BaseSound
<1> QED
  BY <1>4, <1>5, <1>6, <1>7, <1>9, <1>11, <1>12, <1>13, <1>14, <1>15 DEF UIStep

(* A request that was sent is what it was.                                 *)
LEMMA SentStays ==
    ASSUME Typed, [Next]_vars, NEW q \in Requests, Sent(q)
    PROVE  Sent(q)' /\ request'[q] = request[q]
<1>1. StoreTyped
  BY DEF Typed
<1>2. ASSUME NEW r \in Requests, Statement(r) PROVE Sent(q)' /\ request'[q] = request[q]
  BY <1>1, <1>2, StatementFrame DEF Sent
<1>3. ASSUME NEW r \in Requests, NEW asked \in Request, Send(r, asked)
      PROVE  Sent(q)' /\ request'[q] = request[q]
  <2>1. /\ r = sent + 1
        /\ request' = [request EXCEPT ![r] = asked] /\ pc' = [pc EXCEPT ![r] = "row"]
    BY <1>3 DEF Send
  <2>2. q # r
    BY <1>1, <2>1 DEF StoreTyped, Sent
  <2> QED
    BY <1>1, <2>1, <2>2 DEF StoreTyped, Sent
<1> QED
  BY <1>2, <1>3, EditorStep DEF Sent

(* Only a save enters anything, and what it enters it sends.               *)
LEMMA SaveKeeps ==
    ASSUME Typed, BaseSound, KeptSound, NEW u \in UIs, Save(u)
    PROVE  KeptSound'
<1> DEFINE e    == editor[u]
           plan == [i \in DOMAIN e.list |-> ToDto(e.list[i])]
<1>1. PICK r \in Requests, t \in Target(u) :
        /\ Send(r, [action |-> IF e.subject = None THEN "CreateTask" ELSE "UpdateTask",
                    task |-> t,
                    row |-> [enabled |-> e.enabled, kill_on_timeout |-> e.kill],
                    plan |-> plan])
        /\ entered' = [entered EXCEPT ![r] =
                          [kill |-> e.kill, list |-> e.list,
                           kept |-> IF e.base # None /\ e.base = time_windows[t]
                                    THEN Triggered(e.base) ELSE None]]
  BY DEF Save
<1>2. e.base # None => e.list = Triggered(e.base)
  BY DEF BaseSound
<1>3. /\ request'[r].plan = plan
      /\ Sent(r)'
      /\ entered'[r].kept # None => entered'[r].kept = e.list
      /\ \A q \in Requests \ {r} : entered'[q] = entered[q]
  <2> HIDE DEF plan
  <2> QED
    BY <1>1, <1>2 DEF Typed, StoreTyped, FrontTyped, Send, Sent
<1>4. ASSUME NEW q \in Requests \ {r}, entered'[q].kept # None
      PROVE  /\ Sent(q)'
             /\ request'[q].plan =
                   [i \in DOMAIN entered'[q].kept |-> ToDto(entered'[q].kept[i])]
  <2>1. Sent(q) /\ entered'[q] = entered[q]
    BY <1>3, <1>4 DEF KeptSound
  <2>2. [Next]_vars
    <3>1. sent < MaxRequests
      BY <1>1 DEF Send
    <3> QED
      BY <3>1 DEF Next, UIStep
  <2>3. Sent(q)' /\ request'[q] = request[q]
    BY <2>1, <2>2, SentStays
  <2> QED
    BY <1>4, <2>1, <2>3 DEF KeptSound
<1> QED
  BY <1>3, <1>4 DEF KeptSound

(* Every step keeps what was loaded and what was kept.                     *)
LEMMA KeptStep ==
    ASSUME Typed, BaseSound, KeptSound, [Next]_vars
    PROVE  BaseSound' /\ KeptSound'
<1>1. ASSUME UNCHANGED editor PROVE BaseSound'
  BY <1>1 DEF BaseSound
<1>2. ASSUME UNCHANGED entered PROVE KeptSound'
  BY <1>2, SentStays DEF KeptSound
<1>3. ASSUME NEW u \in UIs, UIStep(u) PROVE BaseSound' /\ KeptSound'
  <2>1. Save(u) \/ UNCHANGED entered
    BY <1>3 DEF UIStep, Refresh, OpenNew, LoadTask, LoadWindows, LoadFails, OpenEditor,
       DeleteSelected, Order, AddTrigger, RemoveTrigger, ReplaceTrigger, Edit, Cancel, Answered,
       StrayAnswered
  <2> QED
    BY <1>2, <1>3, <2>1, UIStepBase, SaveKeeps
<1>4. ASSUME NEW t \in Tasks, ToggleFromElsewhere(t) PROVE UNCHANGED <<editor, entered>>
  BY <1>4 DEF ToggleFromElsewhere, Order
<1> QED
  BY <1>1, <1>2, <1>3, <1>4 DEF Next, vars

(* What ToDto renders is the window itself, unless it is a monthly one.    *)
LEMMA RenderedWindows ==
    ASSUME NEW kept \in Seq(Triggers)
    PROVE  LET plan == [i \in DOMAIN kept |-> ToDto(kept[i])]
           IN  /\ Len(plan) = Len(kept)
               /\ \A i \in DOMAIN kept : kept[i] = "monthly" \/ plan[i] = kept[i]
<1> DEFINE plan == [i \in DOMAIN kept |-> ToDto(kept[i])]
<1>1. Len(kept) \in Nat /\ DOMAIN kept = 1..Len(kept)
  BY LenProperties
<1>2. Len(plan) = Len(kept)
  BY <1>1
<1>3. ASSUME NEW i \in DOMAIN kept PROVE kept[i] = "monthly" \/ plan[i] = kept[i]
  <2>1. kept[i] \in Kinds
    BY <1>1, ElementOfSeq, EditorAssumption
  <2> QED
    BY <2>1 DEF Kinds, ToDto
<1> QED
  BY <1>2, <1>3

(* Open and save (LoadExistingAsync, SaveBtn_Click, the handler of         *)
(* UpdateTask), without an edit and without anybody in between, leaves the *)
(* schedule as it was, but for monthly windows.                            *)
THEOREM UntouchedSavesKeepTheSchedule == Spec => UntouchedSaveKeepsSchedule
<1> DEFINE Kept(r) ==
      LET stored == Triggered(time_windows'[request[r].task])
          kept   == entered[r].kept
      IN  /\ Len(stored) = Len(kept)
          /\ \A i \in DOMAIN kept : kept[i] = "monthly" \/ stored[i] = kept[i]
<1>1. Init => SaveSound /\ BaseSound /\ KeptSound
  BY SaveInit DEF Init, BaseSound, KeptSound, Closed, NotEntered
<1>2. Typed /\ SaveSound /\ BaseSound /\ KeptSound /\ [Next]_vars =>
        SaveSound' /\ BaseSound' /\ KeptSound'
  BY SaveStep, KeptStep
<1>3. Typed /\ SaveSound /\ KeptSound /\ [Next]_vars =>
        [\A r \in Requests : Finished(r) /\ entered[r].kept # None => Kept(r)]_vars
  <2> SUFFICES ASSUME Typed, SaveSound, KeptSound, [Next]_vars,
                      NEW r \in Requests, Finished(r), entered[r].kept # None
               PROVE  Kept(r)
    OBVIOUS
  <2> DEFINE kept == entered[r].kept
  <2>1. kept \in Seq(Triggers)
    BY DEF Typed, FrontTyped
  <2>2. Triggered(time_windows'[request[r].task]) = [i \in DOMAIN kept |-> ToDto(kept[i])]
    BY FinishedStep DEF KeptSound
  <2> QED
    BY <2>1, <2>2, RenderedWindows
<1> QED
  BY <1>1, <1>2, <1>3, AlwaysTyped, PTL DEF Spec, UntouchedSaveKeepsSchedule
=============================================================================
