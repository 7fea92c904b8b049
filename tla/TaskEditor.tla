----------------------------- MODULE TaskEditor -----------------------------
(***************************************************************************)
(* The front end on top of TaskStore: main windows that list the tasks,    *)
(* and the editor window each may open (MainWindow.xaml.cs,                *)
(* TaskEditorWindow.xaml.cs).  An editor loads a task with two requests,   *)
(* and while it waits for either the user may edit, save and cancel.  Its  *)
(* Save button stays enabled while a save is under way, and a save is      *)
(* awaited even when its editor has been closed.                           *)
(***************************************************************************)
EXTENDS TaskStore, SequencesExt

CONSTANTS
    UIs,           \* instances of the front end
    Chosen,        \* the kinds of trigger the user picks in the dialog
    MaxTriggers    \* bound: windows in one editor

(* A stored window, told apart by what it says about dates; "empty" has    *)
(* neither times nor dates.  "once" exists in an editor only.              *)
Kinds == {"dated", "empty", "daily", "weekly", "monthly", "interval"}

EditKinds == Kinds \cup {"once"}

ASSUME EditorAssumption ==
    /\ Triggers = Kinds
    /\ Chosen \subseteq EditKinds
    /\ MaxTriggers \in Nat
    /\ None \notin BOOLEAN \cup Seq(Kinds)

VARIABLES
    seen,      \* the main window's list: column enabled of each task it shows
    editor,    \* the editor window of each front end
    (* history variable, read by properties only *)
    entered    \* what the editor showed when a request was sent

vars == <<storeVars, seen, editor, entered>>

Editor ==
    [phase   : {"closed", "opening", "fields", "loaded", "failed"},
     subject : Option(Tasks),            \* _existing, None for a new task
     enabled : BOOLEAN,                  \* _existing.Enabled
     kill    : BOOLEAN,                  \* KillOnTimeoutBox
     list    : Seq(EditKinds),           \* _windows
     asked   : SUBSET Requests,          \* saves it waits for
     stray   : SUBSET Requests,          \* saves of editors closed since
     base    : Seq(Window) \cup {None}]  \* what it loaded, if nothing was edited

Closed == [phase |-> "closed", subject |-> None, enabled |-> TRUE, kill |-> FALSE,
           list |-> <<>>, asked |-> {}, stray |-> {}, base |-> None]

NotEntered == [kill |-> FALSE, list |-> <<>>, kept |-> None]

Init ==
    /\ StoreInit
    /\ seen = [u \in UIs |-> [t \in Tasks |-> IF t \in Existing THEN TRUE ELSE None]]
    /\ editor = [u \in UIs |-> Closed]
    /\ entered = [r \in Requests |-> NotEntered]

IsOpen(u) == editor[u].phase # "closed"

(* What is left of an editor that is closed: the saves it waits for.       *)
Dismissed(e) == [Closed EXCEPT !.stray = e.stray \cup e.asked]
-----------------------------------------------------------------------------
(***************************************************************************)
(* The main window.                                                        *)
(***************************************************************************)
(* Refresh reads the tasks and the windows of each of them.  The days of a *)
(* weekly window come by their names, which its deserializer does not      *)
(* take: the exception ends in the status bar and the list stays as it     *)
(* was, here as long as such a window exists (a main window that shows the *)
(* task read it before).                                                   *)
Summarised(t) == "weekly" \notin ToSet(Triggered(time_windows[t]))

Refresh(u) ==
    /\ ~IsOpen(u)
    /\ \A t \in Tasks : tasks[t] # None => Summarised(t)
    /\ seen' = [seen EXCEPT ![u] =
                   [t \in Tasks |-> IF tasks[t] = None THEN None ELSE tasks[t].enabled]]
    /\ UNCHANGED <<storeVars, editor, entered>>

OpenNew(u) ==
    /\ ~IsOpen(u)
    /\ \E kill \in BOOLEAN :
          editor' = [editor EXCEPT ![u] =
                        [Dismissed(@) EXCEPT !.phase = "loaded", !.kill = kill]]
    /\ UNCHANGED <<storeVars, seen, entered>>

OpenEditor(u, t) ==
    /\ ~IsOpen(u)
    /\ seen[u][t] # None
    /\ editor' = [editor EXCEPT ![u] =
                     [Dismissed(@) EXCEPT !.phase = "opening", !.subject = t,
                                          !.enabled = seen[u][t]]]
    /\ UNCHANGED <<storeVars, seen, entered>>

(* A request without a payload of interest: DeleteTask of a selected task, *)
(* EnableTask and DisableTask of some other client.                        *)
Order(r, action, t) ==
    /\ Send(r, [action |-> action, task |-> t, plan |-> <<>>,
                row |-> [enabled |-> TRUE, kill_on_timeout |-> FALSE]])
    /\ UNCHANGED <<seen, editor, entered>>

DeleteSelected(u, t) ==
    /\ ~IsOpen(u)
    /\ seen[u][t] # None
    /\ \E r \in Requests : Order(r, "DeleteTask", t)

ToggleFromElsewhere(t) ==
    \E r \in Requests, action \in {"EnableTask", "DisableTask"} : Order(r, action, t)
-----------------------------------------------------------------------------
(***************************************************************************)
(* LoadExistingAsync: GetTask, then GetTimeWindows.                        *)
(***************************************************************************)
LoadTask(u) ==
    LET t == editor[u].subject IN
    /\ editor[u].phase = "opening"
    /\ editor' =
        [editor EXCEPT ![u] =
            IF tasks[t] = None THEN [@ EXCEPT !.phase = "failed"]
            ELSE [@ EXCEPT !.phase = "fields", !.kill = tasks[t].kill_on_timeout]]
    /\ UNCHANGED <<storeVars, seen, entered>>

LoadWindows(u) ==
    /\ editor[u].phase = "fields"
    /\ LET stored == time_windows[editor[u].subject] IN
       editor' =
        [editor EXCEPT ![u] =
            [@ EXCEPT !.phase = "loaded",
                      !.list = editor[u].list \o Triggered(stored),
                      !.base = IF editor[u].list = <<>> THEN stored ELSE None]]
    /\ UNCHANGED <<storeVars, seen, entered>>

LoadFails(u) ==
    /\ editor[u].phase \in {"opening", "fields"}
    /\ faults < MaxFaults
    /\ faults' = faults + 1
    /\ editor' = [editor EXCEPT ![u].phase = "failed"]
    /\ UNCHANGED <<store, threads, history, seen, entered>>
-----------------------------------------------------------------------------
(***************************************************************************)
(* Editing, and the way back: SaveBtn_Click.                               *)
(***************************************************************************)
Edit(u, list) ==
    /\ editor' = [editor EXCEPT ![u].list = list, ![u].base = None]
    /\ UNCHANGED <<storeVars, seen, entered>>

AddTrigger(u, kind) ==
    /\ IsOpen(u)
    /\ Len(editor[u].list) < MaxTriggers
    /\ Edit(u, Append(editor[u].list, kind))

RemoveTrigger(u, i) ==
    /\ IsOpen(u)
    /\ Edit(u, RemoveAt(editor[u].list, i))

(* EditTimeWindow: the row becomes what the dialog says, whatever it was.  *)
ReplaceTrigger(u, i, kind) ==
    /\ IsOpen(u)
    /\ Edit(u, [editor[u].list EXCEPT ![i] = kind])

(* A mutation of ToDto: SelectedDays not sent.                             *)
ToDtoWithoutDays(kind) == IF kind \in {"weekly", "monthly"} THEN "daily" ELSE kind

(* The TimeWindowDto of a row of the list.  The dialog's OnceDate and      *)
(* OnceTime reach no field of it, and DaysOfMonth is never set.            *)
ToDto(kind) ==
    CASE kind = "once"    -> "empty"
      [] kind = "monthly" -> "daily"
      [] OTHER            -> kind

(* A mutation of Target: the empty id of a new task is used as it is.      *)
TargetAsSent(u) == {editor[u].subject}

(* A new task's id is drawn by the service: it is a fresh GUID.            *)
Target(u) == IF editor[u].subject = None THEN Tasks \ used ELSE {editor[u].subject}

Save(u) ==
    /\ IsOpen(u)
    /\ \E r \in Requests, t \in Target(u) :
        LET e == editor[u] IN
        /\ Send(r, [action |-> IF e.subject = None THEN "CreateTask" ELSE "UpdateTask",
                    task |-> t,
                    row |-> [enabled |-> e.enabled, kill_on_timeout |-> e.kill],
                    plan |-> [i \in DOMAIN e.list |-> ToDto(e.list[i])]])
        /\ editor' = [editor EXCEPT ![u].asked = @ \cup {r}]
        /\ entered' = [entered EXCEPT ![r] =
                          [kill |-> e.kill, list |-> e.list,
                           kept |-> IF e.base # None /\ e.base = time_windows[t]
                                    THEN Triggered(e.base) ELSE None]]
    /\ UNCHANGED seen

(* Success closes the editor, an error leaves it open for another try.     *)
Answered(u, r) ==
    /\ r \in editor[u].asked
    /\ answer[r] # "none"
    /\ LET rest == [editor[u] EXCEPT !.asked = @ \ {r}] IN
       editor' = [editor EXCEPT ![u] = IF answer[r] = "ok" THEN Dismissed(rest) ELSE rest]
    /\ UNCHANGED <<storeVars, seen, entered>>

(* The answer to a save whose editor is closed: an error is shown in a     *)
(* message box, success sets the DialogResult of a window that is no       *)
(* dialog any more.  Nobody catches that exception, and the front end      *)
(* ends, whatever editor it has open; until it is refreshed again it lists *)
(* nothing.                                                                *)
StrayAnswered(u, r) ==
    /\ r \in editor[u].stray
    /\ \/ /\ answer[r] = "ok"
          /\ editor' = [editor EXCEPT ![u] = Closed]
          /\ seen' = [seen EXCEPT ![u] = [t \in Tasks |-> None]]
       \/ /\ answer[r] = "error"
          /\ editor' = [editor EXCEPT ![u].stray = @ \ {r}]
          /\ UNCHANGED seen
    /\ UNCHANGED <<storeVars, entered>>

Cancel(u) ==
    /\ IsOpen(u)
    /\ editor' = [editor EXCEPT ![u] = Dismissed(@)]
    /\ UNCHANGED <<storeVars, seen, entered>>
-----------------------------------------------------------------------------
(* Bound: an editor that can send nothing any more is only answered.       *)
UIStep(u) ==
    \/ /\ sent < MaxRequests
       /\ \/ Refresh(u) \/ OpenNew(u) \/ LoadTask(u) \/ LoadWindows(u) \/ LoadFails(u)
          \/ \E t \in Tasks : OpenEditor(u, t) \/ DeleteSelected(u, t)
          \/ \E kind \in Chosen : AddTrigger(u, kind)
          \/ \E i \in DOMAIN editor[u].list :
                \/ RemoveTrigger(u, i)
                \/ \E kind \in Chosen : ReplaceTrigger(u, i, kind)
          \/ Save(u) \/ Cancel(u)
    \/ \E r \in Requests : Answered(u, r) \/ StrayAnswered(u, r)

Next ==
    \/ StoreStep /\ UNCHANGED <<seen, editor, entered>>
    \/ \E u \in UIs : UIStep(u)
    \/ \E t \in Tasks : ToggleFromElsewhere(t)

Spec == Init /\ [][Next]_vars
-----------------------------------------------------------------------------
(***************************************************************************)
(* Properties.                                                             *)
(***************************************************************************)
(* Type invariant.                                                         *)
TypeOK ==
    /\ tasks \in [Tasks -> Option(Row)]
    /\ used \in SUBSET Tasks
    /\ time_windows \in [Tasks -> Seq(Window)]
    /\ sent \in 0..MaxRequests
    /\ request \in [Requests -> Request \cup {Idle}]
    /\ pc \in [Requests -> {"unsent", "row", "clear", "insert", "done"}]
    /\ todo \in [Requests -> Seq(Triggers)]
    /\ answer \in [Requests -> {"none", "ok", "error"}]
    /\ faults \in 0..MaxFaults
    /\ lone \in SUBSET Requests
    /\ standing \in [Tasks -> Option(Requests)]
    /\ seen \in [UIs -> [Tasks -> Option(BOOLEAN)]]
    /\ editor \in [UIs -> Editor]
    /\ entered \in [Requests -> [kill : BOOLEAN, list : Seq(EditKinds),
                                 kept : Seq(Triggers) \cup {None}]]

(* No window outlives its task, whatever saves are under way when the task *)
(* is deleted: the scheduler would run a schedule nobody can see or edit.  *)
WindowsBelongToTasks ==
    \A t \in Tasks : tasks[t] = None => time_windows[t] = <<>>

(* A save that nothing overlaps and that is answered ok is whole: the row  *)
(* and the windows of the task are those of the request, no more, no less. *)
(* (An update of a task that is gone is also answered ok if it has no      *)
(* windows.)                                                               *)
Finished(r) ==
    /\ answer[r] = "none" /\ answer'[r] = "ok"
    /\ request[r].action \in Saves
    /\ r \in lone
    /\ tasks[request[r].task] # None

SaveIsWhole ==
    [][\A r \in Requests : Finished(r) =>
          /\ Triggered(time_windows'[request[r].task]) = request[r].plan
          /\ tasks'[request[r].task] = FromJson(request[r].row)]_vars

(* What is left of the windows r inserted, in the order they stand.        *)
InsertedBy(r, windows) ==
    LET taken[n \in 0..Len(windows)] ==
            IF n = 0 THEN <<>>
            ELSE IF windows[n].by = r THEN Append(taken[n - 1], windows[n].trigger)
            ELSE taken[n - 1]
    IN  taken[Len(windows)]

(* Under any overlap of saves, failed statements and ends of the service:  *)
(* of the last save that replaced a task's windows, if it was answered ok, *)
(* no window is missing and none is twice, and they are in order.          *)
NothingIsLost ==
    \A t \in Tasks, r \in Requests :
        standing[t] = r /\ answer[r] = "ok" /\ tasks[t] # None =>
            InsertedBy(r, time_windows[t]) = request[r].plan

(* Open and save, without an edit and without anybody in between, leaves   *)
(* the schedule as it was, through both conversions of the editor, the     *)
(* deletion and the insertions.  Monthly windows are the exception: the    *)
(* editor turns them into daily ones (SavedAsEntered).                     *)
UntouchedSaveKeepsSchedule ==
    [][\A r \in Requests : Finished(r) /\ entered[r].kept # None =>
          LET stored == Triggered(time_windows'[request[r].task])
              kept   == entered[r].kept
          IN  /\ Len(stored) = Len(kept)
              /\ \A i \in DOMAIN kept : kept[i] = "monthly" \/ stored[i] = kept[i]]_vars

(* README, the triggers and the settings of a task: what is saved is what  *)
(* the editor shows, a monthly window as a monthly one, a one-time window  *)
(* with its date, and the task's KillOnTimeout.                            *)
Meaning(kind) == IF kind = "once" THEN "dated" ELSE kind

SavedAsEntered ==
    [][\A r \in Requests : Finished(r) =>
          LET t == request[r].task IN
          /\ Triggered(time_windows'[t]) =
                [i \in DOMAIN entered[r].list |-> Meaning(entered[r].list[i])]
          /\ tasks'[t].kill_on_timeout = entered[r].kill]_vars
=============================================================================
