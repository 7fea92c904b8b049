----------------------------- MODULE RunJournal -----------------------------
(***************************************************************************)
(* What the table run_history promises of the processes the scheduler      *)
(* launches, without the scheduler: a run is journaled before its process  *)
(* is launched, its record gets one verdict, "Completed" is said of a      *)
(* process that has exited, and a record goes only with its task.          *)
(*                                                                         *)
(* A record is found again by its task and its start time, in whole        *)
(* seconds, so the promise cannot tell apart two runs that share both.     *)
(***************************************************************************)
CONSTANTS
    Runs,
    Tasks,
    Seconds,   \* start times
    None       \* the task of a run that has not begun

VARIABLES
    origin,    \* <<task, second>> of each run
    journal,   \* its record: "none" before it begins, "Running", a verdict,
               \* "erased" with its task
    process    \* "none", "alive", "exited"

vars == <<origin, journal, process>>

Init ==
    /\ origin = [r \in Runs |-> <<None, 0>>]
    /\ journal = [r \in Runs |-> "none"]
    /\ process = [r \in Runs |-> "none"]

(* The runs a record found by origin may be about: r, and its twins.       *)
SameOrigin(r) == {q \in Runs : origin[q] = origin[r]}

HasTwin(r) == SameOrigin(r) # {r}

Begin(r, t, s) ==
    /\ journal[r] = "none"
    /\ origin' = [origin EXCEPT ![r] = <<t, s>>]
    /\ journal' = [journal EXCEPT ![r] = "Running"]
    /\ UNCHANGED process

Launch(r) ==
    /\ journal[r] \in {"Running", "erased"}
    /\ process[r] = "none"
    /\ process' = [process EXCEPT ![r] = "alive"]
    /\ UNCHANGED <<origin, journal>>

Exit(r) ==
    /\ process[r] = "alive"
    /\ process' = [process EXCEPT ![r] = "exited"]
    /\ UNCHANGED <<origin, journal>>

(* The first verdict is the last one, unless a twin's was taken for it.    *)
Verdict(r, verdict) ==
    /\ \/ journal[r] = "Running"
       \/ journal[r] \in {"Completed", "Timeout"} /\ HasTwin(r)
    /\ verdict = "Completed" => \E q \in SameOrigin(r) : process[q] = "exited"
    /\ journal' = [journal EXCEPT ![r] = verdict]
    /\ UNCHANGED <<origin, process>>

Erase(t) ==
    /\ journal' = [r \in Runs |-> IF journal[r] # "none" /\ origin[r][1] = t
                                  THEN "erased" ELSE journal[r]]
    /\ UNCHANGED <<origin, process>>

Next ==
    \/ \E r \in Runs :
        \/ \E t \in Tasks, s \in Seconds : Begin(r, t, s)
        \/ Launch(r) \/ Exit(r)
        \/ \E verdict \in {"Completed", "Timeout"} : Verdict(r, verdict)
    \/ \E t \in Tasks : Erase(t)

Spec == Init /\ [][Next]_vars
=============================================================================
