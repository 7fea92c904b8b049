------------------------------ MODULE Exchange ------------------------------
(***************************************************************************)
(* What the pipe promises the caller of SendAsync, without the pipe: a     *)
(* request is executed at most once, and only if it was sent; an answer is *)
(* given only to what was executed; and a call that has returned, with an  *)
(* answer or with an error, is settled: its request will not be executed   *)
(* any more.  An error does not say whether it has been.                   *)
(***************************************************************************)
CONSTANT Calls

VARIABLES
    caller,    \* of each call: "idle", "waiting", "returned", "gone"
    request    \* its request: "unsent", "sent", "executing", "answered", "over"

vars == <<caller, request>>

Settled == {"answered", "over"}

Init ==
    /\ caller = [c \in Calls |-> "idle"]
    /\ request = [c \in Calls |-> "unsent"]

(* A request that is not sent yet never is, once its caller has left.      *)
Leave(c, way) ==
    /\ caller[c] = "waiting"
    /\ caller' = [caller EXCEPT ![c] = way]
    /\ request' = [request EXCEPT ![c] = IF @ = "unsent" THEN "over" ELSE @]

Call(c) ==
    /\ caller[c] = "idle"
    /\ caller' = [caller EXCEPT ![c] = "waiting"]
    /\ UNCHANGED request

Return(c) ==
    /\ request[c] \in {"unsent"} \cup Settled
    /\ Leave(c, "returned")

(* The caller is closed, and does not take its request back.               *)
Abandon(c) == Leave(c, "gone")

Progress(c, from, to) ==
    /\ request[c] = from
    /\ request' = [request EXCEPT ![c] = to]
    /\ UNCHANGED caller

Send(c) == caller[c] = "waiting" /\ Progress(c, "unsent", "sent")

Execute(c) == Progress(c, "sent", "executing")

Answer(c) == Progress(c, "executing", "answered")

(* Connections are lost at any time, and many at once.                     *)
Lose(lost) ==
    /\ request' = [c \in Calls |-> IF c \in lost /\ request[c] \notin Settled
                                   THEN "over" ELSE request[c]]
    /\ UNCHANGED caller

Next ==
    \/ \E c \in Calls :
        Call(c) \/ Send(c) \/ Execute(c) \/ Answer(c) \/ Return(c) \/ Abandon(c)
    \/ \E lost \in SUBSET Calls : Lose(lost)

Spec == Init /\ [][Next]_vars
=============================================================================
