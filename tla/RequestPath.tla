---------------------------- MODULE RequestPath -----------------------------
(***************************************************************************)
(* The way of a request's payload from the front end to the handler: it is *)
(* written as JSON, the text is a string in the request, the request is    *)
(* written as JSON and goes through a pipe of which the service reads at   *)
(* most PIPE_BUFFER_SIZE bytes.  A longer message is cut there, and what   *)
(* is left of it is a request.                                             *)
(***************************************************************************)
EXTENDS Json

CONSTANTS
    Values,      \* what the front end has to say
    Action       \* the action it asks for

ASSUME ValuesAssumption == Values \subseteq JsonValues[Depth]

(* The halves of a character beyond 16 bits.                               *)
Halves == {"high", "low"}

ASSUME ActionAssumption == Action \in Seq(Characters \ Halves)

\* The keys of a request, A for Action and P for Payload.
ASSUME KeysAssumption == {"A", "P"} \subseteq Characters

VARIABLES
    stage,       \* where the payload is
    value,       \* what was meant
    text,        \* the text on its way
    whole,       \* nothing of it is missing
    action,      \* the action the service has read
    result       \* what the service has read

vars == <<stage, value, text, whole, action, result>>

Init ==
    /\ stage = "meant"
    /\ value \in Values
    /\ text = <<>>
    /\ whole = TRUE
    /\ action = <<>>
    /\ result = <<"null">>

WritePayload ==
    /\ stage = "meant" /\ stage' = "payload"
    /\ text' \in Serialize(value, "ui")
    /\ UNCHANGED <<value, whole, action, result>>

(* JsonSerializer writes the properties of IpcRequest as they are declared.*)
Request(payload) ==
    <<"{">> \o Separated(<<Member(<<"A">>, Quoted(Action, "ui"), "ui"),
                          Member(<<"P">>, Quoted(payload, "ui"), "ui")>>) \o <<"}">>

WriteRequest ==
    /\ stage = "payload" /\ stage' = "message"
    /\ text' = Request(text)
    /\ UNCHANGED <<value, whole, action, result>>

(* What is left of a unit that is cut; "t" stands for t, tr and tru, "f"   *)
(* and "n" likewise.                                                       *)
Pieces(unit) ==
    CASE unit = "true"                -> {<<>>, <<"t">>}
      [] unit = "false"               -> {<<>>, <<"f">>}
      [] unit = "null"                -> {<<>>, <<"n">>}
      [] OTHER                        -> {<<>>} \cup {<<rest>> : rest \in CutCode(unit)}

Cuts(message) ==
    UNION {{SubSeq(message, 1, k) \o piece : piece \in Pieces(message[k + 1])}
           : k \in 1..(Len(message) - 1)}

Receive ==
    /\ stage = "message" /\ stage' = "received"
    /\ \/ UNCHANGED <<text, whole>>
       \/ text' \in Cuts(text) /\ whole' = FALSE
    /\ UNCHANGED <<value, action, result>>

(* u2ws: the three bytes that the parser makes of a half are no UTF-8, and *)
(* are replaced.                                                           *)
Wide(s) == [i \in DOMAIN s |-> IF s[i] \in Halves THEN "replaced" ELSE s[i]]

StringMember(object, key) ==
    LET found == {m \in object[2] : m[1] = key /\ m[2][1] = "string"} IN
    IF found = {} THEN <<>> ELSE Wide((CHOOSE m \in found : TRUE)[2][2])

ReadRequest ==
    /\ stage = "received" /\ stage' = "read"
    /\ LET request == Parse(text) IN
       /\ action' = StringMember(request, <<"A">>)
       /\ text' = StringMember(request, <<"P">>)
    /\ UNCHANGED <<value, whole, result>>

ReadPayload ==
    /\ stage = "read" /\ stage' = "done"
    /\ result' = Parse(text)
    /\ UNCHANGED <<value, text, whole, action>>

(* handle_create_task and handle_update_task write the windows they find   *)
(* in the payload again, to parse that; the lists of tasks, windows and    *)
(* runs are put together the same way.                                     *)
ReadAgain ==
    /\ stage = "done"
    /\ \E again \in Serialize(result, "service") : text' = again /\ result' = Parse(again)
    /\ UNCHANGED <<stage, value, whole, action>>

(* What becomes of a value when get_str takes the strings in it, given     *)
(* what becomes of the values inside it; keys are compared as they are.    *)
TakenFrom(v, inside) ==
    CASE v[1] = "string" -> <<"string", Wide(v[2])>>
      [] v[1] = "array"  -> <<"array", [i \in DOMAIN v[2] |-> inside[v[2][i]]]>>
      [] v[1] = "object" -> <<"object", {<<m[1], inside[m[2]]>> : m \in v[2]}>>
      [] OTHER           -> v

Taken(v) ==
    LET Took[n \in 0..Depth] ==
          [u \in JsonValues[n] |-> TakenFrom(u, IF n = 0 THEN <<>> ELSE Took[n - 1])]
    IN  Took[Depth][v]

Take ==
    /\ stage = "done" /\ stage' = "taken"
    /\ result' = Taken(result)
    /\ UNCHANGED <<value, text, whole, action>>

Next ==
    \/ WritePayload \/ WriteRequest \/ Receive
    \/ ReadRequest \/ ReadPayload \/ ReadAgain \/ Take

Spec == Init /\ [][Next]_vars
-----------------------------------------------------------------------------
(* A payload that comes through whole is read as it was meant, through two *)
(* levels of escapes and however often the service writes and reads it     *)
(* again; the handlers get all of it but the characters beyond 16 bits,    *)
(* the halves of which have been replaced.                                 *)
ReadAsMeant ==
    whole => /\ stage \in {"done", "taken"} => action = Action
             /\ stage = "done" => result = value
             /\ stage = "taken" => result = Taken(value)
=============================================================================
