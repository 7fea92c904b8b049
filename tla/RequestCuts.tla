---------------------------- MODULE RequestCuts -----------------------------
(***************************************************************************)
(* What may become of a request that is cut.                               *)
(***************************************************************************)
EXTENDS RequestPath

CutCodes == UNION {CutCode(code) : code \in DOMAIN Decoded}

\* The words are units of their own, and the rests of an escape characters.
ASSUME CutAssumption ==
    /\ {"true", "false", "null"} \cap Characters = {}
    /\ {"\\"} \cup CutCodes \subseteq Characters

Nothing == {<<"null">>, <<"bool", FALSE>>, <<"number", <<"0">>>>}

(* What is read of a string's opening quote, cut in the code 0022 it has   *)
(* in the request.                                                         *)
Two == <<"number", <<"2">>>>

(* What may be left of an escape that is cut.                              *)
Rests == {<<>>, <<"\\">>} \cup {<<rest>> : rest \in CutCodes}

(* The beginning of a string, and of a number.                             *)
StringPieces(s) == UNION {{<<"string", SubSeq(s, 1, k) \o rest>> : rest \in Rests} : k \in 0..Len(s)}

NumberPieces(s) == {<<"number", SubSeq(s, 1, k)>> : k \in {i \in DOMAIN s : s[i] \in Digits}}

(* The first elements of an array, of the last one perhaps only a part.    *)
ElementParts(vs, k, parts) == {<<"array", Append(SubSeq(vs, 1, k - 1), p)>> : p \in parts}

ArrayPieces(vs, inside) ==
    {<<"array", SubSeq(vs, 1, k)>> : k \in 0..Len(vs)} \cup
    UNION {ElementParts(vs, k, inside[vs[k]]) : k \in DOMAIN vs}

(* Some members of an object, and perhaps a part of another.               *)
MoreMembers(some, key, parts) == {some \cup {<<key, p>>} : p \in parts}

SomeMembers(members, inside, some) ==
    {some} \cup UNION {MoreMembers(some, m[1], inside[m[2]]) : m \in members \ some}

ObjectPieces(members, inside) ==
    {"object"} \X UNION {SomeMembers(members, inside, some) : some \in SUBSET members}

(* What a cut may make of a value, given what it may make of the values    *)
(* inside it: all of it, nothing, or a piece.                              *)
Parts(v, inside) ==
    {v} \cup Nothing \cup
    CASE v[1] = "string" -> StringPieces(v[2]) \cup {Two}
      [] v[1] = "number" -> NumberPieces(v[2])
      [] v[1] = "array"  -> ArrayPieces(v[2], inside)
      [] v[1] = "object" -> ObjectPieces(v[2], inside)
      [] OTHER           -> {}

PartsOf(v) ==
    LET Cut[n \in 0..Depth] ==
          [u \in JsonValues[n] |-> Parts(u, IF n = 0 THEN <<>> ELSE Cut[n - 1])]
    IN  Cut[Depth][v]

(* Wherever a message is cut, the parser comes to an end, and the cut      *)
(* damages only the value it falls into: no member or element that was not *)
(* sent, an array without gaps, of an object at most one member that is    *)
(* not complete.  The value itself may come out as null, false or 0; a     *)
(* number may lose digits, a string its end, which may then be the rest of *)
(* an escape; or the number 2 stands where a string began.  A request      *)
(* whose action is cut has no payload it could act on.                     *)
CutIsConfined ==
    /\ stage = "done" => result \in PartsOf(value)
    /\ stage = "read" => action = Action \/ text = <<>>
=============================================================================
