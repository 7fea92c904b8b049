-------------------------------- MODULE Json --------------------------------
(***************************************************************************)
(* The JSON of the service (json.cpp): how values are written, and the     *)
(* tolerant parser that reads them.                                        *)
(*                                                                         *)
(* A text is a sequence of units: a character, one of the words true,      *)
(* false and null, the four hex digits after \u, or, at the end of a text  *)
(* that was cut, the first of these digits.  A value is a tuple:           *)
(* <<"null">>, <<"bool", b>>, <<"number", its digits>>, <<"string", s>>,   *)
(* <<"array", values>> or <<"object", its members, a set of pairs>>.       *)
(* Numbers are integers, there are no others in the protocol, and nobody   *)
(* writes white space.                                                     *)
(*                                                                         *)
(* Recursion is over the depth of values in the printer and over the depth *)
(* of calls in the parser, so that both are functions.                     *)
(***************************************************************************)
EXTENDS Naturals, Sequences, SequencesExt, FiniteSetsExt

CONSTANTS
    Characters,  \* what strings are made of
    Depth        \* how deep values are nested

\* "end" stands for the end of a text.
ASSUME CharactersAssumption == "end" \notin Characters

ASSUME DepthAssumption == Depth \in Nat

Digits == {"0", "1", "2"}

(* Characters of more than one byte in UTF-8, and control characters, with *)
(* their code.  "high" and "low" are the halves of a character beyond 16   *)
(* bits: the front end holds and writes both, the parser makes three bytes *)
(* of each (no UTF-8, but escape turns them into the halves again).        *)
Code == [eacute |-> "00e9", control |-> "0001", high |-> "d83d", low |-> "de00"]

QuoteCode == "0022"

(* What may be left of a code that is cut.                                 *)
CutCode(code) ==
    CASE code = "00e9" -> {"0", "00", "00e"}
      [] code = "0001" -> {"0", "00", "000"}
      [] code = "d83d" -> {"d", "d8", "d83"}
      [] code = "de00" -> {"d", "de", "de0"}
      [] code = "0022" -> {"0", "00", "002"}
      [] OTHER         -> {}

Decoded == [code \in {Code[c] : c \in DOMAIN Code} \cup {QuoteCode} |->
                IF code = QuoteCode THEN "\"" ELSE CHOOSE c \in DOMAIN Code : Code[c] = code]

Backslash(c) == IF c = "newline" THEN "n" ELSE c

Backslashed(next) == IF next = "n" THEN "newline" ELSE next
-----------------------------------------------------------------------------
(***************************************************************************)
(* Values.                                                                 *)
(***************************************************************************)
\* Integers, as to_string prints them.
Numerals ==
    {s \in Seq(Digits \cup {"-"}) :
        /\ s # <<>> /\ s[Len(s)] \in Digits /\ s # <<"-", "0">>
        /\ \A i \in 1..Len(s) : s[i] = "-" => i = 1
        /\ \A i \in 1..(Len(s) - 1) : s[i] = "0" => \E j \in 1..i : s[j] \in Digits \ {"0"}}

Leaves ==
    {<<"null">>} \cup ({"bool"} \X BOOLEAN) \cup ({"number"} \X Numerals)
        \cup ({"string"} \X Seq(Characters))

\* An Object is an unordered_map: one value for each key.
Objects(V) ==
    {members \in SUBSET (Seq(Characters) \X V) :
        IsFiniteSet(members) /\ \A m1, m2 \in members : m1[1] = m2[1] => m1 = m2}

JsonValues[n \in 0..Depth] ==
    IF n = 0 THEN Leaves
    ELSE Leaves \cup ({"array"} \X Seq(JsonValues[n - 1]))
                \cup ({"object"} \X Objects(JsonValues[n - 1]))
-----------------------------------------------------------------------------
(***************************************************************************)
(* Writing.                                                                *)
(***************************************************************************)
(* A mutation of Escape: only quotes are escaped.                          *)
EscapeQuotes(c, writer) == IF c = "\"" THEN <<"\\", c>> ELSE <<c>>

(* The service escapes a quote with a backslash, the front end's           *)
(* JsonSerializer with its code.                                           *)
Escape(c, writer) ==
    CASE c = "\"" /\ writer = "ui"         -> <<"\\", "u", QuoteCode>>
      [] c \in {"\"", "\\", "newline"}
         /\ ~(c = "\"" /\ writer = "ui")   -> <<"\\", Backslash(c)>>
      [] c \in DOMAIN Code                 -> <<"\\", "u", Code[c]>>
      [] OTHER                             -> <<c>>

Quoted(s, writer) ==
    <<"\"">> \o FlattenSeq([i \in DOMAIN s |-> Escape(s[i], writer)]) \o <<"\"">>

Separated(texts) ==
    FlattenSeq([i \in DOMAIN texts |-> IF i = 1 THEN texts[i] ELSE <<",">> \o texts[i]])

OneOfEach(sets) ==
    {list \in [DOMAIN sets -> UNION Range(sets)] : \A i \in DOMAIN sets : list[i] \in sets[i]}

Member(key, text, writer) == Quoted(key, writer) \o <<":">> \o text

(* The texts of a value, given those of the values inside it: an           *)
(* unordered_map has its members in any order.                             *)
Texts(v, inside, writer) ==
    CASE v[1] = "null"   -> {<<"null">>}
      [] v[1] = "bool"   -> {IF v[2] THEN <<"true">> ELSE <<"false">>}
      [] v[1] = "number" -> {v[2]}
      [] v[1] = "string" -> {Quoted(v[2], writer)}
      [] v[1] = "array"  ->
            {<<"[">> \o Separated(list) \o <<"]">> :
                list \in OneOfEach([i \in DOMAIN v[2] |-> inside[v[2][i]]])}
      [] v[1] = "object" ->
            UNION {{<<"{">> \o Separated(list) \o <<"}">> :
                      list \in OneOfEach([i \in DOMAIN order |->
                          {Member(order[i][1], text, writer) : text \in inside[order[i][2]]}])} :
                   order \in SetToSeqs(v[2])}

Serialize(value, writer) ==
    LET Written[n \in 0..Depth] ==
          [v \in JsonValues[n] |-> Texts(v, IF n = 0 THEN <<>> ELSE Written[n - 1], writer)]
    IN  Written[Depth][value]
-----------------------------------------------------------------------------
(***************************************************************************)
(* Reading.  Each operator takes the text and a position, and returns what *)
(* it made of the text and the position it came to; "further" are the      *)
(* routines it calls further on in the text.                               *)
(***************************************************************************)
Peek(text, pos) == IF pos <= Len(text) THEN text[pos] ELSE "end"

Got(value, pos) == [value |-> value, pos |-> pos]

Expect(text, pos, c) == IF Peek(text, pos) = c THEN pos + 1 ELSE pos

(* The end of the text ends a string; an incomplete escape leaves what     *)
(* there is of it in the string.                                           *)
RestOfString(text, pos, further) ==
    LET c    == Peek(text, pos)
        next == Peek(text, pos + 1)
        code == Peek(text, pos + 2)
        After(char, rest) == Got(<<char>> \o rest.value, rest.pos)
    IN
    CASE c \in {"end", "\""} -> Got(<<>>, Expect(text, pos, "\""))
      [] c = "\\" /\ next = "u" ->
            IF code \in DOMAIN Decoded THEN After(Decoded[code], further["string"][pos + 3])
            ELSE further["string"][pos + 2]
      [] c = "\\" /\ next \notin {"u", "end"} ->
            After(Backslashed(next), further["string"][pos + 2])
      [] OTHER -> After(c, further["string"][pos + 1])

ParseString(text, pos, further) ==
    IF Peek(text, pos) = "\"" THEN further["string"][pos + 1] ELSE Got(<<>>, pos)

(* No digits, no error: 0.                                                 *)
ParseNumber(text, pos) ==
    LET start == Expect(text, pos, "-")
        end   == Min({q \in start..(Len(text) + 1) : Peek(text, q) \notin Digits})
    IN  Got(<<"number", IF end = start THEN <<"0">> ELSE SubSeq(text, pos, end - 1)>>, end)

(* parse_number makes 0 or 2 of the digits that are left of a cut code ("0"*)
(* is a digit like any other, and those that begin with d are none).       *)
ParseValue(text, pos, further) ==
    LET c == Peek(text, pos) IN
    CASE c = "\""           -> LET s == ParseString(text, pos, further)
                               IN  Got(<<"string", s.value>>, s.pos)
      [] c = "{"            -> IF Peek(text, pos + 1) = "}" THEN Got(<<"object", {}>>, pos + 2)
                               ELSE further["members"][pos + 1]
      [] c = "["            -> IF Peek(text, pos + 1) = "]" THEN Got(<<"array", <<>>>>, pos + 2)
                               ELSE further["elements"][pos + 1]
      [] c \in {"t", "f"}   -> Got(<<"bool", FALSE>>, pos)
      [] c \in {"true", "false"} -> Got(<<"bool", c = "true">>, pos + 1)
      [] c = "null"         -> Got(<<"null">>, pos + 1)
      [] c \in {"n", "end"} -> Got(<<"null">>, pos)
      [] c \in {"00", "000", "00e"} -> Got(<<"number", <<"0">>>>, pos + 1)
      [] c = "002"          -> Got(<<"number", <<"2">>>>, pos + 1)
      [] OTHER              -> ParseNumber(text, pos)

(* A mutation of HasValue: the end of the text does for the colon.         *)
HasValueOrEnds(text, pos) == Peek(text, pos) \in {":", "end"}

HasValue(text, pos) == Peek(text, pos) = ":"

(* The members of an object, until something is missing; of two with the   *)
(* same key the later counts.                                              *)
Members(text, pos, further) ==
    LET key  == ParseString(text, pos, further)
        v    == further["value"][key.pos + 1]
        rest == further["members"][v.pos + 1]
        With(others) ==
            others \cup {m \in {<<key.value, v.value>>} : \A o \in others : o[1] # m[1]}
    IN
    IF pos > Len(text) \/ ~HasValue(text, key.pos)
    THEN Got(<<"object", {}>>, Expect(text, key.pos, "}"))
    ELSE IF Peek(text, v.pos) = ","
    THEN Got(<<"object", With(rest.value[2])>>, rest.pos)
    ELSE Got(<<"object", With({})>>, Expect(text, v.pos, "}"))

(* The elements of an array, until one of them is no progress.             *)
Elements(text, pos, further) ==
    LET v    == ParseValue(text, pos, further)
        rest == further["elements"][v.pos + 1]
    IN
    IF pos > Len(text) THEN Got(<<"array", <<>>>>, pos)
    ELSE IF v.pos # pos /\ Peek(text, v.pos) = ","
    THEN Got(<<"array", <<v.value>> \o rest.value[2]>>, rest.pos)
    ELSE Got(<<"array", <<v.value>>>>, Expect(text, v.pos, "]"))

(* No call comes back to the position of another one that it is part of:   *)
(* as many calls as the text is long, and one, are enough.                 *)
Reading(text) ==
    LET Read[n \in 0..(Len(text) + 1)] ==
          IF n = 0 THEN [routine \in {"string", "value", "members", "elements"} |->
                            [pos \in Nat |-> Got(<<"null">>, pos)]]
          ELSE [string   |-> [pos \in Nat |-> RestOfString(text, pos, Read[n - 1])],
                value    |-> [pos \in Nat |-> ParseValue(text, pos, Read[n - 1])],
                members  |-> [pos \in Nat |-> Members(text, pos, Read[n - 1])],
                elements |-> [pos \in Nat |-> Elements(text, pos, Read[n - 1])]]
    IN  Read

Parse(text) == Reading(text)[Len(text) + 1]["value"][1].value
=============================================================================
