------------------------- MODULE RequestCutsProofs --------------------------
(***************************************************************************)
(* Wherever a message is cut, only the value that the cut falls into is    *)
(* damaged, for any characters, any values and any action.                 *)
(***************************************************************************)
EXTENDS RequestCuts, RequestPathProofs

(* What may be left of a unit that is cut: nothing ("end"), or a unit that *)
(* is the beginning of it.  In a payload, of a unit that was escaped in    *)
(* the request, it may also be the backslash of its escape, or what is     *)
(* left of its code.                                                       *)
Escaped == {"\"", "\\", "newline"} \cup DOMAIN Code

FirstOf(u) ==
    CASE u = "true" -> {"t"} [] u = "false" -> {"f"} [] u = "null" -> {"n"}
      [] OTHER -> CutCode(u)

RestOfCode(u) ==
    IF u = Quote THEN CutCode(QuoteCode) ELSE IF u \in DOMAIN Code THEN CutCode(Code[u]) ELSE {}

RestOf(u) == (IF u \in Escaped THEN {"\\"} ELSE {}) \cup RestOfCode(u)

LeftOf(u, level) == {"end"} \cup FirstOf(u) \cup IF level = "payload" THEN RestOf(u) ELSE {}

Leftovers == {"end", "\\", "t", "f", "n"} \cup CutCodes

(* doc is full, cut at position e, where r is left.                        *)
IsCut(full, doc, e, r) ==
    /\ \A i \in 1..(e - 1) : Peek(doc, i) = Peek(full, i)
    /\ Peek(doc, e) = r /\ Len(doc) = IF r = "end" THEN e - 1 ELSE e

CutAt(full, doc, e, r, level) ==
    IsCut(full, doc, e, r) /\ r \in LeftOf(Peek(full, e), level)

LEMMA CutCodesAre ==
    /\ CutCodes = {"0", "00", "00e", "000", "d", "d8", "d83", "de", "de0", "002"}
    /\ \A u : u \in Codes => CutCode(u) \subseteq CutCodes
    /\ \A u : u \notin Codes => CutCode(u) = {}
<1>1. Codes = {"00e9", "0001", "d83d", "de00", "0022"} /\ DOMAIN Decoded = Codes
  BY CodesAreCodes, CodesAreDecoded
<1>2. /\ CutCode("00e9") = {"0", "00", "00e"} /\ CutCode("0001") = {"0", "00", "000"}
      /\ CutCode("d83d") = {"d", "d8", "d83"} /\ CutCode("de00") = {"d", "de", "de0"}
      /\ CutCode("0022") = {"0", "00", "002"}
  BY DEF CutCode
<1>3. CutCodes = CutCode("00e9") \cup CutCode("0001") \cup CutCode("d83d")
                   \cup CutCode("de00") \cup CutCode("0022")
  BY <1>1 DEF CutCodes
<1>4. \A u : u \notin Codes => CutCode(u) = {}
  BY <1>1 DEF CutCode
<1>5. \A u : u \in Codes => CutCode(u) \subseteq CutCodes
  BY <1>1, <1>3
<1> QED
  BY <1>2, <1>3, <1>4, <1>5

LEMMA LeftoversAreLeft ==
    ASSUME NEW u, NEW level
    PROVE  LeftOf(u, level) \subseteq Leftovers /\ "end" \in LeftOf(u, level)
<1>1. \A code : CutCode(code) \subseteq CutCodes
  BY CutCodesAre
<1>2. FirstOf(u) \subseteq Leftovers
  <2>1. FirstOf(u) \in {{"t"}, {"f"}, {"n"}, CutCode(u)}
    BY Zenon DEF FirstOf
  <2> QED
    BY <1>1, <2>1 DEF Leftovers
<1>3. RestOf(u) \subseteq Leftovers
  <2>1. RestOfCode(u) \subseteq CutCodes
    BY <1>1 DEF RestOfCode
  <2> QED
    BY <2>1 DEF RestOf, Leftovers
<1> QED
  BY <1>2, <1>3 DEF LeftOf, Leftovers

(* Nothing that may be left ends a list or separates its elements.         *)
LEMMA LeftoversAreNoMarks ==
    /\ Comma \notin Leftovers /\ RightBrace \notin Leftovers /\ LeftBrace \notin Leftovers
    /\ Quote \notin Leftovers
    /\ "]" \notin Leftovers /\ "[" \notin Leftovers /\ ":" \notin Leftovers
<1>1. /\ Comma \notin Leftovers /\ RightBrace \notin Leftovers /\ LeftBrace \notin Leftovers
      /\ Quote \notin Leftovers
  BY CutCodesAre, Zenon DEF Leftovers, Comma, RightBrace, LeftBrace, Quote
<1>2. "]" \notin Leftovers /\ "[" \notin Leftovers /\ ":" \notin Leftovers
  BY CutCodesAre DEF Leftovers
<1> QED
  BY <1>1, <1>2

(* Nothing that may be left is a code or stands for a coded character.     *)
LEMMA LeftoversAreUnits ==
    /\ Leftovers \ {"end"} \subseteq Units
    /\ CutCodes \cap (Codes \cup {"n", "u", "end"}) = {}
<1>1. CutCodes \cap (Codes \cup {"n", "u", "end"}) = {}
  BY CutCodesAre, CodesAreCodes
<1>2. {"\\", "t", "f", "n"} \subseteq Units
  BY DEF Units, Marks
<1>3. CutCodes \subseteq Characters \ DOMAIN Code
  <2>1. CutCodes \cap DOMAIN Code = {}
    BY CutCodesAre DEF Code
  <2> QED
    BY <2>1, CutAssumption
<1> QED
  BY <1>1, <1>2, <1>3 DEF Leftovers, Units

(* A mark is one character: a cut leaves all of it or nothing.             *)
LEMMA NothingIsLeftOfMarks ==
    ASSUME NEW u, u \in {Comma, RightBrace, LeftBrace, "]", "[", ":"}, NEW level
    PROVE  LeftOf(u, level) = {"end"}
<1>1. u \notin {"true", "false", "null"} /\ u # Quote
  BY Zenon DEF Comma, RightBrace, LeftBrace, Quote
<1>2. u \notin Codes
  <2>1. u \notin {"00e9", "0001", "d83d", "de00", "0022"}
    BY Zenon DEF Comma, RightBrace, LeftBrace
  <2> QED
    BY <2>1, CodesAreCodes
<1>3. u \notin {"\"", "\\", "newline"}
  BY Zenon DEF Comma, RightBrace, LeftBrace
<1>4. u \notin DOMAIN Code
  <2>1. u \in Marks
    BY Zenon DEF Comma, RightBrace, LeftBrace, Marks
  <2> QED
    BY <2>1, CodedAreNoMarks
<1>5. FirstOf(u) = {}
  BY <1>1, <1>2, CutCodesAre DEF FirstOf
<1>6. RestOf(u) = {}
  BY <1>1, <1>3, <1>4 DEF RestOf, RestOfCode, Escaped
<1> QED
  BY <1>5, <1>6 DEF LeftOf

(* What stands at the cut, and behind it.                                  *)
LEMMA CutEnds ==
    ASSUME NEW full, NEW doc \in Seq(Units), NEW e \in Nat \ {0}, NEW r, IsCut(full, doc, e, r)
    PROVE  /\ Peek(doc, e) = r /\ Peek(doc, e + 1) = "end" /\ Peek(doc, Len(doc) + 1) = "end"
           /\ r = "end" => Len(doc) = e - 1
           /\ r # "end" => Len(doc) = e
           /\ e <= Len(doc) + 1 /\ Len(doc) <= e
<1>1. PICK len \in Nat : len = Len(doc)
  OBVIOUS
<1>2. len = (IF r = "end" THEN e - 1 ELSE e) /\ Peek(doc, e) = r
  BY <1>1 DEF IsCut
<1>3. Peek(doc, len + 1) = "end" /\ Peek(doc, e + 1) = "end"
  BY <1>1, <1>2 DEF Peek
<1> QED
  BY <1>1, <1>2, <1>3

(* What is before the cut stands in both.                                  *)
LEMMA StandsBeforeCut ==
    ASSUME NEW full, NEW doc, NEW e \in Nat \ {0}, NEW r, IsCut(full, doc, e, r),
           NEW pos \in Nat \ {0}, NEW t \in Seq(Units), Stands(full, pos, t), pos + Len(t) <= e
    PROVE  Stands(doc, pos, t)
<1> SUFFICES ASSUME NEW i \in 1..Len(t) PROVE Peek(doc, pos + i - 1) = t[i]
  BY DEF Stands
<1>1. Peek(full, pos + i - 1) = t[i]
  BY DEF Stands
<1>2. PICK j \in 1..(e - 1) : j = pos + i - 1
  OBVIOUS
<1>3. Peek(doc, j) = Peek(full, j)
  BY DEF IsCut
<1> QED
  BY <1>1, <1>2, <1>3

(* Of several values that a routine may come to, which one it is depends   *)
(* on the cut; it stops where nothing is, or what is left there.           *)
CutReads(routine, doc, pos, P) ==
    \A n \in 1..(Len(doc) + 1) :
        Len(doc) + 2 - pos <= n =>
            \E p \in P : \E q \in Nat :
                Reading(doc)[n][routine][pos] = Got(p, q) /\ Peek(doc, q) \in Leftovers

LEMMA SubSeqOfOne ==
    ASSUME NEW U, NEW s \in Seq(U), NEW i \in 1..Len(s)
    PROVE  SubSeq(s, i, i) = <<s[i]>>
<1>1. i \in i..Len(s)
  OBVIOUS
<1>2. SubSeq(s, i, i) = <<s[i]>> \o SubSeq(s, i + 1, i)
  BY <1>1, SubSeqRecursiveFirst
<1>3. SubSeq(s, i + 1, i) = <<>>
  BY SubSeqEmpty
<1>4. PICK u \in U : u = s[i]
  OBVIOUS
<1>5. PICK one : one = <<u>>
  OBVIOUS
<1>6. one \in Seq(U)
  BY <1>5, OneUnit
<1>7. one \o <<>> = one
  BY <1>6, ConcatEmptySeq
<1> QED
  BY <1>2, <1>3, <1>4, <1>5, <1>7

(* Nothing of a value: one of these, or the number 2.                      *)
NothingFrom(r) == Nothing \cup IF r = "002" THEN {Two} ELSE {}

LEMMA NothingIsRead ==
    ASSUME NEW full, NEW doc \in Seq(Units), NEW e \in Nat \ {0}, NEW r \in Leftovers,
           IsCut(full, doc, e, r)
    PROVE  CutReads("value", doc, e, NothingFrom(r))
<1> SUFFICES ASSUME NEW n \in 1..(Len(doc) + 1)
             PROVE  \E p \in NothingFrom(r) : \E q \in Nat :
                        Reading(doc)[n]["value"][e] = Got(p, q) /\ Peek(doc, q) \in Leftovers
  BY DEF CutReads
<1>1. Reading(doc)[n]["value"][e] = ParseValue(doc, e, Reading(doc)[n - 1])
  BY ReadingEquations
<1>2. Peek(doc, e) = r /\ Peek(doc, e + 1) = "end" /\ e + 1 \in Nat
  BY CutEnds
<1>3. ASSUME NEW p \in NothingFrom(r), NEW q \in {e, e + 1},
             ParseValue(doc, e, Reading(doc)[n - 1]) = Got(p, q)
      PROVE  \E p1 \in NothingFrom(r) : \E q1 \in Nat :
                 Reading(doc)[n]["value"][e] = Got(p1, q1) /\ Peek(doc, q1) \in Leftovers
  <2>1. q \in Nat /\ Peek(doc, q) \in Leftovers
    BY <1>2 DEF Leftovers
  <2> QED
    BY <1>1, <1>3, <2>1
<1>4. CASE r \in {"end", "n"}
  <2>1. ParseValue(doc, e, Reading(doc)[n - 1]) = Got(<<"null">>, e)
    BY <1>2, <1>4, Zenon DEF ParseValue
  <2>2. <<"null">> \in NothingFrom(r)
    BY DEF Nothing, NothingFrom
  <2> QED
    BY <1>3, <2>1, <2>2
<1>5. CASE r \in {"t", "f"}
  <2>1. ParseValue(doc, e, Reading(doc)[n - 1]) = Got(<<"bool", FALSE>>, e)
    BY <1>2, <1>5, Zenon DEF ParseValue
  <2>2. <<"bool", FALSE>> \in NothingFrom(r)
    BY DEF Nothing, NothingFrom
  <2> QED
    BY <1>3, <2>1, <2>2
<1>6. CASE r \in {"\\", "0", "d", "d8", "d83", "de", "de0"}
  <2>1. ParseValue(doc, e, Reading(doc)[n - 1]) = ParseNumber(doc, e)
    BY <1>2, <1>6, Zenon DEF ParseValue
  <2>2. Expect(doc, e, "-") = e
    BY <1>2, <1>6 DEF Expect
  <2>3. PICK zero \in NothingFrom(r) : zero = <<"number", <<"0">>>>
    BY DEF Nothing, NothingFrom
  <2>4. e <= Len(doc)
    BY <1>6, CutEnds
  <2>5. CASE r \in {"\\", "d", "d8", "d83", "de", "de0"}
    <3>1. Min({q \in e..(Len(doc) + 1) : Peek(doc, q) \notin Digits}) = e
      <4>1. e \in e..(Len(doc) + 1) /\ \A q \in e..(e - 1) : Peek(doc, q) \in Digits
        BY <2>4
      <4>2. Peek(doc, e) \notin Digits
        BY <1>2, <2>5 DEF Digits
      <4> QED
        BY <4>1, <4>2, DigitsEnd
    <3>2. ParseNumber(doc, e) = Got(zero, e)
      BY <2>2, <2>3, <3>1 DEF ParseNumber
    <3> QED
      BY <1>3, <2>1, <3>2
  <2>6. CASE r = "0"
    <3>1. Min({q \in e..(Len(doc) + 1) : Peek(doc, q) \notin Digits}) = e + 1
      <4>1. e + 1 \in e..(Len(doc) + 1) /\ \A q \in e..((e + 1) - 1) : q = e
        BY <2>4
      <4>2. Peek(doc, e + 1) \notin Digits /\ Peek(doc, e) \in Digits
        BY <1>2, <2>6 DEF Digits
      <4> QED
        BY <4>1, <4>2, DigitsEnd
    <3>2. SubSeq(doc, e, e) = <<"0">>
      <4>1. e \in 1..Len(doc) /\ doc[e] = "0"
        BY <1>2, <2>4, <2>6 DEF Peek
      <4> QED
        BY <4>1, SubSeqOfOne
    <3>3. (e + 1) - 1 = e /\ e + 1 # e
      OBVIOUS
    <3>4. ParseNumber(doc, e) = Got(zero, e + 1)
      BY <2>2, <2>3, <3>1, <3>2, <3>3 DEF ParseNumber
    <3> QED
      BY <1>3, <2>1, <3>4
  <2> QED
    BY <1>6, <2>5, <2>6
<1>7. CASE r \in {"00", "000", "00e"}
  <2>1. ParseValue(doc, e, Reading(doc)[n - 1]) = Got(<<"number", <<"0">>>>, e + 1)
    BY <1>2, <1>7, Zenon DEF ParseValue
  <2>2. PICK zero \in NothingFrom(r) : zero = <<"number", <<"0">>>>
    BY DEF Nothing, NothingFrom
  <2> QED
    BY <1>3, <2>1, <2>2
<1>8. CASE r = "002"
  <2>1. ParseValue(doc, e, Reading(doc)[n - 1]) = Got(Two, e + 1)
    BY <1>2, <1>8, Zenon DEF ParseValue, Two
  <2>2. Two \in NothingFrom(r)
    BY <1>8 DEF NothingFrom
  <2> QED
    BY <1>3, <2>1, <2>2
<1> QED
  BY <1>4, <1>5, <1>6, <1>7, <1>8, CutCodesAre DEF Leftovers
-----------------------------------------------------------------------------
(***************************************************************************)
(* Strings: what is read of a string that is cut.                          *)
(***************************************************************************)

(* A leftover as the end of a string.                                      *)
Ending(x) == IF x = "end" THEN <<>> ELSE <<x>>

(* At the end of the text a string is complete.                            *)
LEMMA EndOfText ==
    ASSUME NEW doc \in Seq(Units), NEW n \in 1..(Len(doc) + 1), NEW pos \in Nat,
           Peek(doc, pos) = "end"
    PROVE  Reading(doc)[n]["string"][pos] = Got(<<>>, pos)
<1>1. Reading(doc)[n]["string"][pos] = RestOfString(doc, pos, Reading(doc)[n - 1])
  BY ReadingEquations
<1>2. RestOfString(doc, pos, Reading(doc)[n - 1]) = Got(<<>>, pos)
  BY Zenon DEF RestOfString, Expect
<1> QED
  BY <1>1, <1>2

(* What is left at the cut is read as the end of a string.                 *)
LEMMA RestIsRead ==
    ASSUME NEW full, NEW doc \in Seq(Units), NEW e \in Nat \ {0}, NEW r \in Leftovers,
           IsCut(full, doc, e, r), NEW n \in 1..(Len(doc) + 1), Len(doc) + 2 - e <= n
    PROVE  Reading(doc)[n]["string"][e] = Got(Ending(r), Len(doc) + 1)
<1>1. /\ Peek(doc, e) = r /\ Peek(doc, e + 1) = "end"
      /\ r = "end" => Len(doc) + 1 = e
      /\ r # "end" => Len(doc) + 1 = e + 1
  BY CutEnds
<1>2. CASE r = "end"
  <2>1. Reading(doc)[n]["string"][e] = Got(<<>>, e)
    BY <1>1, <1>2, EndOfText
  <2> QED
    BY <1>1, <1>2, <2>1 DEF Ending
<1>3. CASE r # "end"
  <2>1. n - 1 \in 1..(Len(doc) + 1) /\ e + 1 \in Nat
    BY <1>1, <1>3
  <2>2. Reading(doc)[n - 1]["string"][e + 1] = Got(<<>>, e + 1)
    BY <1>1, <2>1, EndOfText
  <2>3. Reading(doc)[n]["string"][e] = RestOfString(doc, e, Reading(doc)[n - 1])
    BY ReadingEquations
  <2>4. PICK rest : rest = Reading(doc)[n - 1]["string"][e + 1]
                    /\ rest.value = <<>> /\ rest.pos = e + 1
    BY <2>2 DEF Got
  <2>5. RestOfString(doc, e, Reading(doc)[n - 1]) = Got(<<r>> \o rest.value, rest.pos)
    <3>1. r # "\""
      BY LeftoversAreNoMarks, Zenon DEF Quote
    <3> QED
      BY <1>1, <1>3, <2>4, <3>1, Zenon DEF RestOfString
  <2>6. <<r>> \o <<>> = <<r>>
    <3>1. PICK one : one = <<r>>
      OBVIOUS
    <3>2. one \in Seq(Leftovers)
      BY <3>1, OneUnit
    <3> QED
      BY <3>1, <3>2, ConcatEmptySeq
  <2> QED
    BY <1>1, <1>3, <2>3, <2>4, <2>5, <2>6 DEF Ending
<1> QED
  BY <1>2, <1>3

(* What may be left of the units that escapes are made of.                 *)
LEMMA LeftOfEscapes ==
    ASSUME NEW level
    PROVE  /\ LeftOf("\\", level) \subseteq {"end", "\\"}
           /\ LeftOf("u", level) = {"end"} /\ LeftOf("n", level) = {"end"}
           /\ \A code \in Codes : LeftOf(code, level) = {"end"} \cup CutCode(code)
           /\ LeftOf(Quote, level) \subseteq {"end", "\\"} \cup CutCodes
           /\ LeftOf(Quote, "message") = {"end"}
           /\ \A c : LeftOf(c, level) \subseteq LeftOf(c, "payload")
           /\ \A c \in Escaped : {"end", "\\"} \subseteq LeftOf(c, "payload")
           /\ \A c : RestOf(c) \subseteq LeftOf(c, "payload")
<1>1. Codes = {"00e9", "0001", "d83d", "de00", "0022"}
  BY CodesAreCodes
<1>2. DOMAIN Code = {"eacute", "control", "high", "low"}
  BY DEF Code
<1>3. LeftOf("\\", level) \subseteq {"end", "\\"}
  <2>1. "\\" \notin {"true", "false", "null"} \cup Codes \cup DOMAIN Code \cup {Quote}
    BY <1>1, <1>2, Zenon DEF Quote
  <2>2. FirstOf("\\") = {} /\ RestOfCode("\\") = {}
    BY <2>1, CutCodesAre DEF FirstOf, RestOfCode
  <2> QED
    BY <2>2 DEF LeftOf, RestOf
<1>4. LeftOf("u", level) = {"end"} /\ LeftOf("n", level) = {"end"}
  <2>1. FirstOf("u") = {} /\ FirstOf("n") = {}
    BY <1>1, CutCodesAre DEF FirstOf
  <2>2. "u" # Quote /\ "n" # Quote
    BY Zenon DEF Quote
  <2>3. RestOf("u") = {} /\ RestOf("n") = {}
    BY <1>2, <2>2, CodedAreNoMarks DEF RestOf, RestOfCode, Escaped
  <2> QED
    BY <2>1, <2>3 DEF LeftOf
<1>5. ASSUME NEW code \in Codes PROVE LeftOf(code, level) = {"end"} \cup CutCode(code)
  <2>1. FirstOf(code) = CutCode(code)
    BY <1>1 DEF FirstOf
  <2>2. code # Quote
    BY <1>1, Zenon DEF Quote
  <2>3. RestOf(code) = {}
    BY <1>1, <1>2, <2>2 DEF RestOf, RestOfCode, Escaped
  <2> QED
    BY <2>1, <2>3 DEF LeftOf
<1>6. FirstOf(Quote) = {} /\ RestOf(Quote) \subseteq {"\\"} \cup CutCodes
  <2>1. Quote \notin {"true", "false", "null", "00e9", "0001", "d83d", "de00", "0022"}
    BY Zenon DEF Quote
  <2>2. FirstOf(Quote) = {}
    BY <1>1, <2>1, CutCodesAre DEF FirstOf
  <2>3. CutCode(QuoteCode) \subseteq CutCodes
    BY CutCodesAre
  <2> QED
    BY <2>2, <2>3 DEF RestOf, RestOfCode
<1>7. \A c : LeftOf(c, level) \subseteq LeftOf(c, "payload")
  BY DEF LeftOf
<1>8. \A c \in Escaped : {"end", "\\"} \subseteq LeftOf(c, "payload")
  BY DEF LeftOf, RestOf
<1>9. \A c : RestOf(c) \subseteq LeftOf(c, "payload")
  BY DEF LeftOf
<1>10. LeftOf(Quote, level) \subseteq {"end", "\\"} \cup CutCodes /\ LeftOf(Quote, "message") = {"end"}
  BY <1>6 DEF LeftOf
<1> QED
  BY <1>3, <1>4, <1>5, <1>7, <1>8, <1>9, <1>10

(* The escape of a unit: itself, or a backslash and one or two units.      *)
LEMMA EscapeParts ==
    ASSUME NEW c \in Contents, NEW writer
    PROVE  \/ Len(Escape(c, writer)) = 1 /\ Escape(c, writer)[1] = c
           \/ /\ c \in Escaped /\ Len(Escape(c, writer)) = 2 /\ Escape(c, writer)[1] = "\\"
              /\ Escape(c, writer)[2] \in {c, "n"} /\ Escape(c, writer)[2] \in {Quote, "\\", "n"}
           \/ /\ c \in Escaped /\ Len(Escape(c, writer)) = 3
              /\ Escape(c, writer)[1] = "\\" /\ Escape(c, writer)[2] = "u"
              /\ Escape(c, writer)[3] \in Codes /\ CutCode(Escape(c, writer)[3]) \subseteq RestOf(c)
<1>1. CASE c = "\"" /\ writer = "ui"
  <2>1. Escape(c, writer) = <<"\\", "u", QuoteCode>>
    BY <1>1, CodedAreNoMarks DEF Escape
  <2>2. c \in Escaped /\ QuoteCode \in Codes
    BY <1>1, Zenon DEF Escaped, Codes
  <2>3. CutCode(QuoteCode) \subseteq RestOf(c)
    <3>1. c = Quote
      BY <1>1, Zenon DEF Quote
    <3> QED
      BY <3>1 DEF RestOf, RestOfCode
  <2> QED
    BY <2>1, <2>2, <2>3
<1>2. CASE c \in {"\"", "\\", "newline"} /\ ~(c = "\"" /\ writer = "ui")
  <2>1. Escape(c, writer) = <<"\\", Backslash(c)>>
    BY <1>2, CodedAreNoMarks DEF Escape
  <2>2. c \in Escaped
    BY <1>2, Zenon DEF Escaped
  <2>3. Backslash(c) \in {c, "n"} /\ Backslash(c) \in {Quote, "\\", "n"}
    BY <1>2, Zenon DEF Backslash, Quote
  <2> QED
    BY <2>1, <2>2, <2>3
<1>3. CASE c \notin {"\"", "\\", "newline"} /\ c \in DOMAIN Code
  <2>1. Escape(c, writer) = <<"\\", "u", Code[c]>>
    BY <1>3 DEF Escape
  <2>2. c \in Escaped /\ Code[c] \in Codes
    BY <1>3, Zenon DEF Escaped, Codes
  <2>3. CutCode(Code[c]) \subseteq RestOf(c)
    <3>1. c # Quote
      BY <1>3, Zenon DEF Quote
    <3> QED
      BY <1>3, <3>1 DEF RestOf, RestOfCode
  <2> QED
    BY <2>1, <2>2, <2>3
<1>4. CASE c \notin {"\"", "\\", "newline"} /\ c \notin DOMAIN Code
  <2>1. Escape(c, writer) = <<c>>
    BY <1>4 DEF Escape
  <2> QED
    BY <2>1
<1> QED
  BY <1>1, <1>2, <1>3, <1>4

(* What is read of an escape that is cut is left of the unit it stands for.*)
ReadsOfEscape(doc, pos, c) ==
    \A n \in 1..(Len(doc) + 1) :
        Len(doc) + 2 - pos <= n =>
            \E x \in LeftOf(c, "payload") : Reading(doc)[n]["string"][pos] = Got(Ending(x), Len(doc) + 1)

LEMMA EscapeIsCut ==
    ASSUME NEW full, NEW doc \in Seq(Units), NEW e \in Nat \ {0}, NEW r, NEW level,
           CutAt(full, doc, e, r, level),
           NEW c \in Contents, NEW writer, NEW pos \in Nat \ {0}, Stands(full, pos, Escape(c, writer)),
           pos <= e, e < pos + Len(Escape(c, writer))
    PROVE  ReadsOfEscape(doc, pos, c)
<1> SUFFICES ASSUME NEW n \in 1..(Len(doc) + 1), Len(doc) + 2 - pos <= n
             PROVE  \E x \in LeftOf(c, "payload") :
                       Reading(doc)[n]["string"][pos] = Got(Ending(x), Len(doc) + 1)
  BY DEF ReadsOfEscape
<1>0. PICK t : t = Escape(c, writer)
  OBVIOUS
<1>1. PICK len \in 1..3 : t = Escape(c, writer) /\ len = Len(t)
  BY <1>0, EscapeIsShort
<1>2. \/ len = 1 /\ t[1] = c
      \/ /\ c \in Escaped /\ len = 2 /\ t[1] = "\\" /\ t[2] \in {c, "n"}
         /\ t[2] \in {Quote, "\\", "n"}
      \/ /\ c \in Escaped /\ len = 3 /\ t[1] = "\\" /\ t[2] = "u"
         /\ t[3] \in Codes /\ CutCode(t[3]) \subseteq RestOf(c)
  BY <1>1, EscapeParts
<1>3. IsCut(full, doc, e, r) /\ r \in LeftOf(Peek(full, e), level) /\ r \in Leftovers
  BY LeftoversAreLeft DEF CutAt
<1>4. Stands(full, pos, t) /\ e < pos + len
  BY <1>1
<1>5. PICK o \in 1..len : e = pos + o - 1
  <2>1. e - pos + 1 \in 1..len /\ e = pos + (e - pos + 1) - 1
    BY <1>4
  <2> QED
    BY <2>1
<1>6. r \in LeftOf(t[o], level)
  BY <1>1, <1>3, <1>4, <1>5 DEF Stands
<1>7. ASSUME NEW i \in 1..len, i < o PROVE Peek(doc, pos + i - 1) = t[i]
  <2>1. pos + i - 1 < e
    BY <1>5, <1>7
  <2>2. i \in 1..Len(t) /\ Len(t) \in Nat
    BY <1>1
  <2> QED
    <3>1. Peek(full, pos + i - 1) = t[i]
      BY <1>4, <2>2 DEF Stands
    <3>2. PICK j \in 1..(e - 1) : j = pos + i - 1
      BY <2>1
    <3>3. Peek(doc, j) = Peek(full, j)
      BY <1>3 DEF IsCut
    <3> QED
      BY <3>1, <3>2, <3>3
<1>8. Peek(doc, e) = r /\ Peek(doc, e + 1) = "end" /\ (r = "end" => Len(doc) + 1 = e)
      /\ (r # "end" => Len(doc) + 1 = e + 1)
  BY <1>3, CutEnds
<1>9. Reading(doc)[n]["string"][pos] = RestOfString(doc, pos, Reading(doc)[n - 1])
  BY ReadingEquations
<1>10. CASE o = 1
  <2>1. e = pos
    BY <1>5, <1>10
  <2>2. Reading(doc)[n]["string"][pos] = Got(Ending(r), Len(doc) + 1)
    BY <1>3, <2>1, RestIsRead
  <2>3. r \in LeftOf(c, "payload")
    <3>1. r \in LeftOf(t[1], level)
      BY <1>6, <1>10
    <3>2. CASE t[1] = c
      BY <3>1, <3>2, LeftOfEscapes
    <3>3. CASE t[1] = "\\" /\ c \in Escaped
      <4>1. r \in {"end", "\\"}
        BY <3>1, <3>3, LeftOfEscapes
      <4>2. {"end", "\\"} \subseteq LeftOf(c, "payload")
        BY <3>3, LeftOfEscapes
      <4> QED
        BY <4>1, <4>2
    <3> QED
      BY <1>2, <3>2, <3>3
  <2> QED
    BY <2>2, <2>3
<1>11. CASE o = 2
  <2>1. Peek(doc, pos) = "\\" /\ e = pos + 1 /\ c \in Escaped
    <3>1. Peek(doc, pos + 1 - 1) = t[1] /\ pos + 1 - 1 = pos /\ t[1] = "\\"
      BY <1>2, <1>7, <1>11
    <3> QED
      BY <1>2, <1>5, <1>11, <3>1
  <2>2. n - 1 \in 1..(Len(doc) + 1)
    BY <1>8, <2>1
  <2>3. CASE r = "end"
    <3>1. PICK rest : rest = Reading(doc)[n - 1]["string"][pos + 1]
                      /\ rest.value = <<>> /\ rest.pos = pos + 1
      <4>1. Reading(doc)[n - 1]["string"][pos + 1] = Got(<<>>, pos + 1)
        BY <1>8, <2>1, <2>2, <2>3, EndOfText
      <4> QED
        BY <4>1 DEF Got
    <3>2. Peek(doc, pos + 1) = "end"
      BY <1>8, <2>1, <2>3
    <3>3. RestOfString(doc, pos, Reading(doc)[n - 1]) = Got(<<"\\">> \o rest.value, rest.pos)
      BY <2>1, <3>1, <3>2, Zenon DEF RestOfString
    <3>4. <<"\\">> \o <<>> = Ending("\\")
      BY DEF Ending
    <3>5. "\\" \in LeftOf(c, "payload")
      BY <2>1, LeftOfEscapes
    <3> QED
      BY <1>8, <1>9, <2>1, <2>3, <3>1, <3>3, <3>4, <3>5
  <2>4. CASE r # "end"
    <3>1. r \in {"\\"} \cup CutCodes /\ r \in LeftOf(c, "payload")
      <4>1. CASE len = 2
        <5>1. t[2] \in {Quote, "\\", "n"} /\ t[2] \in {c, "n"} /\ r \in LeftOf(t[2], level)
          BY <1>2, <1>6, <1>11, <4>1
        <5>2. CASE t[2] = "\\"
          <6>1. r = "\\"
            BY <2>4, <5>1, <5>2, LeftOfEscapes
          <6>2. {"end", "\\"} \subseteq LeftOf(c, "payload")
            BY <2>1, LeftOfEscapes
          <6> QED
            BY <6>1, <6>2
        <5>3. CASE t[2] = Quote
          <6>1. Quote # "n"
            BY Zenon DEF Quote
          <6>2. c = Quote
            BY <5>1, <5>3, <6>1
          <6> QED
            BY <2>4, <5>1, <5>3, <6>2, LeftOfEscapes
        <5>4. t[2] # "n"
          BY <2>4, <5>1, LeftOfEscapes
        <5> QED
          BY <5>1, <5>2, <5>3, <5>4
      <4>2. CASE len = 3
        <5>1. t[2] = "u"
          BY <1>2, <4>2
        <5> QED
          BY <1>6, <1>11, <2>4, <5>1, LeftOfEscapes
      <4> QED
        BY <1>11, <4>1, <4>2
    <3>2. PICK rest : rest = Reading(doc)[n - 1]["string"][pos + 2]
                      /\ rest.value = <<>> /\ rest.pos = pos + 2
      <4>1. pos + 2 = e + 1 /\ pos + 2 \in Nat
        BY <2>1
      <4>2. Reading(doc)[n - 1]["string"][pos + 2] = Got(<<>>, pos + 2)
        BY <1>8, <2>2, <4>1, EndOfText
      <4> QED
        BY <4>2 DEF Got
    <3>3. Peek(doc, pos + 1) = r
      BY <1>8, <2>1
    <3>4. Backslashed(r) = r
      BY <3>1, LeftoversAreUnits DEF Backslashed
    <3>5. RestOfString(doc, pos, Reading(doc)[n - 1]) = Got(<<r>> \o rest.value, rest.pos)
      <4>1. r \notin {"u", "end"}
        BY <3>1, LeftoversAreUnits
      <4> QED
        BY <2>1, <3>2, <3>3, <3>4, <4>1, Zenon DEF RestOfString
    <3>6. <<r>> \o <<>> = Ending(r)
      BY <2>4 DEF Ending
    <3>7. rest.pos = Len(doc) + 1
      BY <1>8, <2>1, <2>4, <3>2
    <3> QED
      BY <1>9, <3>1, <3>2, <3>5, <3>6, <3>7
  <2> QED
    BY <2>3, <2>4
<1>12. CASE o = 3
  <2>1. /\ Peek(doc, pos) = "\\" /\ Peek(doc, pos + 1) = "u" /\ e = pos + 2
        /\ c \in Escaped /\ t[3] \in Codes /\ CutCode(t[3]) \subseteq RestOf(c)
    <3>1. len = 3
      BY <1>12
    <3>2. /\ t[1] = "\\" /\ t[2] = "u" /\ c \in Escaped
          /\ t[3] \in Codes /\ CutCode(t[3]) \subseteq RestOf(c)
      BY <1>2, <3>1
    <3>3. /\ Peek(doc, pos + 1 - 1) = t[1] /\ pos + 1 - 1 = pos
          /\ Peek(doc, pos + 2 - 1) = t[2] /\ pos + 2 - 1 = pos + 1
      BY <1>7, <1>12, <3>1
    <3> QED
      BY <1>5, <1>12, <3>2, <3>3
  <2>2. r \in {"end"} \cup CutCode(t[3])
    BY <1>6, <1>12, <2>1, LeftOfEscapes
  <2>3. n - 1 \in 1..(Len(doc) + 1) /\ Len(doc) + 2 - e <= n - 1
    BY <1>8, <2>1
  <2>4. Reading(doc)[n - 1]["string"][pos + 2] = Got(Ending(r), Len(doc) + 1)
    <3>1. PICK n1 \in 1..(Len(doc) + 1) : n1 = n - 1
      BY <2>3
    <3>2. Len(doc) + 2 - e <= n1
      BY <2>3, <3>1
    <3>3. Reading(doc)[n1]["string"][e] = Got(Ending(r), Len(doc) + 1)
      <4>1. IsCut(full, doc, e, r)
        BY <1>3
      <4>2. r \in Leftovers
        BY <1>3
      <4>3. Len(doc) + 2 - e <= n1
        BY <3>2
      <4> QED
        BY <4>1, <4>2, <4>3, RestIsRead
    <3> QED
      BY <2>1, <3>1, <3>3
  <2>5. RestOfString(doc, pos, Reading(doc)[n - 1]) = Reading(doc)[n - 1]["string"][pos + 2]
    <3>1. Peek(doc, pos + 2) \notin DOMAIN Decoded
      <4>1. r = "end" \/ r \in CutCodes
        BY <2>1, <2>2, CutCodesAre
      <4>2. r \notin Codes
        BY <4>1, LeftoversAreUnits, CodesAreCodes
      <4> QED
        BY <1>8, <2>1, <4>2, CodesAreDecoded
    <3> QED
      BY <2>1, <3>1, Zenon DEF RestOfString
  <2>6. r \in LeftOf(c, "payload")
    <3>1. {"end", "\\"} \subseteq LeftOf(c, "payload")
      BY <2>1, LeftOfEscapes
    <3>2. CutCode(t[3]) \subseteq LeftOf(c, "payload")
      BY <2>1, LeftOfEscapes
    <3> QED
      BY <2>2, <3>1, <3>2
  <2> QED
    BY <1>9, <2>4, <2>5, <2>6
<1>13. o = 1 \/ o = 2 \/ o = 3
  OBVIOUS
<1> QED
  BY <1>10, <1>11, <1>12, <1>13

(* Of things that follow each other, the one that is cut.                  *)
LEMMA WhereCut ==
    ASSUME NEW k \in Nat, NEW at \in [1..(k + 1) -> Nat], NEW e \in Nat, at[1] <= e, e < at[k + 1]
    PROVE  \E m \in 1..k : at[m] <= e /\ e < at[m + 1]
<1> SUFFICES ASSUME \A m \in 1..k : ~(at[m] <= e /\ e < at[m + 1]) PROVE FALSE
  OBVIOUS
<1> DEFINE T == {i \in 1..(k + 1) : e < at[i]}
<1>1. k + 1 \in Nat \ {0} /\ k + 1 \in T
  OBVIOUS
<1>2. \A i \in 1..(k + 1) : i # k + 1 /\ i + 1 \in T => i \in T
  <2> SUFFICES ASSUME NEW i \in 1..(k + 1), i # k + 1, e < at[i + 1] PROVE e < at[i]
    OBVIOUS
  <2>1. i \in 1..k /\ at[i] \in Nat
    OBVIOUS
  <2> QED
    BY <2>1
<1> HIDE DEF T
<1>3. 1..(k + 1) \subseteq T
  BY <1>1, <1>2, IndexInduction
<1>4. 1 \in 1..(k + 1) /\ at[1] \in Nat
  OBVIOUS
<1> QED
  BY <1>3, <1>4 DEF T

Endings(X) == {Ending(x) : x \in X}

LEMMA EndingsAreTexts ==
    ASSUME NEW X \in SUBSET Leftovers PROVE Endings(X) \in SUBSET Seq(Contents)
<1> SUFFICES ASSUME NEW x \in X PROVE Ending(x) \in Seq(Contents)
  BY DEF Endings
<1>1. CASE x = "end"
  BY <1>1 DEF Ending
<1>2. CASE x # "end"
  <2>1. x \in Contents
    BY <1>2, LeftoversAreUnits DEF Contents
  <2>2. Ending(x) = <<x>>
    BY <1>2 DEF Ending
  <2> QED
    BY <2>1, <2>2, OneUnit
<1> QED
  BY <1>1, <1>2

(* A string goes on with what is left of the escape that is cut.           *)
LEMMA EscapeCutReads ==
    ASSUME NEW full, NEW doc \in Seq(Units), NEW e \in Nat \ {0}, NEW r, NEW level,
           CutAt(full, doc, e, r, level),
           NEW c \in Contents, NEW writer, NEW pos \in Nat \ {0}, Stands(full, pos, Escape(c, writer)),
           pos <= e, e < pos + Len(Escape(c, writer))
    PROVE  CutReads("string", doc, pos, Endings(LeftOf(c, "payload")))
<1> SUFFICES ASSUME NEW n \in 1..(Len(doc) + 1), Len(doc) + 2 - pos <= n
             PROVE  \E p \in Endings(LeftOf(c, "payload")) : \E q \in Nat :
                       Reading(doc)[n]["string"][pos] = Got(p, q) /\ Peek(doc, q) \in Leftovers
  BY DEF CutReads
<1>1. PICK x \in LeftOf(c, "payload") : Reading(doc)[n]["string"][pos] = Got(Ending(x), Len(doc) + 1)
  <2>1. ReadsOfEscape(doc, pos, c)
    BY EscapeIsCut
  <2> QED
    BY <2>1 DEF ReadsOfEscape
<1>2. Peek(doc, Len(doc) + 1) \in Leftovers
  BY DEF Peek, Leftovers
<1>3. Len(doc) + 1 \in Nat
  OBVIOUS
<1>4. Ending(x) \in Endings(LeftOf(c, "payload"))
  BY Zenon DEF Endings
<1> QED
  BY <1>1, <1>2, <1>3, <1>4

(* Or with what is left at the cut itself.                                 *)
LEMMA RestCutReads ==
    ASSUME NEW full, NEW doc \in Seq(Units), NEW e \in Nat \ {0}, NEW r \in Leftovers,
           IsCut(full, doc, e, r)
    PROVE  CutReads("string", doc, e, {Ending(r)})
<1> SUFFICES ASSUME NEW n \in 1..(Len(doc) + 1), Len(doc) + 2 - e <= n
             PROVE  \E p \in {Ending(r)} : \E q \in Nat :
                       Reading(doc)[n]["string"][e] = Got(p, q) /\ Peek(doc, q) \in Leftovers
  BY DEF CutReads
<1>1. Reading(doc)[n]["string"][e] = Got(Ending(r), Len(doc) + 1)
  BY RestIsRead
<1>2. Peek(doc, Len(doc) + 1) \in Leftovers
  BY DEF Peek, Leftovers
<1>3. Len(doc) + 1 \in Nat
  OBVIOUS
<1> QED
  BY <1>1, <1>2, <1>3

(* A step of a routine, from one position to a later one.                  *)
LEMMA NextBudget ==
    ASSUME NEW len \in Nat, NEW a \in Nat, NEW b \in Nat, a < b, b <= len + 1,
           NEW n \in 1..(len + 1), len + 2 - a <= n
    PROVE  \E n1 \in 1..(len + 1) : n1 = n - 1 /\ len + 2 - b <= n1
<1>1. n - 1 \in 1..(len + 1) /\ len + 2 - b <= n - 1
  OBVIOUS
<1> QED
  BY <1>1

LEMMA Associates ==
    ASSUME NEW U, NEW a \in Seq(U), NEW b \in Seq(U), NEW c \in Seq(U)
    PROVE  a \o (b \o c) = (a \o b) \o c
BY ConcatAssociative

LEMMA OneUnitMore ==
    ASSUME NEW U, NEW s \in Seq(U), NEW m \in 1..(Len(s) + 1), NEW i \in 1..(m - 1),
           NEW p \in Seq(U)
    PROVE  <<s[i]>> \o (SubSeq(s, i + 1, m - 1) \o p) = SubSeq(s, i, m - 1) \o p
<1>1. i \in 1..Len(s) /\ m - 1 \in i..Len(s)
  OBVIOUS
<1>2. SubSeq(s, i, m - 1) = <<s[i]>> \o SubSeq(s, i + 1, m - 1)
  BY <1>1, SubSeqRecursiveFirst
<1>3. PICK one \in Seq(U) : one = <<s[i]>>
  <2>1. s[i] \in U
    OBVIOUS
  <2> QED
    BY <2>1, OneUnit
<1>4. SubSeq(s, i + 1, m - 1) \in Seq(U)
  <2>1. \A j \in (i + 1)..(m - 1) : j \in 1..Len(s)
    OBVIOUS
  <2> QED
    BY <2>1, SubSeqProperties
<1>5. PICK rest \in Seq(U) : rest = SubSeq(s, i + 1, m - 1)
  BY <1>4
<1>6. one \o (rest \o p) = (one \o rest) \o p
  BY Associates
<1> QED
  BY <1>2, <1>3, <1>5, <1>6

Before(u, L) == {<<u>> \o l : l \in L}

(* A string goes on with what is read after an escape.                     *)
LEMMA EscapeBeforeCut ==
    ASSUME NEW doc \in Seq(Units), NEW c \in Contents, NEW writer, NEW a \in Nat, NEW b \in Nat,
           Stands(doc, a, Escape(c, writer)), b = a + Len(Escape(c, writer)), b <= Len(doc) + 1,
           NEW P, CutReads("string", doc, b, P)
    PROVE  CutReads("string", doc, a, Before(c, P))
<1> SUFFICES ASSUME NEW n \in 1..(Len(doc) + 1), Len(doc) + 2 - a <= n
             PROVE  \E p1 \in Before(c, P) : \E q \in Nat :
                       Reading(doc)[n]["string"][a] = Got(p1, q) /\ Peek(doc, q) \in Leftovers
  BY DEF CutReads
<1>1. a < b
  <2>1. PICK len \in 1..3 : len = Len(Escape(c, writer))
    BY EscapeIsShort
  <2>2. b = a + len
    BY <2>1
  <2> QED
    BY <2>2
<1>2. PICK n1 \in 1..(Len(doc) + 1) : n1 = n - 1 /\ Len(doc) + 2 - b <= n1
  BY <1>1, NextBudget
<1>3. PICK p \in P, q \in Nat :
         Reading(doc)[n1]["string"][b] = Got(p, q) /\ Peek(doc, q) \in Leftovers
  BY <1>2 DEF CutReads
<1>4. Reading(doc)[n]["string"][a] = RestOfString(doc, a, Reading(doc)[n1])
  BY <1>2, ReadingEquations
<1>5. RestOfString(doc, a, Reading(doc)[n1])
        = Got(<<c>> \o Reading(doc)[n1]["string"][b].value, Reading(doc)[n1]["string"][b].pos)
  <2>1. RestOfString(doc, a, Reading(doc)[n1])
          = Got(<<c>> \o Reading(doc)[n1]["string"][a + Len(Escape(c, writer))].value,
                Reading(doc)[n1]["string"][a + Len(Escape(c, writer))].pos)
    BY EscapeIsRead
  <2> QED
    BY <2>1
<1>6. PICK got : got = Reading(doc)[n1]["string"][b] /\ got.value = p /\ got.pos = q
  BY <1>3 DEF Got
<1>7. Reading(doc)[n]["string"][a] = Got(<<c>> \o p, q)
  BY <1>4, <1>5, <1>6
<1>8. <<c>> \o p \in Before(c, P)
  BY Zenon DEF Before
<1> QED
  BY <1>3, <1>7, <1>8

Beginnings(s, i, m, P) == {SubSeq(s, i, m - 1) \o p : p \in P}

LEMMA OneUnitBefore ==
    ASSUME NEW U, NEW s \in Seq(U), NEW m \in 1..(Len(s) + 1), NEW i \in 1..(m - 1),
           NEW P \in SUBSET Seq(U)
    PROVE  Before(s[i], Beginnings(s, i + 1, m, P)) = Beginnings(s, i, m, P)
<1>1. \A p \in P : <<s[i]>> \o (SubSeq(s, i + 1, m - 1) \o p) = SubSeq(s, i, m - 1) \o p
  BY OneUnitMore
<1>2. Before(s[i], Beginnings(s, i + 1, m, P))
        = {<<s[i]>> \o (SubSeq(s, i + 1, m - 1) \o p) : p \in P}
  BY Zenon DEF Beginnings, Before
<1> QED
  BY <1>1, <1>2, Zenon DEF Beginnings

(* Where the escapes of the first units of a string stand.                 *)
EscapesStand(full, at, s, m, writer) ==
    /\ at \in [1..m -> Nat \ {0}]
    /\ \A i \in 1..(m - 1) : /\ at[i + 1] = at[i] + Len(Escape(s[i], writer))
                             /\ Stands(full, at[i], Escape(s[i], writer))

(* The units before the one that is cut are read as they are.              *)
LEMMA StringBeforeCut ==
    ASSUME NEW full, NEW doc \in Seq(Units), NEW e \in Nat \ {0}, NEW r, IsCut(full, doc, e, r),
           NEW s \in Seq(Contents), NEW writer, NEW m \in 1..(Len(s) + 1), NEW at,
           EscapesStand(full, at, s, m, writer), at[m] <= e,
           NEW P \in SUBSET Seq(Contents), CutReads("string", doc, at[m], P)
    PROVE  CutReads("string", doc, at[1], Beginnings(s, 1, m, P))
<1> DEFINE Rest(i) == at[i] <= e /\ CutReads("string", doc, at[i], Beginnings(s, i, m, P))
           T == {i \in 1..m : Rest(i)}
<1>0. e <= Len(doc) + 1
  BY CutEnds
<1>1. m \in T
  <2>1. SubSeq(s, m, m - 1) = <<>>
    BY SubSeqEmpty
  <2>2. \A p \in P : <<>> \o p = p
    BY ConcatEmptySeq
  <2>3. Beginnings(s, m, m, P) = P
    BY <2>1, <2>2 DEF Beginnings
  <2> QED
    BY <2>3
<1>2. ASSUME NEW i \in 1..m, i # m, Rest(i + 1) PROVE Rest(i)
  <2>1. i \in 1..(m - 1) /\ i + 1 \in 1..m /\ i \in 1..Len(s)
    BY <1>2
  <2>2. PICK a \in Nat \ {0}, b \in Nat \ {0} : a = at[i] /\ b = at[i + 1]
    BY <2>1 DEF EscapesStand
  <2>3. PICK c \in Contents : c = s[i]
    BY <2>1
  <2>4. b = a + Len(Escape(c, writer)) /\ Stands(full, a, Escape(c, writer)) /\ b <= e
    BY <1>2, <2>1, <2>2, <2>3 DEF EscapesStand
  <2>5. Stands(doc, a, Escape(c, writer))
    <3>1. Escape(c, writer) \in Seq(Units)
      BY EscapeIsShort
    <3>2. a + Len(Escape(c, writer)) <= e
      BY <2>4
    <3>3. Stands(full, a, Escape(c, writer))
      BY <2>4
    <3> QED
      BY <3>1, <3>2, <3>3, StandsBeforeCut
  <2>6. PICK Q : Q = Beginnings(s, i + 1, m, P)
    OBVIOUS
  <2>7. CutReads("string", doc, b, Q)
    BY <1>2, <2>2, <2>6
  <2>8. CutReads("string", doc, a, Before(c, Q))
    <3>1. b = a + Len(Escape(c, writer))
      BY <2>4
    <3>2. b <= Len(doc) + 1
      BY <1>0, <2>4
    <3> QED
      BY <2>5, <2>7, <3>1, <3>2, EscapeBeforeCut
  <2>9. Before(c, Q) = Beginnings(s, i, m, P)
    BY <2>1, <2>3, <2>6, OneUnitBefore
  <2>10. a <= e
    <3>1. PICK len \in 1..3 : len = Len(Escape(c, writer))
      BY EscapeIsShort
    <3> QED
      BY <2>4, <3>1
  <2> QED
    BY <2>2, <2>8, <2>9, <2>10
<1> HIDE DEF Rest
<1>3. \A i \in 1..m : i # m /\ i + 1 \in T => i \in T
  BY <1>2
<1>4. 1..m \subseteq T
  <2>1. m \in Nat \ {0}
    OBVIOUS
  <2> HIDE DEF T
  <2> QED
    BY <1>1, <1>3, <2>1, IndexInduction
<1>5. Rest(1)
  <2>1. 1 \in 1..m
    OBVIOUS
  <2> QED
    BY <1>4, <2>1
<1> QED
  BY <1>5 DEF Rest

LEMMA CutReadsMore ==
    ASSUME NEW routine, NEW doc, NEW pos, NEW P, NEW Q, CutReads(routine, doc, pos, P), P \subseteq Q
    PROVE  CutReads(routine, doc, pos, Q)
BY Zenon DEF CutReads

(* What may be left at the m-th unit of a string, or at the quote that ends*)
(* it.                                                                     *)
LeftAt(s, m, level) == IF m <= Len(s) THEN LeftOf(s[m], "payload") ELSE LeftOf(Quote, level)

StringParts(s, level) ==
    UNION {Beginnings(s, 1, m, Endings(LeftAt(s, m, level))) : m \in 1..(Len(s) + 1)}

(* They are parts of the string, with what is left of the next unit.       *)
LEMMA BeginningsAreParts ==
    ASSUME NEW s \in Seq(Contents), NEW level, NEW m \in 1..(Len(s) + 1),
           NEW P, P \subseteq Endings(LeftAt(s, m, level))
    PROVE  Beginnings(s, 1, m, P) \subseteq StringParts(s, level)
<1>1. Beginnings(s, 1, m, P) \subseteq Beginnings(s, 1, m, Endings(LeftAt(s, m, level)))
  BY Zenon DEF Beginnings
<1> QED
  BY <1>1, Zenon DEF StringParts

(* Wherever a string is cut, it is read as a part of it.                   *)
LEMMA StringIsCut ==
    ASSUME NEW full, NEW doc \in Seq(Units), NEW e \in Nat \ {0}, NEW r, NEW level,
           CutAt(full, doc, e, r, level),
           NEW s \in Seq(Contents), NEW writer, NEW pos \in Nat, Stands(full, pos, Quoted(s, writer)),
           pos < e, e < pos + Len(Quoted(s, writer))
    PROVE  CutReads("string", doc, pos + 1, StringParts(s, level))
<1> DEFINE E == Escapes(s, writer)
<1>1. PICK k \in Nat : k = Len(s)
  OBVIOUS
<1>2. PICK len \in Nat : len = Len(FlattenSeq(E))
  <2>1. FlattenSeq(E) \in Seq(Units)
    BY QuotedParts
  <2> HIDE DEF E
  <2> QED
    BY <2>1
<1>3. E \in Seq(Seq(Units)) /\ Len(E) = k /\ \A i \in 1..k : E[i] = Escape(s[i], writer)
  BY <1>1, EscapesAreTexts
<1>4. Stands(full, pos + 1, FlattenSeq(E)) /\ Peek(full, pos + 1 + len) = "\""
      /\ Len(Quoted(s, writer)) = len + 2
  BY <1>2, QuotedParts
<1> HIDE DEF E
<1>5. PICK at \in [1..(k + 1) -> Nat] :
        /\ at[1] = pos + 1 /\ at[k + 1] = pos + 1 + len
        /\ \A i \in 1..k : pos + 1 <= at[i] /\ at[i + 1] = at[i] + Len(E[i]) /\ Stands(full, at[i], E[i])
  <2>1. pos + 1 \in Nat
    OBVIOUS
  <2>2. \E at \in [1..(Len(E) + 1) -> Nat] :
          /\ at[1] = pos + 1 /\ at[Len(E) + 1] = pos + 1 + Len(FlattenSeq(E))
          /\ \A i \in 1..Len(E) :
                /\ pos + 1 <= at[i] /\ at[i + 1] = at[i] + Len(E[i])
                /\ Stands(full, at[i], E[i])
    BY <1>3, <1>4, <2>1, StandsEachPart
  <2> QED
    BY <1>2, <1>3, <2>2
<1>6. \A i \in 1..(k + 1) : at[i] \in Nat \ {0}
  <2> SUFFICES ASSUME NEW i \in 1..(k + 1) PROVE at[i] \in Nat \ {0}
    OBVIOUS
  <2>1. CASE i = k + 1
    BY <1>5, <2>1
  <2>2. CASE i # k + 1
    <3>1. i \in 1..k /\ at[i] \in Nat
      BY <2>2
    <3>2. pos + 1 <= at[i]
      BY <1>5, <3>1
    <3> QED
      BY <3>1, <3>2
  <2> QED
    BY <2>1, <2>2
<1>7. IsCut(full, doc, e, r)
  BY DEF CutAt
<1>8. r \in LeftOf(Peek(full, e), level)
  BY DEF CutAt
<1>9. r \in Leftovers
  BY <1>8, LeftoversAreLeft
<1>10. ASSUME NEW m \in 1..(k + 1), at[m] <= e, NEW P \in SUBSET Seq(Contents),
              CutReads("string", doc, at[m], P), P \subseteq Endings(LeftAt(s, m, level))
       PROVE  CutReads("string", doc, pos + 1, StringParts(s, level))
  <2>1. PICK up : up = [i \in 1..m |-> at[i]]
    OBVIOUS
  <2>2. EscapesStand(full, up, s, m, writer)
    <3>1. up \in [1..m -> Nat \ {0}]
      BY <1>6, <2>1
    <3>2. ASSUME NEW i \in 1..(m - 1)
          PROVE  /\ up[i + 1] = up[i] + Len(Escape(s[i], writer))
                 /\ Stands(full, up[i], Escape(s[i], writer))
      <4>1. i \in 1..k /\ i \in 1..m /\ i + 1 \in 1..m
        OBVIOUS
      <4>2. up[i] = at[i] /\ up[i + 1] = at[i + 1]
        BY <2>1, <4>1
      <4>3. at[i + 1] = at[i] + Len(E[i]) /\ Stands(full, at[i], E[i]) /\ E[i] = Escape(s[i], writer)
        BY <1>3, <1>5, <4>1
      <4> QED
        BY <4>2, <4>3
    <3> QED
      BY <3>1, <3>2 DEF EscapesStand
  <2>3. m \in 1..(Len(s) + 1)
    BY <1>1
  <2>4. up[m] = at[m] /\ up[1] = pos + 1
    <3>1. m \in 1..m /\ 1 \in 1..m
      OBVIOUS
    <3> QED
      BY <1>5, <2>1, <3>1
  <2>5. up[m] <= e
    BY <1>10, <2>4
  <2>6. CutReads("string", doc, up[m], P)
    BY <1>10, <2>4
  <2>7. CutReads("string", doc, up[1], Beginnings(s, 1, m, P))
    BY <1>7, <2>2, <2>3, <2>5, <2>6, StringBeforeCut
  <2>8. CutReads("string", doc, pos + 1, Beginnings(s, 1, m, P))
    BY <2>4, <2>7
  <2>9. Beginnings(s, 1, m, P) \subseteq StringParts(s, level)
    BY <1>10, <2>3, BeginningsAreParts
  <2> QED
    BY <2>8, <2>9, CutReadsMore
<1>11. CASE e = at[k + 1]
  <2>1. CutReads("string", doc, e, {Ending(r)})
    BY <1>7, <1>9, RestCutReads
  <2>2. Peek(full, e) = Quote
    BY <1>4, <1>5, <1>11, Zenon DEF Quote
  <2>3. k + 1 \in 1..(k + 1) /\ ~(k + 1 <= k)
    OBVIOUS
  <2>4. LeftAt(s, k + 1, level) = LeftOf(Quote, level)
    BY <1>1, <2>3 DEF LeftAt
  <2>5. {Ending(r)} \subseteq Endings(LeftAt(s, k + 1, level))
    BY <1>8, <2>2, <2>4, Zenon DEF Endings
  <2>6. {Ending(r)} \in SUBSET Seq(Contents)
    <3>1. Endings({r}) \in SUBSET Seq(Contents)
      BY <1>9, EndingsAreTexts
    <3>2. Endings({r}) = {Ending(r)}
      BY Zenon DEF Endings
    <3> QED
      BY <3>1, <3>2
  <2>7. at[k + 1] <= e
    BY <1>11
  <2> QED
    BY <1>10, <1>11, <2>1, <2>3, <2>5, <2>6, <2>7
<1>12. CASE e # at[k + 1]
  <2>1. at[1] <= e /\ e < at[k + 1]
    <3>1. PICK last \in Nat : last = at[k + 1] /\ last = pos + 1 + len
      BY <1>5
    <3>2. e < pos + (len + 2)
      BY <1>4
    <3>3. e < last /\ pos + 1 <= e
      BY <1>12, <3>1, <3>2
    <3> QED
      BY <1>5, <3>1, <3>3
  <2>2. PICK m \in 1..k : at[m] <= e /\ e < at[m + 1]
    BY <2>1, WhereCut
  <2>3. PICK c \in Contents, a \in Nat \ {0} : c = s[m] /\ a = at[m]
    <3>1. m \in 1..Len(s) /\ m \in 1..(k + 1)
      BY <1>1
    <3> QED
      BY <1>6, <3>1
  <2>4. at[m + 1] = at[m] + Len(E[m]) /\ Stands(full, at[m], E[m]) /\ E[m] = Escape(c, writer)
    BY <1>3, <1>5, <2>3
  <2>5. Stands(full, a, Escape(c, writer))
    BY <2>3, <2>4
  <2>6. a <= e
    BY <2>2, <2>3
  <2>7. e < a + Len(Escape(c, writer))
    BY <2>2, <2>3, <2>4
  <2>8. CutReads("string", doc, a, Endings(LeftOf(c, "payload")))
    BY <2>5, <2>6, <2>7, EscapeCutReads
  <2>9. LeftAt(s, m, level) = LeftOf(c, "payload")
    BY <1>1, <2>3 DEF LeftAt
  <2>10. Endings(LeftOf(c, "payload")) \in SUBSET Seq(Contents)
    BY LeftoversAreLeft, EndingsAreTexts
  <2>11. m \in 1..(k + 1)
    OBVIOUS
  <2> QED
    BY <1>10, <2>2, <2>3, <2>8, <2>9, <2>10, <2>11
<1> QED
  BY <1>11, <1>12
-----------------------------------------------------------------------------
(***************************************************************************)
(* What can be read of a text, wherever it is cut: words, strings and      *)
(* numbers.                                                                *)
(***************************************************************************)

(* A text of which, wherever it stands and is cut, one of the values P is  *)
(* read.                                                                   *)
CutWithin(t, P, level, doc, full, r, e, pos) ==
    Stands(full, pos, t) /\ CutAt(full, doc, e, r, level) /\ e < pos + Len(t)
        => CutReads("value", doc, pos, P)

Cuttable(t, P, level) ==
    /\ t \in Seq(Units) /\ Len(t) \in Nat \ {0}
    /\ \A doc, full \in Seq(Units) : \A r \in Leftovers : \A e, pos \in Nat \ {0} :
          pos <= e => CutWithin(t, P, level, doc, full, r, e, pos)

(* A cut into the first unit of the text leaves nothing of the value, or   *)
(* the number 2 if this may be left of a code.                             *)
LEMMA CuttableInside ==
    ASSUME NEW t \in Seq(Units), Len(t) \in Nat \ {0}, NEW P, Nothing \subseteq P, NEW level,
           "002" \in LeftOf(t[1], level) => Two \in P,
           \A doc, full \in Seq(Units) : \A r \in Leftovers : \A e, pos \in Nat \ {0} :
               pos < e => CutWithin(t, P, level, doc, full, r, e, pos)
    PROVE  Cuttable(t, P, level)
<1> SUFFICES ASSUME NEW doc \in Seq(Units), NEW full \in Seq(Units), NEW r \in Leftovers,
                    NEW e \in Nat \ {0}, NEW pos \in Nat \ {0}, pos <= e
             PROVE  CutWithin(t, P, level, doc, full, r, e, pos)
  BY DEF Cuttable
<1>1. CASE pos < e
  BY <1>1
<1>2. CASE pos = e
  <2> SUFFICES ASSUME Stands(full, pos, t), CutAt(full, doc, e, r, level)
               PROVE  CutReads("value", doc, pos, P)
    BY DEF CutWithin
  <2>1. IsCut(full, doc, e, r) /\ r \in LeftOf(Peek(full, e), level)
    BY DEF CutAt
  <2>2. CutReads("value", doc, e, NothingFrom(r))
    BY <2>1, NothingIsRead
  <2>3. Peek(full, pos) = t[1]
    BY StandsFirst
  <2>4. NothingFrom(r) \subseteq P
    BY <1>2, <2>1, <2>3 DEF NothingFrom
  <2> QED
    BY <1>2, <2>2, <2>4, CutReadsMore
<1> QED
  BY <1>1, <1>2

LEMMA WordIsCuttable ==
    ASSUME NEW word \in Words, NEW level
    PROVE  Cuttable(<<word>>, Nothing, level)
<1>1. PICK t \in Seq(Units) : t = <<word>> /\ Len(t) = 1 /\ t[1] = word
  <2>1. word \in Units
    BY DEF Units
  <2>2. PICK t : t = <<word>>
    OBVIOUS
  <2>3. t \in Seq(Units) /\ Len(t) = 1 /\ t[1] = word
    BY <2>1, <2>2
  <2> QED
    BY <2>2, <2>3
<1>2. ASSUME NEW doc \in Seq(Units), NEW full \in Seq(Units), NEW r \in Leftovers,
             NEW e \in Nat \ {0}, NEW pos \in Nat \ {0}, pos < e
      PROVE  CutWithin(t, Nothing, level, doc, full, r, e, pos)
  <2>1. ~(e < pos + Len(t))
    BY <1>1, <1>2
  <2> QED
    BY <2>1 DEF CutWithin
<1>3. "002" \notin LeftOf(t[1], level)
  <2>1. FirstOf(word) \in {{"t"}, {"f"}, {"n"}}
    BY Zenon DEF FirstOf, Words
  <2>2. RestOf(word) = {}
    <3>1. word \notin Escaped
      <4>1. word \notin DOMAIN Code
        BY DEF Code, Words
      <4>2. word \notin {"\"", "\\", "newline"}
        BY Zenon DEF Words
      <4> QED
        BY <4>1, <4>2 DEF Escaped
    <3>2. word # Quote
      BY Zenon DEF Words, Quote
    <3> QED
      BY <3>1, <3>2 DEF RestOf, RestOfCode, Escaped
  <2> QED
    BY <1>1, <2>1, <2>2 DEF LeftOf
<1>4. Cuttable(t, Nothing, level)
  <2>1. PICK P : P = Nothing
    OBVIOUS
  <2>2. Nothing \subseteq P /\ Len(t) \in Nat \ {0}
    BY <1>1, <2>1
  <2>3. \A doc, full \in Seq(Units) : \A r \in Leftovers : \A e, pos \in Nat \ {0} :
            pos < e => CutWithin(t, P, level, doc, full, r, e, pos)
    BY <1>2, <2>1
  <2>4. Cuttable(t, P, level)
    BY <1>3, <2>2, <2>3, CuttableInside
  <2> QED
    BY <2>1, <2>4
<1> QED
  BY <1>1, <1>4

Strings(S) == {<<"string", s>> : s \in S}

LEMMA CutStringIsRead ==
    ASSUME NEW doc \in Seq(Units), NEW pos \in Nat, Peek(doc, pos) = Quote, pos <= Len(doc),
           NEW S, CutReads("string", doc, pos + 1, S),
           NEW n \in 1..(Len(doc) + 1), Len(doc) + 2 - pos <= n
    PROVE  \E s \in S : \E q \in Nat :
              ParseString(doc, pos, Reading(doc)[n - 1]) = Got(s, q) /\ Peek(doc, q) \in Leftovers
<1>1. PICK len \in Nat : len = Len(doc)
  OBVIOUS
<1>2. PICK n1 \in 1..(Len(doc) + 1) : n1 = n - 1 /\ Len(doc) + 2 - (pos + 1) <= n1
  BY <1>1, NextBudget
<1>3. PICK s \in S, q \in Nat :
         Reading(doc)[n1]["string"][pos + 1] = Got(s, q) /\ Peek(doc, q) \in Leftovers
  BY <1>2 DEF CutReads
<1>4. ParseString(doc, pos, Reading(doc)[n1]) = Reading(doc)[n1]["string"][pos + 1]
  BY Zenon DEF ParseString, Quote
<1> QED
  BY <1>2, <1>3, <1>4

(* A string that is cut is still a string, the end of the text ends it,    *)
(* unless the cut goes through the opening quote.                          *)
LEMMA StringIsCuttable ==
    ASSUME NEW s \in Seq(Contents), NEW writer, NEW level
    PROVE  Cuttable(Quoted(s, writer), Nothing \cup {Two} \cup Strings(StringParts(s, level)), level)
<1> DEFINE P == Nothing \cup {Two} \cup Strings(StringParts(s, level))
<1>1. PICK t \in Seq(Units) : t = Quoted(s, writer) /\ Len(t) \in Nat \ {0}
  BY QuotedParts, QuotedLength
<1>2. ASSUME NEW doc \in Seq(Units), NEW full \in Seq(Units), NEW r \in Leftovers,
             NEW e \in Nat \ {0}, NEW pos \in Nat \ {0}, pos < e,
             Stands(full, pos, t), CutAt(full, doc, e, r, level), e < pos + Len(t)
      PROVE  CutReads("value", doc, pos, P)
  <2>1. CutReads("string", doc, pos + 1, StringParts(s, level))
    <3>1. Stands(full, pos, Quoted(s, writer))
      BY <1>1, <1>2
    <3>2. e < pos + Len(Quoted(s, writer))
      BY <1>1, <1>2
    <3>3. pos \in Nat /\ pos < e
      BY <1>2
    <3> QED
      BY <1>2, <3>1, <3>2, <3>3, StringIsCut
  <2>2. IsCut(full, doc, e, r)
    BY <1>2 DEF CutAt
  <2>3. Peek(doc, pos) = Quote /\ pos <= Len(doc)
    <3>1. Peek(full, pos) = Quote
      <4>1. t[1] = Quote
        BY <1>1, QuotedParts, Zenon DEF Quote
      <4>2. Peek(full, pos) = t[1]
        BY <1>1, <1>2, StandsFirst
      <4> QED
        BY <4>1, <4>2
    <3>2. pos \in 1..(e - 1)
      BY <1>2
    <3>3. Peek(doc, pos) = Peek(full, pos)
      BY <2>2, <3>2 DEF IsCut
    <3>4. e <= Len(doc) + 1
      BY <2>2, CutEnds
    <3> QED
      BY <1>2, <3>1, <3>3, <3>4
  <2> SUFFICES ASSUME NEW n \in 1..(Len(doc) + 1), Len(doc) + 2 - pos <= n
               PROVE  \E p \in P : \E q \in Nat :
                         Reading(doc)[n]["value"][pos] = Got(p, q) /\ Peek(doc, q) \in Leftovers
    BY DEF CutReads
  <2>4. PICK w \in StringParts(s, level), q \in Nat :
           ParseString(doc, pos, Reading(doc)[n - 1]) = Got(w, q) /\ Peek(doc, q) \in Leftovers
    BY <2>1, <2>3, CutStringIsRead
  <2>5. PICK s1 : s1 = ParseString(doc, pos, Reading(doc)[n - 1]) /\ s1.value = w /\ s1.pos = q
    <3>1. PICK s1 : s1 = ParseString(doc, pos, Reading(doc)[n - 1])
      OBVIOUS
    <3>2. s1 = Got(w, q)
      BY <2>4, <3>1
    <3>3. s1.value = w /\ s1.pos = q
      BY <3>2 DEF Got
    <3> QED
      BY <3>1, <3>3
  <2>6. Reading(doc)[n]["value"][pos] = ParseValue(doc, pos, Reading(doc)[n - 1])
    BY ReadingEquations
  <2>7. ParseValue(doc, pos, Reading(doc)[n - 1]) = Got(<<"string", s1.value>>, s1.pos)
    BY <2>3, <2>5, Zenon DEF ParseValue, Quote
  <2>8. <<"string", w>> \in P
    BY Zenon DEF Strings
  <2> QED
    BY <2>4, <2>5, <2>6, <2>7, <2>8
<1>3. Cuttable(t, P, level)
  <2>1. \A doc, full \in Seq(Units) : \A r \in Leftovers : \A e, pos \in Nat \ {0} :
            pos < e => CutWithin(t, P, level, doc, full, r, e, pos)
    <3> HIDE DEF P
    <3> QED
      BY <1>2 DEF CutWithin
  <2>2. Nothing \subseteq P /\ Two \in P
    OBVIOUS
  <2> HIDE DEF P
  <2> QED
    BY <1>1, <2>1, <2>2, CuttableInside
<1> QED
  BY <1>1, <1>3

LEMMA NothingIsLeftOfDigits ==
    ASSUME NEW u \in Digits, NEW level PROVE LeftOf(u, level) = {"end"}
<1>1. u \in {"0", "1", "2"}
  BY DEF Digits
<1>2. Codes = {"00e9", "0001", "d83d", "de00", "0022"}
  BY CodesAreCodes
<1>3. DOMAIN Code = {"eacute", "control", "high", "low"}
  BY DEF Code
<1>4. FirstOf(u) = {}
  <2>1. u \notin Codes
    BY <1>1, <1>2
  <2> QED
    BY <1>1, <2>1, CutCodesAre DEF FirstOf
<1>5. u \notin {"\"", "\\", "newline"} /\ u # Quote
  BY <1>1, Zenon DEF Quote
<1>6. RestOf(u) = {}
  BY <1>1, <1>3, <1>5 DEF RestOf, RestOfCode, Escaped
<1> QED
  BY <1>4, <1>6 DEF LeftOf

LEMMA NothingIsLeftOfMinus == \A level : LeftOf("-", level) = {"end"}
<1>1. FirstOf("-") = {}
  <2>1. "-" \notin Codes
    BY CodesAreCodes
  <2> QED
    BY <2>1, CutCodesAre DEF FirstOf
<1>2. "-" \notin {"\"", "\\", "newline"} /\ "-" # Quote
  BY Zenon DEF Quote
<1>3. RestOf("-") = {}
  BY <1>2 DEF RestOf, RestOfCode, Escaped, Code
<1> QED
  BY <1>1, <1>3 DEF LeftOf

(* The digits before the cut.                                              *)
LEMMA CutNumberIsRead ==
    ASSUME NEW doc \in Seq(Units), NEW pos \in Nat \ {0}, NEW s \in Numerals,
           NEW k \in 1..Len(s), \A i \in 1..k : Peek(doc, pos + i - 1) = s[i],
           Len(doc) = pos + k - 1, k # Len(s)
    PROVE  \E p \in Nothing \cup NumberPieces(s) : \E q \in Nat :
              ParseNumber(doc, pos) = Got(p, q) /\ Peek(doc, q) \in Leftovers
<1>1. PICK e \in Nat \ {0} : e = pos + k /\ e = Len(doc) + 1
  OBVIOUS
<1>2. Peek(doc, e) = "end" /\ "end" \notin Digits /\ "end" \in Leftovers
  BY <1>1 DEF Peek, Digits, Leftovers
<1>3. Peek(doc, pos) = s[1]
  <2>1. 1 \in 1..k /\ pos + 1 - 1 = pos
    OBVIOUS
  <2> QED
    BY <2>1
<1>4. PICK start \in {pos, pos + 1} : start = Expect(doc, pos, "-")
  BY DEF Expect
<1>5. s[1] = "-" => start = pos + 1
  BY <1>3, <1>4 DEF Expect
<1>6. s[1] # "-" => start = pos
  BY <1>3, <1>4 DEF Expect
<1>7. ASSUME NEW q \in start..(e - 1) PROVE Peek(doc, q) \in Digits
  <2>1. PICK i \in 1..k : i = q - pos + 1 /\ pos + i - 1 = q
    BY <1>1, <1>4
  <2>2. Peek(doc, q) = s[i] /\ i \in 1..Len(s)
    BY <2>1
  <2>3. CASE i # 1
    BY <2>2, <2>3, NumeralParts
  <2>4. CASE i = 1
    <3>1. start = pos
      BY <1>4, <2>1, <2>4
    <3>2. s[1] # "-"
      BY <1>5, <3>1
    <3> QED
      BY <2>2, <2>4, <3>2, NumeralParts
  <2> QED
    BY <2>3, <2>4
<1>8. start <= e /\ start \in Nat \ {0}
  BY <1>1, <1>4
<1>9. Min({q \in start..(Len(doc) + 1) : Peek(doc, q) \notin Digits}) = e
  <2>1. e \in start..(Len(doc) + 1)
    BY <1>1, <1>8
  <2> QED
    BY <1>2, <1>7, <1>8, <2>1, DigitsEnd
<1>10. CASE e = start
  <2>1. PICK zero \in Nothing : zero = <<"number", <<"0">>>>
    BY DEF Nothing
  <2>2. ParseNumber(doc, pos) = Got(zero, e)
    BY <1>4, <1>9, <1>10, <2>1 DEF ParseNumber
  <2> QED
    BY <1>1, <1>2, <2>2
<1>11. CASE e # start
  <2>1. SubSeq(doc, pos, e - 1) = SubSeq(s, 1, k)
    <3>1. \A i \in 1..k : doc[pos + i - 1] = s[i]
      <4> SUFFICES ASSUME NEW i \in 1..k PROVE doc[pos + i - 1] = s[i]
        OBVIOUS
      <4>1. pos + i - 1 <= Len(doc)
        BY <1>1
      <4> QED
        BY <4>1 DEF Peek
    <3>2. PICK d : d = SubSeq(doc, pos, e - 1)
      OBVIOUS
    <3>3. d \in Seq(Units) /\ Len(d) = k /\ \A i \in 1..k : d[i] = doc[pos + i - 1]
      <4>1. PICK len \in Nat : len = Len(doc)
        OBVIOUS
      <4>2. pos \in 1..len /\ e - 1 \in 1..len /\ pos <= e - 1 /\ e = pos + k
        BY <1>1, <4>1
      <4> QED
        BY <3>2, <4>1, <4>2
    <3>4. PICK b : b = SubSeq(s, 1, k)
      OBVIOUS
    <3>5. b \in Seq(Units) /\ Len(b) = k /\ \A i \in 1..k : b[i] = s[i]
      <4>1. s \in Seq(Units)
        BY NumeralParts
      <4> QED
        BY <3>4, <4>1
    <3> QED
      BY <3>1, <3>2, <3>3, <3>4, <3>5, SeqEqual
  <2>2. s[k] \in Digits /\ k \in DOMAIN s
    <3>1. e - 1 \in start..(e - 1) /\ e - 1 = pos + k - 1 /\ k \in 1..k
      BY <1>1, <1>4, <1>8, <1>11
    <3>2. Peek(doc, e - 1) = s[k]
      BY <3>1
    <3>3. s \in Seq(Units)
      BY NumeralParts
    <3> QED
      BY <1>7, <3>1, <3>2, <3>3
  <2>3. PICK number : number = <<"number", SubSeq(s, 1, k)>>
    OBVIOUS
  <2>4. number \in NumberPieces(s)
    BY <2>2, <2>3, Zenon DEF NumberPieces
  <2>5. ParseNumber(doc, pos) = Got(number, e)
    BY <1>4, <1>9, <1>11, <2>1, <2>3 DEF ParseNumber
  <2> QED
    BY <1>1, <1>2, <2>4, <2>5
<1> QED
  BY <1>10, <1>11

(* A number is read up to the last digit before the cut.                   *)
LEMMA NumberIsCuttable ==
    ASSUME NEW s \in Numerals, NEW level
    PROVE  Cuttable(s, Nothing \cup NumberPieces(s), level)
<1> DEFINE P == Nothing \cup NumberPieces(s)
<1>1. s \in Seq(Units) /\ Len(s) \in Nat \ {0}
  BY NumeralParts
<1>2. ASSUME NEW doc \in Seq(Units), NEW full \in Seq(Units), NEW r \in Leftovers,
             NEW e \in Nat \ {0}, NEW pos \in Nat \ {0}, pos < e,
             Stands(full, pos, s), CutAt(full, doc, e, r, level), e < pos + Len(s)
      PROVE  CutReads("value", doc, pos, P)
  <2>1. PICK k \in 1..Len(s) : e = pos + k /\ k # Len(s) /\ k + 1 \in 1..Len(s)
    <3>1. e - pos \in 1..Len(s) /\ e = pos + (e - pos) /\ e - pos # Len(s)
          /\ e - pos + 1 \in 1..Len(s)
      BY <1>1, <1>2
    <3> QED
      BY <3>1
  <2>2. IsCut(full, doc, e, r)
    BY <1>2 DEF CutAt
  <2>3. ASSUME NEW i \in 1..k PROVE Peek(doc, pos + i - 1) = s[i]
    <3>1. Peek(full, pos + i - 1) = s[i]
      BY <1>1, <1>2 DEF Stands
    <3>2. PICK j \in 1..(e - 1) : j = pos + i - 1
      BY <2>1
    <3>3. Peek(doc, j) = Peek(full, j)
      BY <2>2 DEF IsCut
    <3> QED
      BY <3>1, <3>2, <3>3
  <2>4. r = "end"
    <3>1. PICK u \in Digits : u = s[k + 1]
      BY <2>1, NumeralParts
    <3>2. Peek(full, e) = u
      <4>1. Peek(full, pos + (k + 1) - 1) = s[k + 1] /\ pos + (k + 1) - 1 = e
        BY <1>1, <1>2, <2>1 DEF Stands
      <4> QED
        BY <3>1, <4>1
    <3>3. r \in LeftOf(u, level)
      BY <1>2, <3>2 DEF CutAt
    <3> QED
      BY <3>3, NothingIsLeftOfDigits
  <2>5. Len(doc) = pos + k - 1
    BY <2>1, <2>2, <2>4 DEF IsCut
  <2>6. PICK p \in P, q \in Nat :
           ParseNumber(doc, pos) = Got(p, q) /\ Peek(doc, q) \in Leftovers
    BY <2>1, <2>3, <2>5, CutNumberIsRead
  <2> SUFFICES ASSUME NEW n \in 1..(Len(doc) + 1)
               PROVE  Reading(doc)[n]["value"][pos] = Got(p, q)
    BY <2>6 DEF CutReads
  <2>7. Reading(doc)[n]["value"][pos] = ParseValue(doc, pos, Reading(doc)[n - 1])
    BY ReadingEquations
  <2>8. ParseValue(doc, pos, Reading(doc)[n - 1]) = ParseNumber(doc, pos)
    <3>1. Peek(doc, pos) = s[1]
      <4>1. 1 \in 1..k /\ pos + 1 - 1 = pos
        OBVIOUS
      <4> QED
        BY <2>3, <4>1
    <3>2. Peek(doc, pos) \in Digits \cup {"-"}
      BY <3>1, NumeralParts
    <3>3. Peek(doc, pos) \in {"0", "1", "2", "-"}
      BY <3>2 DEF Digits
    <3> QED
      BY <3>3, Zenon DEF ParseValue
  <2> QED
    BY <2>6, <2>7, <2>8
<1>3. \A doc, full \in Seq(Units) : \A r \in Leftovers : \A e, pos \in Nat \ {0} :
          pos < e => CutWithin(s, P, level, doc, full, r, e, pos)
  <2> HIDE DEF P
  <2> QED
    BY <1>2 DEF CutWithin
<1>4. Nothing \subseteq P
  OBVIOUS
<1>5. "002" \notin LeftOf(s[1], level)
  <2>1. s[1] \in Digits \cup {"-"}
    BY NumeralParts
  <2>2. LeftOf("-", level) = {"end"}
    BY NothingIsLeftOfMinus
  <2>3. LeftOf(s[1], level) = {"end"}
    BY <2>1, <2>2, NothingIsLeftOfDigits
  <2> QED
    BY <2>3
<1> HIDE DEF P
<1>6. Cuttable(s, P, level)
  BY <1>1, <1>3, <1>4, <1>5, CuttableInside
<1> QED
  BY <1>6 DEF P
-----------------------------------------------------------------------------
(***************************************************************************)
(* Arrays: the first elements, of the last one perhaps only a part.        *)
(***************************************************************************)

LEMMA ReadBeforeCut ==
    ASSUME NEW doc \in Seq(Units), NEW from \in Nat, NEW t, NEW v, NEW to \in Nat,
           IsRead(doc, from, t, v), Len(t) \in Nat, to = from + Len(t), to <= Len(doc) + 1,
           Peek(doc, to) \in Leftovers
    PROVE  CutReads("value", doc, from, {v})
<1> SUFFICES ASSUME NEW n \in 1..(Len(doc) + 1), Len(doc) + 2 - from <= n
             PROVE  Reading(doc)[n]["value"][from] = Got(v, to)
  BY DEF CutReads
<1>1. PICK len \in Nat : len = Len(t)
  OBVIOUS
<1>2. PICK d \in Nat : d = Len(doc)
  OBVIOUS
<1>3. to = from + len
  BY <1>1
<1>4. len <= n
  BY <1>2, <1>3
<1>5. Reading(doc)[n]["value"][from] = Got(v, from + len)
  BY <1>1, <1>4 DEF IsRead
<1> QED
  BY <1>3, <1>5

(* The elements of an array that is cut: some complete ones, and perhaps a *)
(* part of the next.                                                       *)
Arrays(L) == {<<"array", l>> : l \in L}

LastPart(P) == {<<>>} \cup {<<p>> : p \in P}

(* A list ends with the element that is cut.                               *)
LEMMA LastElementIsCut ==
    ASSUME NEW doc \in Seq(Units), NEW from \in Nat, NEW P, CutReads("value", doc, from, P)
    PROVE  CutReads("elements", doc, from, Arrays(LastPart(P)))
<1> SUFFICES ASSUME NEW n \in 1..(Len(doc) + 1), Len(doc) + 2 - from <= n
             PROVE  \E a \in Arrays(LastPart(P)) : \E q \in Nat :
                       Reading(doc)[n]["elements"][from] = Got(a, q) /\ Peek(doc, q) \in Leftovers
  BY DEF CutReads
<1>1. PICK p \in P, q \in Nat :
         Reading(doc)[n]["value"][from] = Got(p, q) /\ Peek(doc, q) \in Leftovers
  BY DEF CutReads
<1>2. PICK v1 : v1 = ParseValue(doc, from, Reading(doc)[n - 1]) /\ v1.value = p /\ v1.pos = q
  <2>1. Reading(doc)[n]["value"][from] = ParseValue(doc, from, Reading(doc)[n - 1])
    BY ReadingEquations
  <2>2. PICK v1 : v1 = ParseValue(doc, from, Reading(doc)[n - 1]) /\ v1 = Got(p, q)
    BY <1>1, <2>1
  <2> QED
    BY <2>2 DEF Got
<1>3. Reading(doc)[n]["elements"][from] = Elements(doc, from, Reading(doc)[n - 1])
  BY ReadingEquations
<1>4. Peek(doc, q) # Comma /\ Peek(doc, q) # "]"
  BY <1>1, LeftoversAreNoMarks
<1>5. CASE from > Len(doc)
  <2>1. Elements(doc, from, Reading(doc)[n - 1]) = Got(<<"array", <<>>>>, from)
    BY <1>5, Zenon DEF Elements
  <2>2. Peek(doc, from) \in Leftovers
    BY <1>5 DEF Peek, Leftovers
  <2>3. <<"array", <<>>>> \in Arrays(LastPart(P))
    BY Zenon DEF Arrays, LastPart
  <2> QED
    BY <1>3, <2>1, <2>2, <2>3
<1>6. CASE ~(from > Len(doc))
  <2>1. Expect(doc, q, "]") = q
    BY <1>4 DEF Expect
  <2>2. Elements(doc, from, Reading(doc)[n - 1]) = Got(<<"array", <<p>>>>, q)
    BY <1>2, <1>4, <1>6, <2>1, Zenon DEF Elements, Comma
  <2>3. <<"array", <<p>>>> \in Arrays(LastPart(P))
    BY Zenon DEF Arrays, LastPart
  <2> QED
    BY <1>1, <1>3, <2>2, <2>3
<1> QED
  BY <1>5, <1>6

(* An element that is complete comes before what is read of the others.    *)
LEMMA ElementBeforeCut ==
    ASSUME NEW doc \in Seq(Units), NEW from \in Nat, NEW t, NEW v, NEW to \in Nat,
           ElementStands(doc, from, t, v, to), Peek(doc, to - 1) = Comma, to <= Len(doc) + 1,
           NEW L, CutReads("elements", doc, to, Arrays(L))
    PROVE  CutReads("elements", doc, from, Arrays(Before(v, L)))
<1> SUFFICES ASSUME NEW n \in 1..(Len(doc) + 1), Len(doc) + 2 - from <= n
             PROVE  \E a \in Arrays(Before(v, L)) : \E q \in Nat :
                       Reading(doc)[n]["elements"][from] = Got(a, q) /\ Peek(doc, q) \in Leftovers
  BY DEF CutReads
<1>0. from + 1 < to /\ to - 1 + 1 = to
  BY ElementIsNext
<1>1. PICK v1 : /\ v1 = ParseValue(doc, from, Reading(doc)[n - 1])
                /\ v1.value = v /\ v1.pos = to - 1
                /\ ~(from > Len(doc)) /\ v1.pos # from
  <2>1. PICK d \in Nat : d = Len(doc)
    OBVIOUS
  <2>2. to - from <= n
    BY <1>0, <2>1
  <2> QED
    BY <2>2, ElementIsNext
<1>2. PICK n1 \in 1..(Len(doc) + 1) : n1 = n - 1 /\ Len(doc) + 2 - to <= n1
  <2>1. PICK d \in Nat : d = Len(doc)
    OBVIOUS
  <2>2. from < to
    BY <1>0
  <2> QED
    BY <2>1, <2>2, NextBudget
<1>3. PICK a \in Arrays(L), q \in Nat :
         Reading(doc)[n1]["elements"][to] = Got(a, q) /\ Peek(doc, q) \in Leftovers
  BY <1>2 DEF CutReads
<1>4. PICK l \in L : a = <<"array", l>>
  BY Zenon DEF Arrays
<1>5. PICK rest : rest = Reading(doc)[n - 1]["elements"][v1.pos + 1] /\ rest = Got(a, q)
  BY <1>0, <1>1, <1>2, <1>3
<1>6. rest.value[2] = l /\ rest.pos = q
  BY <1>4, <1>5 DEF Got
<1>7. Reading(doc)[n]["elements"][from] = Elements(doc, from, Reading(doc)[n - 1])
  BY ReadingEquations
<1>8. PICK b : b = <<"array", <<v>> \o l>>
  OBVIOUS
<1>9. Elements(doc, from, Reading(doc)[n - 1]) = Got(b, q)
  BY <1>1, <1>5, <1>6, <1>8 DEF Elements, Comma
<1>10. b \in Arrays(Before(v, L))
  BY <1>8, Zenon DEF Arrays, Before
<1> QED
  BY <1>3, <1>7, <1>9, <1>10

FirstElementsStand(doc, start, ts, vs, m) ==
    /\ start \in [1..m -> Nat]
    /\ \A i \in 1..(m - 1) : /\ ElementStands(doc, start[i], ts[i], vs[i], start[i + 1])
                             /\ Peek(doc, start[i + 1] - 1) = Comma

(* So do all the elements before the one that is cut.                      *)
LEMMA ElementsBeforeCut ==
    ASSUME NEW doc \in Seq(Units), NEW U, NEW vs \in Seq(U), NEW ts, NEW m \in 1..Len(vs),
           NEW start, FirstElementsStand(doc, start, ts, vs, m), start[m] <= Len(doc) + 1,
           NEW L \in SUBSET Seq(U), CutReads("elements", doc, start[m], Arrays(L))
    PROVE  CutReads("elements", doc, start[1], Arrays(Beginnings(vs, 1, m, L)))
<1> DEFINE Rest(i) == /\ start[i] <= Len(doc) + 1
                      /\ CutReads("elements", doc, start[i], Arrays(Beginnings(vs, i, m, L)))
           T == {i \in 1..m : Rest(i)}
<1>1. m \in T
  <2>1. SubSeq(vs, m, m - 1) = <<>>
    BY SubSeqEmpty
  <2>2. \A l \in L : <<>> \o l = l
    BY ConcatEmptySeq
  <2>3. Beginnings(vs, m, m, L) = L
    BY <2>1, <2>2 DEF Beginnings
  <2> QED
    BY <2>3
<1>2. ASSUME NEW i \in 1..m, i # m, Rest(i + 1) PROVE Rest(i)
  <2>1. i \in 1..(m - 1) /\ i + 1 \in 1..m /\ i \in 1..Len(vs)
    BY <1>2
  <2>2. PICK a \in Nat, b \in Nat : a = start[i] /\ b = start[i + 1]
    BY <2>1 DEF FirstElementsStand
  <2>3. PICK t, v : t = ts[i] /\ v = vs[i]
    OBVIOUS
  <2>4. ElementStands(doc, a, t, v, b) /\ Peek(doc, b - 1) = Comma
    BY <2>1, <2>2, <2>3 DEF FirstElementsStand
  <2>5. PICK Q : Q = Beginnings(vs, i + 1, m, L)
    OBVIOUS
  <2>6. b <= Len(doc) + 1 /\ CutReads("elements", doc, b, Arrays(Q))
    BY <1>2, <2>2, <2>5
  <2>7. CutReads("elements", doc, a, Arrays(Before(v, Q)))
    <3>1. ElementStands(doc, a, t, v, b)
      BY <2>4
    <3>2. Peek(doc, b - 1) = Comma
      BY <2>4
    <3>3. b <= Len(doc) + 1
      BY <2>6
    <3>4. CutReads("elements", doc, b, Arrays(Q))
      BY <2>6
    <3> QED
      BY <3>1, <3>2, <3>3, <3>4, ElementBeforeCut
  <2>8. Before(v, Q) = Beginnings(vs, i, m, L)
    <3>1. m \in 1..(Len(vs) + 1)
      OBVIOUS
    <3> QED
      BY <2>1, <2>3, <2>5, <3>1, OneUnitBefore
  <2>9. a <= Len(doc) + 1
    <3>1. a < b
      BY <2>4, ElementIsNext
    <3> QED
      BY <2>6, <3>1
  <2> QED
    BY <2>2, <2>7, <2>8, <2>9
<1> HIDE DEF Rest
<1>3. \A i \in 1..m : i # m /\ i + 1 \in T => i \in T
  BY <1>2
<1>4. 1..m \subseteq T
  <2>1. m \in Nat \ {0}
    OBVIOUS
  <2> HIDE DEF T
  <2> QED
    BY <1>1, <1>3, <2>1, IndexInduction
<1>5. Rest(1)
  <2>1. 1 \in 1..m
    OBVIOUS
  <2> QED
    BY <1>4, <2>1
<1> QED
  BY <1>5 DEF Rest

LEMMA BeforeTheCut ==
    ASSUME NEW k \in Nat, NEW at \in [1..(k + 1) -> Nat], \A i \in 1..k : at[i] <= at[i + 1],
           NEW e \in Nat, NEW m \in 1..k, at[m] <= e
    PROVE  \A i \in 1..m : at[i] <= e
<1> DEFINE T == {i \in 1..m : at[i] <= e}
<1>1. m \in Nat \ {0} /\ m \in T
  OBVIOUS
<1>2. \A i \in 1..m : i # m /\ i + 1 \in T => i \in T
  <2> SUFFICES ASSUME NEW i \in 1..m, i # m, at[i + 1] <= e PROVE at[i] <= e
    OBVIOUS
  <2>1. i \in 1..k /\ i \in 1..(k + 1) /\ i + 1 \in 1..(k + 1)
    OBVIOUS
  <2>2. at[i] \in Nat /\ at[i + 1] \in Nat /\ at[i] <= at[i + 1]
    BY <2>1
  <2> QED
    BY <2>2
<1> HIDE DEF T
<1>3. 1..m \subseteq T
  BY <1>1, <1>2, IndexInduction
<1> QED
  BY <1>3 DEF T

(* A cut leaves something only of the unit it goes through.                *)
LEMMA CutUnit ==
    ASSUME NEW full, NEW doc, NEW e \in Nat \ {0}, NEW r, IsCut(full, doc, e, r),
           NEW pos \in Nat \ {0}, pos < e
    PROVE  Peek(doc, pos) = Peek(full, pos)
<1>1. pos \in 1..(e - 1)
  OBVIOUS
<1> QED
  BY <1>1 DEF IsCut

(* At a mark nothing is left.                                              *)
LEMMA CutAtMark ==
    ASSUME NEW full, NEW doc, NEW e \in Nat \ {0}, NEW r, NEW level, CutAt(full, doc, e, r, level),
           Peek(full, e) \in {Comma, RightBrace, "]", ":"}
    PROVE  r = "end" /\ Peek(doc, e) = "end"
<1>1. r \in LeftOf(Peek(full, e), level)
  BY DEF CutAt
<1>2. r = "end"
  BY <1>1, NothingIsLeftOfMarks
<1>3. Peek(doc, e) = r
  BY DEF CutAt, IsCut
<1> QED
  BY <1>2, <1>3

Marked == {Comma, RightBrace, "]"}

LEMMA MarkedAreNoDigits == "end" \notin Digits /\ \A u \in Marked : u \notin Digits
<1>1. "end" \notin Digits /\ "]" \notin Digits
  BY DEF Digits
<1> QED
  BY <1>1, MarksAreDifferent DEF Marked

(* A value that is cut, or at the mark after it.                           *)
LEMMA PlacedIsCut ==
    ASSUME NEW t, NEW v, NEW P, NEW level, Readable(t, v), Cuttable(t, P, level), v \in P,
           NEW doc \in Seq(Units), NEW full \in Seq(Units), NEW r \in Leftovers, NEW e \in Nat \ {0},
           CutAt(full, doc, e, r, level), NEW a \in Nat \ {0}, Stands(full, a, t),
           a <= e, e <= a + Len(t), Peek(full, a + Len(t)) \in Marked
    PROVE  CutReads("value", doc, a, P)
<1>1. PICK len \in Nat : len = Len(t) /\ t \in Seq(Units)
  BY DEF Readable
<1>2. PICK to \in Nat \ {0} : to = a + Len(t) /\ to = a + len
  BY <1>1
<1>3. CASE e < to
  <2>1. CutWithin(t, P, level, doc, full, r, e, a)
    BY DEF Cuttable
  <2>2. e < a + Len(t)
    BY <1>2, <1>3
  <2> QED
    BY <2>1, <2>2 DEF CutWithin
<1>4. CASE e = to
  <2>1. IsCut(full, doc, e, r)
    BY DEF CutAt
  <2>2. Peek(full, e) \in {Comma, RightBrace, "]", ":"}
    BY <1>2, <1>4 DEF Marked
  <2>3. Peek(doc, e) = "end"
    BY <2>2, CutAtMark
  <2>4. a + Len(t) <= e
    BY <1>2, <1>4
  <2>5. Stands(doc, a, t)
    BY <1>1, <2>1, <2>4, StandsBeforeCut
  <2>6. Peek(doc, a + Len(t)) \notin Digits
    BY <1>2, <1>4, <2>3, MarkedAreNoDigits
  <2>7. IsRead(doc, a, t, v)
    BY <2>5, <2>6 DEF Readable
  <2>8. e <= Len(doc) + 1
    BY <2>1, CutEnds
  <2>9. Peek(doc, to) \in Leftovers
    BY <1>4, <2>3 DEF Leftovers
  <2>10. to <= Len(doc) + 1
    BY <1>4, <2>8
  <2>11. CutReads("value", doc, a, {v})
    <3>1. a \in Nat /\ to \in Nat /\ Len(t) \in Nat
      BY <1>1
    <3>2. to = a + Len(t)
      BY <1>2
    <3> QED
      BY <2>7, <2>9, <2>10, <3>1, <3>2, ReadBeforeCut
  <2>12. {v} \subseteq P
    OBVIOUS
  <2> QED
    BY <2>11, <2>12, CutReadsMore
<1> QED
  BY <1>1, <1>2, <1>3, <1>4

LEMMA PlacedElement ==
    ASSUME NEW t, NEW v, Readable(t, v),
           NEW doc \in Seq(Units), NEW full \in Seq(Units), NEW r, NEW e \in Nat \ {0},
           IsCut(full, doc, e, r), NEW a \in Nat \ {0}, Stands(full, a, t),
           NEW to \in Nat, to = a + Len(t) + 1, to <= e, Peek(full, a + Len(t)) = Comma
    PROVE  ElementStands(doc, a, t, v, to) /\ Peek(doc, to - 1) = Comma
<1>1. PICK len \in Nat \ {0} : len = Len(t) /\ t \in Seq(Units)
  BY DEF Readable
<1>2. PICK mark \in Nat \ {0} : mark = a + len /\ mark = a + Len(t) /\ mark = to - 1 /\ mark < e
  BY <1>1
<1>3. Peek(doc, mark) = Comma
  <2>1. Peek(doc, mark) = Peek(full, mark)
    BY <1>2, CutUnit
  <2> QED
    BY <1>2, <2>1
<1>4. Stands(doc, a, t)
  <2>1. a + Len(t) <= e
    BY <1>2
  <2> QED
    BY <1>1, <2>1, StandsBeforeCut
<1>5. IsRead(doc, a, t, v)
  <2>1. Peek(doc, a + Len(t)) \notin Digits
    BY <1>2, <1>3, MarksAreDifferent
  <2> QED
    BY <1>4, <2>1 DEF Readable
<1>6. a <= Len(doc)
  <2>1. Len(t) \in Nat \ {0} /\ a \in Nat
    BY <1>1
  <2> QED
    BY <1>1, <1>4, <2>1, StandsInside
<1> QED
  BY <1>1, <1>2, <1>3, <1>5, <1>6 DEF ElementStands

LEMMA CutArrayIsRead ==
    ASSUME NEW doc \in Seq(Units), NEW pos \in Nat, Peek(doc, pos) = "[", pos <= Len(doc),
           Peek(doc, pos + 1) # "]", NEW A, CutReads("elements", doc, pos + 1, A)
    PROVE  CutReads("value", doc, pos, A)
<1> SUFFICES ASSUME NEW n \in 1..(Len(doc) + 1), Len(doc) + 2 - pos <= n
             PROVE  \E a \in A : \E q \in Nat :
                       Reading(doc)[n]["value"][pos] = Got(a, q) /\ Peek(doc, q) \in Leftovers
  BY DEF CutReads
<1>1. PICK len \in Nat : len = Len(doc)
  OBVIOUS
<1>2. PICK n1 \in 1..(Len(doc) + 1) : n1 = n - 1 /\ Len(doc) + 2 - (pos + 1) <= n1
  BY <1>1, NextBudget
<1>3. Reading(doc)[n]["value"][pos] = ParseValue(doc, pos, Reading(doc)[n1])
  BY <1>2, ReadingEquations
<1>4. ParseValue(doc, pos, Reading(doc)[n1]) = Reading(doc)[n1]["elements"][pos + 1]
  BY Zenon DEF ParseValue
<1>5. \E a \in A : \E q \in Nat :
          Reading(doc)[n1]["elements"][pos + 1] = Got(a, q) /\ Peek(doc, q) \in Leftovers
  BY <1>2 DEF CutReads
<1> QED
  BY <1>3, <1>4, <1>5

LEMMA NoElement ==
    ASSUME NEW doc \in Seq(Units), NEW from \in Nat, from > Len(doc)
    PROVE  CutReads("elements", doc, from, Arrays({<<>>}))
<1> SUFFICES ASSUME NEW n \in 1..(Len(doc) + 1)
             PROVE  \E a \in Arrays({<<>>}) :
                       Reading(doc)[n]["elements"][from] = Got(a, from) /\ Peek(doc, from) \in Leftovers
  BY DEF CutReads
<1>1. Reading(doc)[n]["elements"][from] = Elements(doc, from, Reading(doc)[n - 1])
  BY ReadingEquations
<1>2. Elements(doc, from, Reading(doc)[n - 1]) = Got(<<"array", <<>>>>, from)
  BY Zenon DEF Elements
<1>3. Peek(doc, from) \in Leftovers
  BY DEF Peek, Leftovers
<1>4. <<"array", <<>>>> \in Arrays({<<>>})
  BY Zenon DEF Arrays
<1> QED
  BY <1>1, <1>2, <1>3, <1>4

LEMMA BeginningIsASeq ==
    ASSUME NEW U, NEW s \in Seq(U), NEW k \in 0..Len(s)
    PROVE  SubSeq(s, 1, k) \in Seq(U)
<1>1. \A i \in 1..k : s[i] \in U
  OBVIOUS
<1>2. 1 \in Int /\ k \in Int
  OBVIOUS
<1> QED
  BY <1>1, <1>2, SubSeqProperties

ListIsCutAt(full, start, ts, m, k, e, mark) ==
    /\ m = k => start[m] + Len(ts[m]) = mark
    /\ start[m] <= e /\ e <= start[m] + Len(ts[m])
    /\ start[m + 1] = start[m] + Len(ts[m]) + 1
    /\ \A i \in 1..m : /\ start[i] \in Nat \ {0} /\ start[i] <= e
                       /\ start[i + 1] = start[i] + Len(ts[i]) + 1
                       /\ Stands(full, start[i], ts[i])
                       /\ i # m => Peek(full, start[i] + Len(ts[i])) = Comma

(* Of texts that stand one after the other, which one is cut, and those    *)
(* before it.                                                              *)
LEMMA WhereListIsCut ==
    ASSUME NEW k \in Nat \ {0}, NEW ts \in Seq(Seq(Units)), Len(ts) = k,
           NEW full, NEW pos \in Nat \ {0}, NEW end \in Nat, NEW mark \in Nat, end = mark + 1, NEW start,
           StandSeparated(full, start, ts, k, pos, end), NEW e \in Nat \ {0}, pos <= e, e < end
    PROVE  \E m \in 1..k : ListIsCutAt(full, start, ts, m, k, e, mark)
<1>1. /\ start \in [1..(k + 1) -> Nat] /\ start[1] = pos /\ start[k + 1] = end
      /\ \A i \in 1..k :
           /\ pos <= start[i] /\ start[i + 1] = start[i] + Len(ts[i]) + 1
           /\ Stands(full, start[i], ts[i])
           /\ i # k => Peek(full, start[i] + Len(ts[i])) = Comma
  BY DEF StandSeparated
<1>2. PICK m \in 1..k : start[m] <= e /\ e < start[m + 1]
  <2>1. start[1] <= e /\ e < start[k + 1]
    BY <1>1
  <2> QED
    BY <1>1, <2>1, WhereCut
<1>3. \A i \in 1..k : Len(ts[i]) \in Nat /\ start[i] \in Nat /\ start[i + 1] \in Nat
  <2> SUFFICES ASSUME NEW i \in 1..k
               PROVE  Len(ts[i]) \in Nat /\ start[i] \in Nat /\ start[i + 1] \in Nat
    OBVIOUS
  <2>1. i \in 1..Len(ts) /\ i \in 1..(k + 1) /\ i + 1 \in 1..(k + 1)
    OBVIOUS
  <2>2. ts[i] \in Seq(Units)
    BY <2>1
  <2> QED
    BY <1>1, <2>1, <2>2
<1>4. \A i \in 1..m : start[i] <= e
  <2>1. \A i \in 1..k : start[i] <= start[i + 1]
    <3> SUFFICES ASSUME NEW i \in 1..k PROVE start[i] <= start[i + 1]
      OBVIOUS
    <3>1. PICK a \in Nat, b \in Nat, l \in Nat : a = start[i] /\ b = start[i + 1] /\ l = Len(ts[i])
      BY <1>3
    <3>2. b = a + l + 1
      BY <1>1, <3>1
    <3> QED
      BY <3>1, <3>2
  <2> QED
    BY <1>1, <1>2, <2>1, BeforeTheCut
<1>5. ASSUME NEW i \in 1..m
      PROVE  /\ start[i] \in Nat \ {0} /\ start[i] <= e
             /\ start[i + 1] = start[i] + Len(ts[i]) + 1
             /\ Stands(full, start[i], ts[i])
             /\ i # m => Peek(full, start[i] + Len(ts[i])) = Comma
  <2>1. i \in 1..k /\ (i # m => i # k)
    OBVIOUS
  <2>2. pos <= start[i] /\ start[i] \in Nat
    BY <1>1, <1>3, <2>1
  <2>3. start[i] \in Nat \ {0}
    BY <2>2
  <2>4. /\ start[i + 1] = start[i] + Len(ts[i]) + 1
        /\ Stands(full, start[i], ts[i])
        /\ i # m => Peek(full, start[i] + Len(ts[i])) = Comma
    BY <1>1, <2>1
  <2> QED
    BY <1>4, <2>3, <2>4
<1>6. e <= start[m] + Len(ts[m]) /\ start[m + 1] = start[m] + Len(ts[m]) + 1
  <2>1. PICK a \in Nat, l \in Nat : a = start[m] /\ l = Len(ts[m]) /\ start[m + 1] = a + l + 1
    BY <1>1, <1>3
  <2>2. e <= a + l
    BY <1>2, <2>1
  <2> QED
    BY <2>1, <2>2
<1>7. ASSUME m = k PROVE start[m] + Len(ts[m]) = mark
  <2>1. PICK a \in Nat, l \in Nat : a = start[m] /\ l = Len(ts[m])
    BY <1>3
  <2>2. a + l + 1 = end
    BY <1>1, <1>6, <1>7, <2>1
  <2>3. a + l = mark
    BY <2>2
  <2> QED
    BY <2>1, <2>3
<1> QED
  BY <1>2, <1>5, <1>6, <1>7 DEF ListIsCutAt


ArrayParts(vs, Ps) ==
    {<<"array", SubSeq(vs, 1, k)>> : k \in 0..Len(vs)} \cup
    UNION {ElementParts(vs, k, Ps[k]) : k \in DOMAIN vs}

LEMMA BeginningsAreArrayParts ==
    ASSUME NEW U, NEW vs \in Seq(U), NEW Ps, NEW m \in 1..Len(vs), Ps[m] \subseteq U
    PROVE  Arrays(Beginnings(vs, 1, m, LastPart(Ps[m]))) \subseteq ArrayParts(vs, Ps)
<1>1. PICK some \in Seq(U) : some = SubSeq(vs, 1, m - 1)
  <2>1. m - 1 \in 0..Len(vs)
    OBVIOUS
  <2> QED
    BY <2>1, BeginningIsASeq
<1>2. m - 1 \in 0..Len(vs) /\ m \in DOMAIN vs
  OBVIOUS
<1>3. some \o <<>> = some
  BY ConcatEmptySeq
<1>4. \A p \in Ps[m] : some \o <<p>> = Append(some, p)
  BY AppendIsConcat
<1> SUFFICES ASSUME NEW l \in LastPart(Ps[m]) PROVE <<"array", some \o l>> \in ArrayParts(vs, Ps)
  BY <1>1, Zenon DEF Arrays, Beginnings
<1>5. CASE l = <<>>
  BY <1>1, <1>2, <1>3, <1>5, Zenon DEF ArrayParts
<1>6. CASE l # <<>>
  <2>1. PICK p \in Ps[m] : l = <<p>>
    BY <1>6, Zenon DEF LastPart
  <2>2. some \o l = Append(some, p)
    BY <1>4, <2>1
  <2>3. <<"array", Append(SubSeq(vs, 1, m - 1), p)>> \in ArrayParts(vs, Ps)
    <3>1. <<"array", Append(SubSeq(vs, 1, m - 1), p)>> \in ElementParts(vs, m, Ps[m])
      BY DEF ElementParts
    <3> QED
      BY <1>2, <3>1, Zenon DEF ArrayParts
  <2> QED
    BY <1>1, <2>2, <2>3
<1> QED
  BY <1>5, <1>6

AllCuttable(ts, vs, Ps, k, level) ==
    \A i \in 1..k : Readable(ts[i], vs[i]) /\ Cuttable(ts[i], Ps[i], level) /\ vs[i] \in Ps[i]

(* Wherever the elements are cut, what is read are the first of them.      *)
LEMMA ElementsAreCut ==
    ASSUME NEW U, NEW vs \in Seq(U), NEW k \in Nat \ {0}, Len(vs) = k,
           NEW ts \in Seq(Seq(Units)), Len(ts) = k, NEW Ps, NEW level,
           AllCuttable(ts, vs, Ps, k, level), \A i \in 1..k : Ps[i] \subseteq U,
           NEW doc \in Seq(Units), NEW full \in Seq(Units), NEW r \in Leftovers, NEW e \in Nat \ {0},
           CutAt(full, doc, e, r, level), NEW pos \in Nat \ {0}, Stands(full, pos, Separated(ts)),
           NEW end \in Nat \ {0}, end = pos + Len(Separated(ts)), Peek(full, end) = "]",
           pos <= e, e <= end
    PROVE  CutReads("elements", doc, pos, ArrayParts(vs, Ps))
<1>0. PICK last \in Nat : last = end + 1 /\ last = pos + Len(Separated(ts)) + 1
  OBVIOUS
<1>1. PICK start : StandSeparated(full, start, ts, k, pos, last)
  <2>1. \E start : StandSeparated(full, start, ts, k, pos, pos + Len(Separated(ts)) + 1)
    BY SeparatedStands
  <2> QED
    BY <1>0, <2>1
<1>2. IsCut(full, doc, e, r) /\ e <= Len(doc) + 1
  <2>1. IsCut(full, doc, e, r)
    BY DEF CutAt
  <2> QED
    BY <2>1, CutEnds
<1>3a. PICK m \in 1..k : ListIsCutAt(full, start, ts, m, k, e, end)
  <2>1. e < last
    BY <1>0
  <2>2. last = end + 1 /\ last \in Nat /\ end \in Nat
    BY <1>0
  <2> QED
    BY <1>1, <2>1, <2>2, WhereListIsCut
<1>3. /\ start[m] <= e /\ e <= start[m] + Len(ts[m])
      /\ m = k => start[m] + Len(ts[m]) = end
      /\ \A i \in 1..m : /\ start[i] \in Nat \ {0} /\ start[i] <= e
                         /\ start[i + 1] = start[i] + Len(ts[i]) + 1
                         /\ Stands(full, start[i], ts[i])
                         /\ i # m => Peek(full, start[i] + Len(ts[i])) = Comma
  BY <1>3a DEF ListIsCutAt
<1>4. PICK t, v, P : t = ts[m] /\ v = vs[m] /\ P = Ps[m]
  OBVIOUS
<1>5. Readable(t, v) /\ Cuttable(t, P, level) /\ v \in P
  BY <1>4 DEF AllCuttable
<1>6. PICK a \in Nat \ {0} : a = start[m] /\ Stands(full, a, t) /\ a <= e /\ e <= a + Len(t)
  <2>1. m \in 1..m
    OBVIOUS
  <2> QED
    BY <1>3, <1>4, <2>1
<1>7. Peek(full, a + Len(t)) \in Marked
  <2>1. CASE m = k
    <3>1. a + Len(t) = end
      BY <1>3, <1>4, <1>6, <2>1
    <3> QED
      BY <3>1 DEF Marked
  <2>2. CASE m # k
    <3>1. Peek(full, start[m] + Len(ts[m])) = Comma
      BY <1>1, <2>2 DEF StandSeparated
    <3> QED
      BY <1>4, <1>6, <3>1 DEF Marked
  <2> QED
    BY <2>1, <2>2
<1>8. CutReads("value", doc, a, P)
  BY <1>5, <1>6, <1>7, PlacedIsCut
<1>9. CutReads("elements", doc, a, Arrays(LastPart(P)))
  BY <1>8, LastElementIsCut
<1>10. PICK up : up = [i \in 1..m |-> start[i]]
  OBVIOUS
<1>11. FirstElementsStand(doc, up, ts, vs, m)
  <2>1. up \in [1..m -> Nat]
    BY <1>3, <1>10
  <2>2. ASSUME NEW i \in 1..(m - 1)
        PROVE  /\ ElementStands(doc, up[i], ts[i], vs[i], up[i + 1])
               /\ Peek(doc, up[i + 1] - 1) = Comma
    <3>1. i \in 1..m /\ i + 1 \in 1..m /\ i # m /\ i \in 1..k
      OBVIOUS
    <3>2. PICK b \in Nat \ {0}, to \in Nat \ {0} : b = start[i] /\ to = start[i + 1]
      BY <1>3, <3>1
    <3>3. PICK t1, v1 : t1 = ts[i] /\ v1 = vs[i]
      OBVIOUS
    <3>4. Readable(t1, v1)
      BY <3>1, <3>3 DEF AllCuttable
    <3>5. Stands(full, b, t1) /\ to = b + Len(t1) + 1
      BY <1>3, <3>1, <3>2, <3>3
    <3>6. to <= e
      BY <1>3, <3>1, <3>2
    <3>7. Peek(full, b + Len(t1)) = Comma
      BY <1>3, <3>1, <3>2, <3>3
    <3>8. ElementStands(doc, b, t1, v1, to) /\ Peek(doc, to - 1) = Comma
      <4>1. IsCut(full, doc, e, r)
        BY <1>2
      <4>2. Stands(full, b, t1)
        BY <3>5
      <4>3. to = b + Len(t1) + 1 /\ to \in Nat
        BY <3>5
      <4> QED
        BY <3>4, <3>6, <3>7, <4>1, <4>2, <4>3, PlacedElement
    <3>9. up[i] = b /\ up[i + 1] = to
      BY <1>10, <3>1, <3>2
    <3> QED
      BY <3>3, <3>8, <3>9
  <2> QED
    BY <2>1, <2>2 DEF FirstElementsStand
<1>12. up[m] = a /\ up[1] = pos
  <2>1. m \in 1..m /\ 1 \in 1..m
    OBVIOUS
  <2>2. start[1] = pos
    BY <1>1 DEF StandSeparated
  <2> QED
    BY <1>6, <1>10, <2>1, <2>2
<1>13. LastPart(P) \in SUBSET Seq(U)
  <2>1. P \subseteq U
    BY <1>4
  <2>2. \A p \in P : <<p>> \in Seq(U)
    BY <2>1, OneUnit
  <2> QED
    BY <2>2, EmptySeq DEF LastPart
<1>14. CutReads("elements", doc, up[1], Arrays(Beginnings(vs, 1, m, LastPart(P))))
  <2>1. m \in 1..Len(vs)
    OBVIOUS
  <2>2. up[m] <= Len(doc) + 1
    BY <1>2, <1>6, <1>12
  <2>3. CutReads("elements", doc, up[m], Arrays(LastPart(P)))
    BY <1>9, <1>12
  <2> QED
    BY <1>11, <1>13, <2>1, <2>2, <2>3, ElementsBeforeCut
<1>15. Arrays(Beginnings(vs, 1, m, LastPart(P))) \subseteq ArrayParts(vs, Ps)
  <2>1. m \in 1..Len(vs) /\ Ps[m] \subseteq U
    OBVIOUS
  <2> QED
    BY <1>4, <2>1, BeginningsAreArrayParts
<1> QED
  BY <1>12, <1>14, <1>15, CutReadsMore

(* What follows the unit that opens an array or an object, when the text   *)
(* is cut after it.                                                        *)
LEMMA AfterTheOpening ==
    ASSUME NEW doc \in Seq(Units), NEW full \in Seq(Units), NEW r \in Leftovers, NEW e \in Nat \ {0},
           IsCut(full, doc, e, r), NEW pos \in Nat \ {0}, pos < e,
           NEW close \in {"]", RightBrace},
           pos + 1 < e => Peek(full, pos + 1) # close
    PROVE  /\ Peek(doc, pos) = Peek(full, pos) /\ pos <= Len(doc)
           /\ Peek(doc, pos + 1) # close
<1>1. Peek(doc, pos) = Peek(full, pos)
  BY CutUnit
<1>2. e <= Len(doc) + 1 /\ Peek(doc, e) = r
  BY CutEnds
<1>3. CASE pos + 1 < e
  <2>1. PICK next \in Nat \ {0} : next = pos + 1 /\ next < e
    BY <1>3
  <2>2. Peek(doc, next) = Peek(full, next)
    BY <2>1, CutUnit
  <2> QED
    BY <1>1, <1>2, <1>3, <2>1, <2>2
<1>4. CASE ~(pos + 1 < e)
  <2>1. e = pos + 1
    BY <1>4
  <2>2. Peek(doc, pos + 1) = r /\ r # close
    BY <1>2, <2>1, LeftoversAreNoMarks
  <2> QED
    BY <1>1, <1>2, <2>1, <2>2
<1> QED
  BY <1>3, <1>4

(* An array is cuttable if its elements are.                               *)
LEMMA ArrayIsCuttable ==
    ASSUME NEW U, NEW vs \in Seq(U), NEW ts \in Seq(Seq(Units)), Len(ts) = Len(vs), NEW Ps, NEW level,
           AllCuttable(ts, vs, Ps, Len(vs), level), \A i \in 1..Len(vs) : Ps[i] \subseteq U,
           NEW w, Enclosed(w, "[", Separated(ts), "]")
    PROVE  Cuttable(w, Nothing \cup ArrayParts(vs, Ps), level)
<1> DEFINE P == Nothing \cup ArrayParts(vs, Ps)
<1>1. PICK k \in Nat : k = Len(vs)
  OBVIOUS
<1>2. PICK inner \in Seq(Units) : inner = Separated(ts)
  BY SeparatedIsAText
<1>3. PICK len \in Nat : len = Len(inner)
  OBVIOUS
<1>4. "[" \in Units /\ "]" \in Units
  BY MarksAreUnits DEF Marks
<1>5. Enclosed(w, "[", inner, "]")
  BY <1>2
<1>6. w \in Seq(Units) /\ Len(w) = len + 2
  BY <1>3, <1>4, <1>5, EnclosedIsAText
<1>7. ASSUME NEW doc \in Seq(Units), NEW full \in Seq(Units), NEW r \in Leftovers,
             NEW e \in Nat \ {0}, NEW pos \in Nat \ {0}, pos < e,
             Stands(full, pos, w), CutAt(full, doc, e, r, level), e < pos + Len(w)
      PROVE  CutReads("value", doc, pos, P)
  <2>1. IsCut(full, doc, e, r)
    BY <1>7 DEF CutAt
  <2>2. PICK first \in Nat \ {0}, mark \in Nat \ {0} :
           first = pos + 1 /\ mark = pos + 1 + len /\ first <= e /\ e <= mark
    BY <1>6, <1>7
  <2>3. Peek(full, pos) = "[" /\ Stands(full, first, inner) /\ Peek(full, mark) = "]"
    <3>1. /\ Peek(full, pos) = "[" /\ Stands(full, pos + 1, inner)
          /\ Peek(full, pos + 1 + Len(inner)) = "]"
      <4>1. pos \in Nat
        OBVIOUS
      <4> QED
        BY <1>4, <1>5, <1>7, <4>1, StandsEnclosed
    <3> QED
      BY <1>3, <2>2, <3>1
  <2>4. CASE k = 0
    <3>1. inner = <<>> /\ len = 0
      <4>1. ts = <<>>
        BY <1>1, <2>4
      <4> QED
        BY <1>2, <1>3, <4>1, NothingSeparated
    <3>2. e = first /\ e = mark
      BY <2>2, <3>1
    <3>3. r = "end" /\ Peek(doc, e) = "end"
      BY <1>7, <2>3, <3>2, CutAtMark
    <3>4. ~(pos + 1 < e)
      BY <2>2, <3>2
    <3>5. Peek(doc, pos) = "[" /\ pos <= Len(doc) /\ Peek(doc, pos + 1) # "]"
      BY <1>7, <2>1, <2>3, <3>4, AfterTheOpening
    <3>6. first > Len(doc)
      <4>1. Len(doc) = e - 1
        BY <2>1, <3>3, CutEnds
      <4> QED
        BY <3>2, <4>1
    <3>7. CutReads("elements", doc, first, Arrays({<<>>}))
      BY <3>6, NoElement
    <3>8. CutReads("value", doc, pos, Arrays({<<>>}))
      BY <2>2, <3>5, <3>7, CutArrayIsRead
    <3>9. Arrays({<<>>}) \subseteq P
      <4>1. SubSeq(vs, 1, 0) = <<>>
        BY SubSeqEmpty
      <4>2. 0 \in 0..Len(vs)
        OBVIOUS
      <4>3. <<"array", SubSeq(vs, 1, 0)>> \in ArrayParts(vs, Ps)
        BY <4>2, Zenon DEF ArrayParts
      <4> QED
        BY <4>1, <4>3, Zenon DEF Arrays
    <3> QED
      BY <3>8, <3>9, CutReadsMore
  <2>5. CASE k # 0
    <3>1. Len(ts) = k /\ k \in Nat \ {0} /\ Len(vs) = k
      BY <1>1, <2>5
    <3>2. Peek(full, first) # "]"
      <4>1. PICK start : StandSeparated(full, start, ts, k, first, first + Len(Separated(ts)) + 1)
        BY <1>2, <2>2, <2>3, <3>1, SeparatedStands
      <4>2. PICK t \in Seq(Units) : t = ts[1]
        BY <3>1
      <4>3. Stands(full, first, t)
        BY <3>1, <4>1, <4>2 DEF StandSeparated
      <4>4. Len(t) \in Nat \ {0} /\ t[1] # "]"
        <5>1. Readable(t, vs[1])
          BY <3>1, <4>2 DEF AllCuttable
        <5> QED
          BY <5>1 DEF Readable
      <4>5. Peek(full, first) = t[1]
        BY <2>2, <4>3, <4>4, StandsFirst
      <4> QED
        BY <4>4, <4>5
    <3>3. Peek(doc, pos) = "[" /\ pos <= Len(doc) /\ Peek(doc, pos + 1) # "]"
      <4>1. pos + 1 < e => Peek(full, pos + 1) # "]"
        BY <2>2, <3>2
      <4> QED
        BY <1>7, <2>1, <2>3, <4>1, AfterTheOpening
    <3>4. CutReads("elements", doc, first, ArrayParts(vs, Ps))
      <4>1. AllCuttable(ts, vs, Ps, k, level) /\ \A i \in 1..k : Ps[i] \subseteq U
        BY <3>1
      <4>2. Stands(full, first, Separated(ts)) /\ mark = first + Len(Separated(ts))
        BY <1>2, <1>3, <2>2, <2>3
      <4>3. first <= e /\ e <= mark /\ Peek(full, mark) = "]"
        BY <2>2, <2>3
      <4> QED
        BY <1>7, <3>1, <4>1, <4>2, <4>3, ElementsAreCut
    <3>5. CutReads("value", doc, pos, ArrayParts(vs, Ps))
      BY <2>2, <3>3, <3>4, CutArrayIsRead
    <3>6. ArrayParts(vs, Ps) \subseteq P
      OBVIOUS
    <3> QED
      BY <3>5, <3>6, CutReadsMore
  <2> QED
    BY <2>4, <2>5
<1>8. \A doc, full \in Seq(Units) : \A r \in Leftovers : \A e, pos \in Nat \ {0} :
          pos < e => CutWithin(w, P, level, doc, full, r, e, pos)
  <2> HIDE DEF P
  <2> QED
    BY <1>7 DEF CutWithin
<1>9. Nothing \subseteq P /\ Len(w) \in Nat \ {0}
  BY <1>6
<1>9a. "002" \notin LeftOf(w[1], level)
  <2>1. w[1] = "["
    BY <1>4, <1>5, EnclosedIsAText
  <2> QED
    BY <2>1, NothingIsLeftOfMarks
<1> HIDE DEF P
<1>10. Cuttable(w, P, level)
  BY <1>6, <1>8, <1>9, <1>9a, CuttableInside
<1> QED
  BY <1>10 DEF P
-----------------------------------------------------------------------------
(***************************************************************************)
(* Objects: some of the members, of the last one perhaps only a part.      *)
(***************************************************************************)

ObjectsOf(M) == {<<"object", m>> : m \in M}

LEMMA OneObject ==
    ASSUME NEW m, NEW M, m \in M PROVE <<"object", m>> \in ObjectsOf(M)
BY Zenon DEF ObjectsOf

(* A key without a colon.                                                  *)
LEMMA NoKeyIsRead ==
    ASSUME NEW doc \in Seq(Units), NEW from \in Nat, NEW n \in 1..(Len(doc) + 1), NEW s, NEW q \in Nat,
           ParseString(doc, from, Reading(doc)[n - 1]) = Got(s, q), Peek(doc, q) \in Leftovers
    PROVE  Reading(doc)[n]["members"][from] = Got(<<"object", {}>>, q)
<1>1. Reading(doc)[n]["members"][from] = Members(doc, from, Reading(doc)[n - 1])
  BY ReadingEquations
<1>2. PICK key : key = ParseString(doc, from, Reading(doc)[n - 1]) /\ key.pos = q
  BY DEF Got
<1>3. Peek(doc, q) # RightBrace /\ Peek(doc, q) # ":"
  BY LeftoversAreNoMarks
<1>4. ~HasValue(doc, key.pos) /\ Expect(doc, key.pos, RightBrace) = q
  BY <1>2, <1>3 DEF HasValue, Expect
<1>5. Members(doc, from, Reading(doc)[n - 1]) = Got(<<"object", {}>>, Expect(doc, key.pos, RightBrace))
  BY <1>2, <1>4, Zenon DEF Members, RightBrace
<1> QED
  BY <1>1, <1>4, <1>5

(* A member whose key is cut, or has no value yet, is none.                *)
LEMMA KeyIsCut ==
    ASSUME NEW doc \in Seq(Units), NEW full \in Seq(Units), NEW r \in Leftovers, NEW e \in Nat \ {0},
           NEW level, CutAt(full, doc, e, r, level), NEW key \in Seq(Contents), NEW writer,
           NEW a \in Nat \ {0}, Stands(full, a, Quoted(key, writer)),
           Peek(full, a + Len(Quoted(key, writer))) = ":",
           a <= e, e <= a + Len(Quoted(key, writer))
    PROVE  CutReads("members", doc, a, ObjectsOf({{}}))
<1>1. PICK k \in Nat \ {0, 1}, to \in Nat \ {0} :
          k = Len(Quoted(key, writer)) /\ to = a + k /\ to = a + Len(Quoted(key, writer))
  <2>1. PICK k \in Nat \ {0, 1} : k = Len(Quoted(key, writer))
    BY QuotedLength
  <2>2. PICK to \in Nat : to = a + k
    OBVIOUS
  <2>3. to \in Nat \ {0}
    BY <2>2
  <2> QED
    BY <2>1, <2>2, <2>3
<1>2. IsCut(full, doc, e, r)
  BY DEF CutAt
<1>3. Peek(doc, e) = r /\ e <= Len(doc) + 1
  BY <1>2, CutEnds
<1>4. PICK w \in Seq(Units) : w = Quoted(key, writer) /\ w[1] = Quote /\ Len(w) = k
  BY <1>1, QuotedParts, Zenon DEF Quote
<1> SUFFICES ASSUME NEW n \in 1..(Len(doc) + 1), Len(doc) + 2 - a <= n
             PROVE  \E s : \E q \in Nat : ParseString(doc, a, Reading(doc)[n - 1]) = Got(s, q)
                                          /\ Peek(doc, q) \in Leftovers
  <2>1. <<"object", {}>> \in ObjectsOf({{}})
    BY OneObject
  <2> SUFFICES ASSUME NEW n \in 1..(Len(doc) + 1), Len(doc) + 2 - a <= n
               PROVE  \E m \in ObjectsOf({{}}) : \E q \in Nat :
                         Reading(doc)[n]["members"][a] = Got(m, q) /\ Peek(doc, q) \in Leftovers
    BY DEF CutReads
  <2>2. PICK s, q : q \in Nat /\ ParseString(doc, a, Reading(doc)[n - 1]) = Got(s, q)
                    /\ Peek(doc, q) \in Leftovers
    OBVIOUS
  <2>3. Reading(doc)[n]["members"][a] = Got(<<"object", {}>>, q)
    BY <2>2, NoKeyIsRead
  <2> QED
    BY <2>1, <2>2, <2>3
<1>5. CASE e = a
  <2>1. Peek(doc, a) # Quote
    BY <1>3, <1>5, LeftoversAreNoMarks
  <2>2. ParseString(doc, a, Reading(doc)[n - 1]) = Got(<<>>, a)
    BY <2>1, Zenon DEF ParseString, Quote
  <2> QED
    BY <1>3, <1>5, <2>2
<1>6. CASE a < e /\ e < to
  <2>1. CutReads("string", doc, a + 1, StringParts(key, level))
    <3>1. e < a + Len(Quoted(key, writer)) /\ a \in Nat /\ a < e
      BY <1>1, <1>6
    <3> QED
      BY <3>1, StringIsCut
  <2>2. Peek(doc, a) = Quote
    <3>1. Peek(doc, a) = Peek(full, a)
      BY <1>2, <1>6, CutUnit
    <3>2. Peek(full, a) = w[1]
      <4>1. Len(w) \in Nat \ {0} /\ Stands(full, a, w)
        BY <1>4
      <4> QED
        BY <4>1, StandsFirst
    <3> QED
      BY <1>4, <3>1, <3>2
  <2>3. a <= Len(doc) /\ a \in Nat
    BY <1>3, <1>6
  <2>4. PICK s \in StringParts(key, level), q \in Nat :
           ParseString(doc, a, Reading(doc)[n - 1]) = Got(s, q) /\ Peek(doc, q) \in Leftovers
    BY <2>1, <2>2, <2>3, CutStringIsRead
  <2> QED
    BY <2>4
<1>7. CASE e = to
  <2>1. Stands(doc, a, Quoted(key, writer))
    <3>1. Stands(full, a, w) /\ a + Len(w) <= e
      BY <1>1, <1>4, <1>7
    <3>2. Stands(doc, a, w)
      BY <1>2, <3>1, StandsBeforeCut
    <3> QED
      BY <1>4, <3>2
  <2>2. Len(Quoted(key, writer)) <= n /\ a \in Nat
    BY <1>1, <1>3, <1>7
  <2>3. ParseString(doc, a, Reading(doc)[n - 1]) = Got(key, a + Len(Quoted(key, writer)))
    BY <2>1, <2>2, QuotedIsRead
  <2>4. Peek(full, e) \in {Comma, RightBrace, "]", ":"}
    BY <1>1, <1>7
  <2>5. Peek(doc, e) = "end"
    BY <2>4, CutAtMark
  <2> QED
    BY <1>1, <1>7, <2>3, <2>5 DEF Leftovers
<1> QED
  BY <1>1, <1>5, <1>6, <1>7

LastMember(key, P) == {{}} \cup {{<<key, p>>} : p \in P}

LEMMA LastMembers ==
    ASSUME NEW key, NEW P
    PROVE  {} \in LastMember(key, P) /\ \A p \in P : {<<key, p>>} \in LastMember(key, P)
BY Zenon DEF LastMember

(* The last member, when its key is complete.                              *)
LEMMA LastMemberIsCut ==
    ASSUME NEW doc \in Seq(Units), NEW from \in Nat, from <= Len(doc), NEW key \in Seq(Contents), NEW writer,
           Stands(doc, from, Quoted(key, writer)), NEW c \in Nat, c = from + Len(Quoted(key, writer)),
           c <= Len(doc), Peek(doc, c) = ":", NEW P, CutReads("value", doc, c + 1, P)
    PROVE  CutReads("members", doc, from, ObjectsOf(LastMember(key, P)))
<1> SUFFICES ASSUME NEW n \in 1..(Len(doc) + 1), Len(doc) + 2 - from <= n
             PROVE  \E m \in ObjectsOf(LastMember(key, P)) : \E q \in Nat :
                       Reading(doc)[n]["members"][from] = Got(m, q) /\ Peek(doc, q) \in Leftovers
  BY DEF CutReads
<1>1. PICK k \in Nat \ {0, 1}, len \in Nat : k = Len(Quoted(key, writer)) /\ c = from + k /\ len = Len(doc)
  <2>1. PICK k \in Nat \ {0, 1} : k = Len(Quoted(key, writer))
    BY QuotedLength
  <2>2. PICK len \in Nat : len = Len(doc)
    OBVIOUS
  <2> QED
    BY <2>1, <2>2
<1>2. ParseString(doc, from, Reading(doc)[n - 1]) = Got(key, c)
  <2>1. Len(Quoted(key, writer)) <= n
    BY <1>1
  <2> QED
    BY <2>1, QuotedIsRead
<1>3. PICK n1 \in 1..(Len(doc) + 1) : n1 = n - 1 /\ Len(doc) + 2 - (c + 1) <= n1
  <2>1. from < c + 1 /\ c + 1 <= len + 1 /\ c + 1 \in Nat
    BY <1>1
  <2> QED
    BY <1>1, <2>1, NextBudget
<1>4. PICK p \in P, q \in Nat :
         Reading(doc)[n1]["value"][c + 1] = Got(p, q) /\ Peek(doc, q) \in Leftovers
  BY <1>3 DEF CutReads
<1>5. PICK key1 : key1 = ParseString(doc, from, Reading(doc)[n - 1]) /\ key1.value = key /\ key1.pos = c
  BY <1>2 DEF Got
<1>6. PICK v1 : v1 = Reading(doc)[n - 1]["value"][key1.pos + 1] /\ v1.value = p /\ v1.pos = q
  BY <1>3, <1>4, <1>5 DEF Got
<1>7. Peek(doc, q) # Comma /\ Expect(doc, q, RightBrace) = q
  BY <1>4, LeftoversAreNoMarks DEF Expect
<1>8. HasValue(doc, key1.pos) /\ ~(from > Len(doc))
  BY <1>1, <1>5 DEF HasValue
<1>9. Reading(doc)[n]["members"][from] = Members(doc, from, Reading(doc)[n - 1])
  BY ReadingEquations
<1>10. Members(doc, from, Reading(doc)[n - 1])
        = Got(<<"object", {} \cup {m \in {<<key, p>>} : \A o \in {} : o[1] # m[1]}>>, q)
  BY <1>5, <1>6, <1>7, <1>8 DEF Members, Comma, RightBrace
<1>11. {} \cup {m \in {<<key, p>>} : \A o \in {} : o[1] # m[1]} = {<<key, p>>}
  OBVIOUS
<1>12. PICK m : m = <<"object", {<<key, p>>}>>
  OBVIOUS
<1>13. m \in ObjectsOf(LastMember(key, P))
  BY <1>12, LastMembers, OneObject
<1> QED
  BY <1>4, <1>9, <1>10, <1>11, <1>12, <1>13

(* A member that is cut, or at the mark after it.                          *)
LEMMA PlacedMemberIsCut ==
    ASSUME NEW key \in Seq(Contents), NEW writer, NEW t, NEW v, NEW P, NEW level,
           Readable(t, v), Cuttable(t, P, level), v \in P,
           NEW doc \in Seq(Units), NEW full \in Seq(Units), NEW r \in Leftovers, NEW e \in Nat \ {0},
           CutAt(full, doc, e, r, level), NEW a \in Nat \ {0}, Stands(full, a, Member(key, t, writer)),
           a <= e, e <= a + Len(Member(key, t, writer)),
           Peek(full, a + Len(Member(key, t, writer))) \in Marked
    PROVE  CutReads("members", doc, a, ObjectsOf(LastMember(key, P)))
<1>1. t \in Seq(Units)
  BY DEF Readable
<1>2. PICK k \in Nat \ {0, 1}, len \in Nat :
          k = Len(Quoted(key, writer)) /\ len = Len(t) /\ Len(Member(key, t, writer)) = k + 1 + len
  <2>1. PICK k \in Nat \ {0, 1} : k = Len(Quoted(key, writer))
    BY QuotedLength
  <2>2. PICK len \in Nat : len = Len(t)
    BY <1>1
  <2>3. Len(Member(key, t, writer)) = Len(Quoted(key, writer)) + 1 + Len(t)
    BY <1>1, MemberParts
  <2> QED
    BY <2>1, <2>2, <2>3
<1>3. PICK c \in Nat \ {0} : c = a + Len(Quoted(key, writer)) /\ c = a + k
  BY <1>2
<1>4. /\ Stands(full, a, Quoted(key, writer)) /\ Peek(full, c) = ":" /\ Stands(full, c + 1, t)
  <2>1. /\ Stands(full, a, Quoted(key, writer))
        /\ Peek(full, a + Len(Quoted(key, writer))) = ":"
        /\ Stands(full, a + Len(Quoted(key, writer)) + 1, t)
    <3>1. a \in Nat
      OBVIOUS
    <3> QED
      BY <1>1, <3>1, MemberParts
  <2> QED
    BY <1>3, <2>1
<1>5. IsCut(full, doc, e, r)
  BY DEF CutAt
<1>6. e <= Len(doc) + 1
  BY <1>5, CutEnds
<1>7. CASE e <= c
  <2>1. CutReads("members", doc, a, ObjectsOf({{}}))
    <3>1. Peek(full, a + Len(Quoted(key, writer))) = ":" /\ e <= a + Len(Quoted(key, writer))
      BY <1>3, <1>4, <1>7
    <3> QED
      BY <1>4, <3>1, KeyIsCut
  <2>2. ObjectsOf({{}}) \subseteq ObjectsOf(LastMember(key, P))
    BY LastMembers, Zenon DEF ObjectsOf
  <2> QED
    BY <2>1, <2>2, CutReadsMore
<1>8. CASE ~(e <= c)
  <2>1. PICK b \in Nat \ {0} : b = c + 1 /\ b <= e /\ e <= b + Len(t) /\ b + Len(t) = a + Len(Member(key, t, writer))
    <3>1. PICK b \in Nat : b = c + 1
      OBVIOUS
    <3>2. b <= e /\ e <= b + len /\ b + len = a + Len(Member(key, t, writer))
      BY <1>2, <1>3, <1>8, <3>1
    <3>3. b \in Nat \ {0}
      BY <3>1
    <3> QED
      BY <1>2, <3>1, <3>2, <3>3
  <2>2. CutReads("value", doc, b, P)
    <3>1. Stands(full, b, t) /\ Peek(full, b + Len(t)) \in Marked
      BY <1>4, <2>1
    <3> QED
      BY <2>1, <3>1, PlacedIsCut
  <2>3. Stands(doc, a, Quoted(key, writer))
    <3>1. PICK w \in Seq(Units) : w = Quoted(key, writer)
      BY QuotedParts
    <3>2. Stands(full, a, w) /\ a + Len(w) <= e
      BY <1>3, <1>4, <1>8, <3>1
    <3> QED
      BY <1>5, <3>1, <3>2, StandsBeforeCut
  <2>4. Peek(doc, c) = ":"
    <3>1. c < e
      BY <1>8
    <3> QED
      BY <1>4, <1>5, <3>1, CutUnit
  <2>5. c <= Len(doc) /\ a <= Len(doc) /\ a \in Nat /\ c \in Nat
    BY <1>3, <1>6, <1>8
  <2>6. CutReads("value", doc, c + 1, P)
    BY <2>1, <2>2
  <2> QED
    BY <1>3, <2>3, <2>4, <2>5, <2>6, LastMemberIsCut
<1> QED
  BY <1>7, <1>8

Joined(m, M) == {ms \cup {m} : ms \in M}

NoMemberHas(key, M) == \A ms \in M : \A o \in ms : o[1] # key

(* A member that is complete joins what is read of the others.             *)
LEMMA MemberBeforeCut ==
    ASSUME NEW doc \in Seq(Units), NEW writer, NEW from \in Nat, NEW key \in Seq(Contents),
           NEW t \in Seq(Units), NEW v, NEW to \in Nat, MemberStands(doc, writer, from, key, t, v, to),
           Peek(doc, to - 1) = Comma, to <= Len(doc) + 1, NEW M, NoMemberHas(key, M),
           CutReads("members", doc, to, ObjectsOf(M))
    PROVE  CutReads("members", doc, from, ObjectsOf(Joined(<<key, v>>, M)))
<1> SUFFICES ASSUME NEW n \in 1..(Len(doc) + 1), Len(doc) + 2 - from <= n
             PROVE  \E m \in ObjectsOf(Joined(<<key, v>>, M)) : \E q \in Nat :
                       Reading(doc)[n]["members"][from] = Got(m, q) /\ Peek(doc, q) \in Leftovers
  BY DEF CutReads
<1>0. from < to /\ from + 2 < to /\ to - 1 + 1 = to
  <2>1. from < to /\ from + 2 < to
    BY MemberIsNext
  <2> QED
    BY <2>1
<1>1. PICK key1, v1 :
        /\ key1 = ParseString(doc, from, Reading(doc)[n - 1])
        /\ v1 = Reading(doc)[n - 1]["value"][key1.pos + 1]
        /\ key1.value = key /\ v1 = Got(v, to - 1)
        /\ ~(from > Len(doc)) /\ HasValue(doc, key1.pos)
  <2>1. PICK d \in Nat : d = Len(doc)
    OBVIOUS
  <2>2. to - from <= n
    BY <1>0, <2>1
  <2> QED
    BY <2>2, MemberIsNext
<1>2. PICK n1 \in 1..(Len(doc) + 1) : n1 = n - 1 /\ Len(doc) + 2 - to <= n1
  <2>1. PICK d \in Nat : d = Len(doc)
    OBVIOUS
  <2>2. from < to
    BY <1>0
  <2> QED
    BY <2>1, <2>2, NextBudget
<1>3. PICK a \in ObjectsOf(M), q \in Nat :
         Reading(doc)[n1]["members"][to] = Got(a, q) /\ Peek(doc, q) \in Leftovers
  BY <1>2 DEF CutReads
<1>4. PICK others \in M : a = <<"object", others>>
  BY Zenon DEF ObjectsOf
<1>5. v1.value = v /\ v1.pos = to - 1
  BY <1>1 DEF Got
<1>6. PICK rest : rest = Reading(doc)[n - 1]["members"][v1.pos + 1] /\ rest = Got(a, q)
  BY <1>0, <1>2, <1>3, <1>5
<1>7. rest.value[2] = others /\ rest.pos = q
  BY <1>4, <1>6 DEF Got
<1>8. Reading(doc)[n]["members"][from] = Members(doc, from, Reading(doc)[n - 1])
  BY ReadingEquations
<1>9. {m \in {<<key, v>>} : \A o \in others : o[1] # m[1]} = {<<key, v>>}
  BY DEF NoMemberHas
<1>10. Members(doc, from, Reading(doc)[n - 1])
        = Got(<<"object", others \cup {m \in {<<key, v>>} : \A o \in others : o[1] # m[1]}>>, q)
  BY <1>1, <1>5, <1>6, <1>7, MarksAreDifferent DEF Members, Comma, RightBrace
<1>11. PICK ms : ms = others \cup {<<key, v>>}
  OBVIOUS
<1>12. ms \in Joined(<<key, v>>, M)
  BY <1>11, Zenon DEF Joined
<1>13. <<"object", ms>> \in ObjectsOf(Joined(<<key, v>>, M))
  BY <1>12, OneObject
<1> QED
  BY <1>3, <1>8, <1>9, <1>10, <1>11, <1>13

(* The members from one to another, and some more.                         *)
MembersFrom(keys, vs, i, m) == {<<keys[j], vs[j]>> : j \in i..(m - 1)}

MembersAnd(keys, vs, i, m, M) == {MembersFrom(keys, vs, i, m) \cup l : l \in M}

LEMMA OneMemberBefore ==
    ASSUME NEW k \in Nat, NEW keys, NEW vs, AllDifferent(keys, k), NEW m \in 1..k, NEW i \in 1..(m - 1),
           NEW M, \A l \in M : \A o \in l : o[1] = keys[m]
    PROVE  /\ Joined(<<keys[i], vs[i]>>, MembersAnd(keys, vs, i + 1, m, M)) = MembersAnd(keys, vs, i, m, M)
           /\ NoMemberHas(keys[i], MembersAnd(keys, vs, i + 1, m, M))
<1>1. MembersFrom(keys, vs, i, m) = MembersFrom(keys, vs, i + 1, m) \cup {<<keys[i], vs[i]>>}
  <2>1. \A j : j \in i..(m - 1) <=> j = i \/ j \in (i + 1)..(m - 1)
    OBVIOUS
  <2> QED
    BY <2>1, Zenon DEF MembersFrom
<1>2. \A l : (MembersFrom(keys, vs, i + 1, m) \cup l) \cup {<<keys[i], vs[i]>>}
               = MembersFrom(keys, vs, i, m) \cup l
  BY <1>1
<1>3. Joined(<<keys[i], vs[i]>>, MembersAnd(keys, vs, i + 1, m, M)) = MembersAnd(keys, vs, i, m, M)
  <2>1. Joined(<<keys[i], vs[i]>>, MembersAnd(keys, vs, i + 1, m, M))
          = {(MembersFrom(keys, vs, i + 1, m) \cup l) \cup {<<keys[i], vs[i]>>} : l \in M}
    BY Zenon DEF Joined, MembersAnd
  <2> QED
    BY <1>2, <2>1, Zenon DEF MembersAnd
<1>4. \A o \in MembersFrom(keys, vs, i + 1, m) : o[1] # keys[i]
  <2> SUFFICES ASSUME NEW j \in (i + 1)..(m - 1) PROVE keys[j] # keys[i]
    BY DEF MembersFrom
  <2>1. i \in 1..k /\ j \in 1..k /\ j # i
    OBVIOUS
  <2> QED
    BY <2>1 DEF AllDifferent
<1>5. keys[m] # keys[i]
  <2>1. i \in 1..k /\ m \in 1..k /\ m # i
    OBVIOUS
  <2> QED
    BY <2>1 DEF AllDifferent
<1>6. NoMemberHas(keys[i], MembersAnd(keys, vs, i + 1, m, M))
  BY <1>4, <1>5 DEF NoMemberHas, MembersAnd
<1> QED
  BY <1>3, <1>6

FirstMembersStand(doc, writer, start, keys, ts, vs, m) ==
    /\ start \in [1..m -> Nat]
    /\ \A i \in 1..m : keys[i] \in Seq(Contents) /\ ts[i] \in Seq(Units)
    /\ \A i \in 1..(m - 1) :
          /\ MemberStands(doc, writer, start[i], keys[i], ts[i], vs[i], start[i + 1])
          /\ Peek(doc, start[i + 1] - 1) = Comma

(* So do all the members before the one that is cut.                       *)
LEMMA MembersBeforeCut ==
    ASSUME NEW doc \in Seq(Units), NEW writer, NEW k \in Nat, NEW m \in 1..k, NEW keys, NEW vs,
           AllDifferent(keys, k), NEW ts, NEW start,
           FirstMembersStand(doc, writer, start, keys, ts, vs, m), start[m] <= Len(doc) + 1,
           NEW M, \A l \in M : \A o \in l : o[1] = keys[m],
           CutReads("members", doc, start[m], ObjectsOf(M))
    PROVE  CutReads("members", doc, start[1], ObjectsOf(MembersAnd(keys, vs, 1, m, M)))
<1> DEFINE Rest(i) == /\ start[i] <= Len(doc) + 1
                      /\ CutReads("members", doc, start[i], ObjectsOf(MembersAnd(keys, vs, i, m, M)))
           T == {i \in 1..m : Rest(i)}
<1>1. m \in T
  <2>1. \A j : j \notin m..(m - 1)
    OBVIOUS
  <2>2. MembersFrom(keys, vs, m, m) = {}
    BY <2>1, Zenon DEF MembersFrom
  <2>3. MembersAnd(keys, vs, m, m, M) = M
    BY <2>2 DEF MembersAnd
  <2> QED
    BY <2>3
<1>2. ASSUME NEW i \in 1..m, i # m, Rest(i + 1) PROVE Rest(i)
  <2>1. i \in 1..(m - 1) /\ i + 1 \in 1..m /\ i \in 1..k
    BY <1>2
  <2>2. PICK a \in Nat, b \in Nat : a = start[i] /\ b = start[i + 1]
    BY <2>1 DEF FirstMembersStand
  <2>3. PICK key \in Seq(Contents), t \in Seq(Units) : key = keys[i] /\ t = ts[i]
    BY <2>1 DEF FirstMembersStand
  <2>4. PICK v : v = vs[i]
    OBVIOUS
  <2>5. MemberStands(doc, writer, a, key, t, v, b) /\ Peek(doc, b - 1) = Comma
    BY <2>1, <2>2, <2>3, <2>4 DEF FirstMembersStand
  <2>6. PICK Q : Q = MembersAnd(keys, vs, i + 1, m, M)
    OBVIOUS
  <2>7. b <= Len(doc) + 1 /\ CutReads("members", doc, b, ObjectsOf(Q))
    BY <1>2, <2>2, <2>6
  <2>8. Joined(<<key, v>>, Q) = MembersAnd(keys, vs, i, m, M) /\ NoMemberHas(key, Q)
    <3>1. /\ Joined(<<keys[i], vs[i]>>, MembersAnd(keys, vs, i + 1, m, M)) = MembersAnd(keys, vs, i, m, M)
          /\ NoMemberHas(keys[i], MembersAnd(keys, vs, i + 1, m, M))
      BY <2>1, OneMemberBefore
    <3> QED
      BY <2>3, <2>4, <2>6, <3>1
  <2>9. CutReads("members", doc, a, ObjectsOf(Joined(<<key, v>>, Q)))
    <3>1. MemberStands(doc, writer, a, key, t, v, b)
      BY <2>5
    <3>2. Peek(doc, b - 1) = Comma
      BY <2>5
    <3>3. b <= Len(doc) + 1
      BY <2>7
    <3>4. CutReads("members", doc, b, ObjectsOf(Q))
      BY <2>7
    <3>5. NoMemberHas(key, Q)
      BY <2>8
    <3> QED
      BY <3>1, <3>2, <3>3, <3>4, <3>5, MemberBeforeCut
  <2>10. a <= Len(doc) + 1
    <3>1. a < b
      BY <2>5, MemberIsNext
    <3> QED
      BY <2>7, <3>1
  <2> QED
    BY <2>2, <2>8, <2>9, <2>10
<1> HIDE DEF Rest
<1>3. \A i \in 1..m : i # m /\ i + 1 \in T => i \in T
  BY <1>2
<1>4. 1..m \subseteq T
  <2>1. m \in Nat \ {0}
    OBVIOUS
  <2> HIDE DEF T
  <2> QED
    BY <1>1, <1>3, <2>1, IndexInduction
<1>5. Rest(1)
  <2>1. 1 \in 1..m
    OBVIOUS
  <2> QED
    BY <1>4, <2>1
<1> QED
  BY <1>5 DEF Rest

(* Where a member stands before a comma.                                   *)
MemberAndComma(full, writer, a, key, t, to) ==
    /\ Stands(full, a, Member(key, t, writer)) /\ to = a + Len(Member(key, t, writer)) + 1
    /\ Peek(full, to - 1) = Comma

MemberBefore(e, full, writer, a, key, t, v, to) ==
    /\ key \in Seq(Contents) /\ Readable(t, v) /\ a \in Nat \ {0} /\ to \in Nat \ {0} /\ to <= e
    /\ MemberAndComma(full, writer, a, key, t, to)

LEMMA PlacedMember ==
    ASSUME NEW doc \in Seq(Units), NEW full \in Seq(Units), NEW r, NEW e \in Nat \ {0},
           IsCut(full, doc, e, r), NEW writer, NEW a, NEW key, NEW t, NEW v, NEW to,
           MemberBefore(e, full, writer, a, key, t, v, to)
    PROVE  MemberStands(doc, writer, a, key, t, v, to) /\ Peek(doc, to - 1) = Comma
<1>a. /\ key \in Seq(Contents) /\ Readable(t, v) /\ a \in Nat \ {0} /\ to \in Nat \ {0} /\ to <= e
      /\ MemberAndComma(full, writer, a, key, t, to)
  BY DEF MemberBefore
<1>0. t \in Seq(Units)
  BY <1>a DEF Readable
<1>1. PICK w \in Seq(Units), len \in Nat \ {0} : w = Member(key, t, writer) /\ len = Len(w)
  BY <1>0, <1>a, MemberParts
<1>2. Stands(full, a, w) /\ to = a + len + 1 /\ Peek(full, to - 1) = Comma
  BY <1>1, <1>a DEF MemberAndComma
<1>3. PICK mark \in Nat \ {0} : mark = a + len /\ mark = to - 1 /\ mark < e
  BY <1>2, <1>a
<1>4. Peek(doc, mark) = Comma
  <2>1. Peek(doc, mark) = Peek(full, mark)
    BY <1>3, CutUnit
  <2> QED
    BY <1>2, <1>3, <2>1
<1>5. Stands(doc, a, w)
  <2>1. a + Len(w) <= e /\ Stands(full, a, w)
    BY <1>1, <1>2, <1>3, <1>a
  <2> QED
    BY <1>a, <2>1, StandsBeforeCut
<1>6. MemberEnds(doc, writer, a, key, t, to)
  BY <1>1, <1>2, <1>3, <1>4 DEF MemberEnds
<1>7. Stands(doc, a, Member(key, t, writer))
  BY <1>1, <1>5
<1>8. MemberStands(doc, writer, a, key, t, v, to)
  BY <1>0, <1>6, <1>7, <1>a, MemberIsPlaced
<1> QED
  BY <1>3, <1>4, <1>8

FirstMembersArePlaced(full, writer, start, keys, ts, vs, m, e) ==
    /\ start \in [1..m -> Nat \ {0}]
    /\ \A i \in 1..m : keys[i] \in Seq(Contents) /\ Readable(ts[i], vs[i]) /\ start[i] <= e
    /\ \A i \in 1..(m - 1) : MemberAndComma(full, writer, start[i], keys[i], ts[i], start[i + 1])

LEMMA PlacedMembers ==
    ASSUME NEW m \in Nat, NEW writer, NEW keys, NEW ts, NEW vs, NEW start,
           NEW doc \in Seq(Units), NEW full \in Seq(Units), NEW r \in Leftovers, NEW e \in Nat \ {0},
           IsCut(full, doc, e, r), FirstMembersArePlaced(full, writer, start, keys, ts, vs, m, e)
    PROVE  FirstMembersStand(doc, writer, start, keys, ts, vs, m)
<1>0. start \in [1..m -> Nat] /\ \A i \in 1..m : keys[i] \in Seq(Contents) /\ ts[i] \in Seq(Units)
  BY DEF FirstMembersArePlaced, Readable
<1> SUFFICES ASSUME NEW i \in 1..(m - 1)
             PROVE  /\ MemberStands(doc, writer, start[i], keys[i], ts[i], vs[i], start[i + 1])
                    /\ Peek(doc, start[i + 1] - 1) = Comma
  BY <1>0 DEF FirstMembersStand
<1>1. i \in 1..m /\ i + 1 \in 1..m
  OBVIOUS
<1>2. PICK key, t, v : key = keys[i] /\ t = ts[i] /\ v = vs[i]
  OBVIOUS
<1>3. PICK a \in Nat \ {0}, to \in Nat \ {0} : a = start[i] /\ to = start[i + 1] /\ to <= e
  BY <1>1 DEF FirstMembersArePlaced
<1>4. key \in Seq(Contents) /\ Readable(t, v)
  BY <1>1, <1>2 DEF FirstMembersArePlaced
<1>5. MemberAndComma(full, writer, a, key, t, to)
  BY <1>2, <1>3 DEF FirstMembersArePlaced
<1>6. MemberStands(doc, writer, a, key, t, v, to) /\ Peek(doc, to - 1) = Comma
  <2>1. MemberBefore(e, full, writer, a, key, t, v, to)
    BY <1>3, <1>4, <1>5 DEF MemberBefore
  <2> QED
    BY <2>1, PlacedMember
<1> QED
  BY <1>2, <1>3, <1>6

ObjectParts(keys, vs, k, Ps) ==
    {{}} \cup UNION {MembersAnd(keys, vs, 1, m, LastMember(keys[m], Ps[m])) : m \in 1..k}

LEMMA SomeOfTheObject ==
    ASSUME NEW k \in Nat, NEW keys, NEW vs, NEW Ps, NEW m \in 1..k
    PROVE  ObjectsOf(MembersAnd(keys, vs, 1, m, LastMember(keys[m], Ps[m])))
             \subseteq ObjectsOf(ObjectParts(keys, vs, k, Ps))
BY Zenon DEF ObjectsOf, ObjectParts

(* Wherever the members are cut, what is read are the first of them.       *)
LEMMA MembersAreCut ==
    ASSUME NEW writer, NEW k \in Nat \ {0}, NEW keys \in [1..k -> Seq(Contents)], AllDifferent(keys, k),
           NEW ts \in [1..k -> Seq(Units)], NEW vs, NEW Ps, NEW level,
           AllCuttable(ts, vs, Ps, k, level), NEW ms \in Seq(Seq(Units)), Len(ms) = k,
           \A i \in 1..k : ms[i] = Member(keys[i], ts[i], writer),
           NEW doc \in Seq(Units), NEW full \in Seq(Units), NEW r \in Leftovers, NEW e \in Nat \ {0},
           CutAt(full, doc, e, r, level), NEW pos \in Nat \ {0}, Stands(full, pos, Separated(ms)),
           NEW end \in Nat \ {0}, end = pos + Len(Separated(ms)), Peek(full, end) = RightBrace,
           pos <= e, e <= end
    PROVE  CutReads("members", doc, pos, ObjectsOf(ObjectParts(keys, vs, k, Ps)))
<1>0. PICK last \in Nat : last = end + 1 /\ last = pos + Len(Separated(ms)) + 1
  OBVIOUS
<1>1. PICK start : StandSeparated(full, start, ms, k, pos, last)
  <2>1. \E start : StandSeparated(full, start, ms, k, pos, pos + Len(Separated(ms)) + 1)
    BY SeparatedStands
  <2> QED
    BY <1>0, <2>1
<1>2. IsCut(full, doc, e, r) /\ e <= Len(doc) + 1
  <2>1. IsCut(full, doc, e, r)
    BY DEF CutAt
  <2> QED
    BY <2>1, CutEnds
<1>3a. PICK m \in 1..k : ListIsCutAt(full, start, ms, m, k, e, end)
  <2>1. e < last
    BY <1>0
  <2>2. last = end + 1 /\ last \in Nat /\ end \in Nat
    BY <1>0
  <2> QED
    BY <1>1, <2>1, <2>2, WhereListIsCut
<1>3. /\ start[m] <= e /\ e <= start[m] + Len(ms[m])
      /\ m = k => start[m] + Len(ms[m]) = end
      /\ \A i \in 1..m : /\ start[i] \in Nat \ {0} /\ start[i] <= e
                         /\ start[i + 1] = start[i] + Len(ms[i]) + 1
                         /\ Stands(full, start[i], ms[i])
                         /\ i # m => Peek(full, start[i] + Len(ms[i])) = Comma
  BY <1>3a DEF ListIsCutAt
<1>4. PICK key \in Seq(Contents), t \in Seq(Units) : key = keys[m] /\ t = ts[m]
  OBVIOUS
<1>4a. PICK v, P, w : v = vs[m] /\ P = Ps[m] /\ w = Member(key, t, writer) /\ ms[m] = w
  BY <1>4
<1>5. Readable(t, v) /\ Cuttable(t, P, level) /\ v \in P
  BY <1>4, <1>4a DEF AllCuttable
<1>6. PICK a \in Nat \ {0} : a = start[m] /\ Stands(full, a, w) /\ a <= e /\ e <= a + Len(w)
  <2>1. m \in 1..m
    OBVIOUS
  <2> QED
    BY <1>3, <1>4a, <2>1
<1>7. Peek(full, a + Len(w)) \in Marked
  <2>1. CASE m = k
    <3>1. a + Len(w) = end
      BY <1>3, <1>4a, <1>6, <2>1
    <3> QED
      BY <3>1 DEF Marked
  <2>2. CASE m # k
    <3>1. Peek(full, start[m] + Len(ms[m])) = Comma
      BY <1>1, <2>2 DEF StandSeparated
    <3> QED
      BY <1>4a, <1>6, <3>1 DEF Marked
  <2> QED
    BY <2>1, <2>2
<1>8. CutReads("members", doc, a, ObjectsOf(LastMember(key, P)))
  <2>1. Readable(t, v)
    BY <1>5
  <2>2. Cuttable(t, P, level)
    BY <1>5
  <2>3. v \in P
    BY <1>5
  <2>4. Stands(full, a, Member(key, t, writer)) /\ e <= a + Len(Member(key, t, writer))
    BY <1>4a, <1>6
  <2>5. Peek(full, a + Len(Member(key, t, writer))) \in Marked
    BY <1>4a, <1>7
  <2> QED
    BY <1>6, <2>1, <2>2, <2>3, <2>4, <2>5, PlacedMemberIsCut
<1>9. PICK up : up = [i \in 1..m |-> start[i]]
  OBVIOUS
<1>9a. up \in [1..m -> Nat \ {0}]
       /\ \A i \in 1..m : keys[i] \in Seq(Contents) /\ Readable(ts[i], vs[i]) /\ up[i] <= e
  <2>1. \A i \in 1..m : i \in 1..k
    OBVIOUS
  <2> QED
    BY <1>3, <1>9, <2>1 DEF AllCuttable
<1>9b. ASSUME NEW i \in 1..(m - 1)
       PROVE  MemberAndComma(full, writer, up[i], keys[i], ts[i], up[i + 1])
  <2>1. i \in 1..m /\ i + 1 \in 1..m /\ i # m /\ i \in 1..k
    OBVIOUS
  <2>2. PICK b \in Nat \ {0}, to \in Nat \ {0} : b = start[i] /\ to = start[i + 1]
    BY <1>3, <2>1
  <2>3. PICK w1 \in Seq(Units) : w1 = ms[i] /\ w1 = Member(keys[i], ts[i], writer)
    BY <2>1
  <2>4. PICK len \in Nat : len = Len(w1)
    OBVIOUS
  <2>5. Stands(full, b, w1) /\ to = b + Len(w1) + 1 /\ Peek(full, b + Len(w1)) = Comma
    BY <1>3, <2>1, <2>2, <2>3
  <2>6. to - 1 = b + Len(w1)
    BY <2>4, <2>5
  <2>7. MemberAndComma(full, writer, b, keys[i], ts[i], to)
    BY <2>3, <2>5, <2>6 DEF MemberAndComma
  <2>8. up[i] = b /\ up[i + 1] = to
    BY <1>9, <2>1, <2>2
  <2> QED
    BY <2>7, <2>8
<1>11. FirstMembersStand(doc, writer, up, keys, ts, vs, m)
  <2>1. IsCut(full, doc, e, r) /\ m \in Nat
    BY <1>2
  <2>2. FirstMembersArePlaced(full, writer, up, keys, ts, vs, m, e)
    BY <1>9a, <1>9b DEF FirstMembersArePlaced
  <2> QED
    BY <2>1, <2>2, PlacedMembers
<1>12. up[m] = a /\ up[1] = pos
  <2>1. m \in 1..m /\ 1 \in 1..m
    OBVIOUS
  <2>2. start[1] = pos
    BY <1>1 DEF StandSeparated
  <2> QED
    BY <1>6, <1>9, <2>1, <2>2
<1>13. CutReads("members", doc, up[1], ObjectsOf(MembersAnd(keys, vs, 1, m, LastMember(key, P))))
  <2>1. \A l \in LastMember(key, P) : \A o \in l : o[1] = keys[m]
    BY <1>4 DEF LastMember
  <2>2. up[m] <= Len(doc) + 1
    <3>1. PICK d \in Nat : d = Len(doc)
      OBVIOUS
    <3>2. a <= e /\ e <= d + 1
      BY <1>2, <1>6, <3>1
    <3>3. a <= d + 1
      BY <3>2
    <3> QED
      BY <1>12, <3>1, <3>3
  <2>3. CutReads("members", doc, up[m], ObjectsOf(LastMember(key, P)))
    BY <1>8, <1>12
  <2> QED
    BY <1>11, <2>1, <2>2, <2>3, MembersBeforeCut
<1>14. ObjectsOf(MembersAnd(keys, vs, 1, m, LastMember(key, P)))
          \subseteq ObjectsOf(ObjectParts(keys, vs, k, Ps))
  BY <1>4, <1>4a, SomeOfTheObject
<1> QED
  BY <1>12, <1>13, <1>14, CutReadsMore

LEMMA CutObjectIsRead ==
    ASSUME NEW doc \in Seq(Units), NEW pos \in Nat, Peek(doc, pos) = LeftBrace, pos <= Len(doc),
           Peek(doc, pos + 1) # RightBrace, NEW A, CutReads("members", doc, pos + 1, A)
    PROVE  CutReads("value", doc, pos, A)
<1> SUFFICES ASSUME NEW n \in 1..(Len(doc) + 1), Len(doc) + 2 - pos <= n
             PROVE  \E a \in A : \E q \in Nat :
                       Reading(doc)[n]["value"][pos] = Got(a, q) /\ Peek(doc, q) \in Leftovers
  BY DEF CutReads
<1>1. PICK len \in Nat : len = Len(doc)
  OBVIOUS
<1>2. PICK n1 \in 1..(Len(doc) + 1) : n1 = n - 1 /\ Len(doc) + 2 - (pos + 1) <= n1
  BY <1>1, NextBudget
<1>3. Reading(doc)[n]["value"][pos] = ParseValue(doc, pos, Reading(doc)[n1])
  BY <1>2, ReadingEquations
<1>4. ParseValue(doc, pos, Reading(doc)[n1]) = Reading(doc)[n1]["members"][pos + 1]
  BY Zenon DEF ParseValue, LeftBrace, RightBrace
<1>5. \E a \in A : \E q \in Nat :
          Reading(doc)[n1]["members"][pos + 1] = Got(a, q) /\ Peek(doc, q) \in Leftovers
  BY <1>2 DEF CutReads
<1> QED
  BY <1>3, <1>4, <1>5

LEMMA NoMember ==
    ASSUME NEW doc \in Seq(Units), NEW from \in Nat, from > Len(doc)
    PROVE  CutReads("members", doc, from, ObjectsOf({{}}))
<1> SUFFICES ASSUME NEW n \in 1..(Len(doc) + 1)
             PROVE  \E a \in ObjectsOf({{}}) :
                       Reading(doc)[n]["members"][from] = Got(a, from) /\ Peek(doc, from) \in Leftovers
  BY DEF CutReads
<1>1. Peek(doc, from) = "end" /\ Peek(doc, from) \in Leftovers
  BY DEF Peek, Leftovers
<1>2. ParseString(doc, from, Reading(doc)[n - 1]) = Got(<<>>, from)
  BY <1>1, Zenon DEF ParseString
<1>3. Reading(doc)[n]["members"][from] = Got(<<"object", {}>>, from)
  BY <1>1, <1>2, NoKeyIsRead
<1>4. <<"object", {}>> \in ObjectsOf({{}})
  BY OneObject
<1> QED
  BY <1>1, <1>3, <1>4

(* The same of a text of which something is left.                          *)
CutInTheMiddle(t, P, level) ==
    /\ t \in Seq(Units) /\ Len(t) \in Nat \ {0}
    /\ \A doc, full \in Seq(Units) : \A r \in Leftovers : \A e, pos \in Nat \ {0} :
          pos < e => CutWithin(t, P, level, doc, full, r, e, pos)

LEMMA ObjectIsCut ==
    ASSUME NEW writer, NEW k \in Nat, NEW keys \in [1..k -> Seq(Contents)], AllDifferent(keys, k),
           NEW ts \in [1..k -> Seq(Units)], NEW vs, NEW Ps, NEW level,
           AllCuttable(ts, vs, Ps, k, level), NEW ms \in Seq(Seq(Units)), Len(ms) = k,
           \A i \in 1..k : ms[i] = Member(keys[i], ts[i], writer),
           NEW w, Enclosed(w, LeftBrace, Separated(ms), RightBrace)
    PROVE  CutInTheMiddle(w, ObjectsOf(ObjectParts(keys, vs, k, Ps)), level)
<1> DEFINE Q == ObjectsOf(ObjectParts(keys, vs, k, Ps))
<1>2. PICK inner \in Seq(Units) : inner = Separated(ms)
  BY SeparatedIsAText
<1>3. PICK len \in Nat : len = Len(inner)
  OBVIOUS
<1>4. PICK left \in Units, right \in Units : left = LeftBrace /\ right = RightBrace
  BY MarksAreUnits, Zenon DEF Marks, LeftBrace, RightBrace
<1>5. Enclosed(w, left, inner, right)
  BY <1>2, <1>4
<1>6. w \in Seq(Units) /\ Len(w) = len + 2
  BY <1>3, <1>5, EnclosedIsAText
<1>7. ASSUME NEW doc \in Seq(Units), NEW full \in Seq(Units), NEW r \in Leftovers,
             NEW e \in Nat \ {0}, NEW pos \in Nat \ {0}, pos < e,
             Stands(full, pos, w), CutAt(full, doc, e, r, level), e < pos + Len(w)
      PROVE  CutReads("value", doc, pos, Q)
  <2>1. IsCut(full, doc, e, r)
    BY <1>7 DEF CutAt
  <2>2. PICK first \in Nat \ {0}, mark \in Nat \ {0} :
           first = pos + 1 /\ mark = pos + 1 + len /\ first <= e /\ e <= mark
    BY <1>6, <1>7
  <2>3. Peek(full, pos) = LeftBrace /\ Stands(full, first, inner) /\ Peek(full, mark) = RightBrace
    <3>1. /\ Peek(full, pos) = left /\ Stands(full, pos + 1, inner)
          /\ Peek(full, pos + 1 + Len(inner)) = right
      <4>1. pos \in Nat
        OBVIOUS
      <4> QED
        BY <1>5, <1>7, <4>1, StandsEnclosed
    <3> QED
      BY <1>3, <1>4, <2>2, <3>1
  <2>4. CASE k = 0
    <3>1. inner = <<>> /\ len = 0
      <4>1. ms = <<>>
        BY <2>4
      <4> QED
        BY <1>2, <1>3, <4>1, NothingSeparated
    <3>2. e = first /\ e = mark
      BY <2>2, <3>1
    <3>3. r = "end" /\ Peek(doc, e) = "end"
      BY <1>7, <2>3, <3>2, CutAtMark
    <3>4. ~(pos + 1 < e)
      BY <2>2, <3>2
    <3>5. Peek(doc, pos) = LeftBrace /\ pos <= Len(doc) /\ Peek(doc, pos + 1) # RightBrace
      BY <1>7, <2>1, <2>3, <3>4, AfterTheOpening
    <3>6. first > Len(doc)
      <4>1. Len(doc) = e - 1
        BY <2>1, <3>3, CutEnds
      <4> QED
        BY <3>2, <4>1
    <3>7. CutReads("members", doc, first, ObjectsOf({{}}))
      BY <3>6, NoMember
    <3>8. CutReads("value", doc, pos, ObjectsOf({{}}))
      BY <2>2, <3>5, <3>7, CutObjectIsRead
    <3>9. ObjectsOf({{}}) \subseteq Q
      BY Zenon DEF ObjectsOf, ObjectParts
    <3> QED
      BY <3>8, <3>9, CutReadsMore
  <2>5. CASE k # 0
    <3>1. Len(ms) = k /\ k \in Nat \ {0}
      BY <2>5
    <3>2. Peek(full, first) # RightBrace
      <4>1. PICK start : StandSeparated(full, start, ms, k, first, first + Len(Separated(ms)) + 1)
        BY <1>2, <2>2, <2>3, <3>1, SeparatedStands
      <4>2. PICK key \in Seq(Contents), t \in Seq(Units), m \in Seq(Units) :
               key = keys[1] /\ t = ts[1] /\ m = ms[1] /\ m = Member(key, t, writer)
        BY <3>1
      <4>3. Stands(full, first, m)
        BY <3>1, <4>1, <4>2 DEF StandSeparated
      <4>4. Len(m) \in Nat \ {0} /\ m[1] = Quote
        <5>1. Len(Member(key, t, writer)) \in Nat \ {0} /\ Member(key, t, writer)[1] = Quote
          BY MemberParts
        <5> QED
          BY <4>2, <5>1
      <4>5. Peek(full, first) = m[1]
        BY <2>2, <4>3, <4>4, StandsFirst
      <4>6. Quote # RightBrace
        BY Zenon DEF Quote, RightBrace
      <4> QED
        BY <4>4, <4>5, <4>6
    <3>3. Peek(doc, pos) = LeftBrace /\ pos <= Len(doc) /\ Peek(doc, pos + 1) # RightBrace
      <4>1. pos + 1 < e => Peek(full, pos + 1) # RightBrace
        BY <2>2, <3>2
      <4> QED
        BY <1>7, <2>1, <2>3, <4>1, AfterTheOpening
    <3>4. CutReads("members", doc, first, Q)
      <4>2. Stands(full, first, Separated(ms)) /\ mark = first + Len(Separated(ms))
        BY <1>2, <1>3, <2>2, <2>3
      <4>3. first <= e /\ e <= mark /\ Peek(full, mark) = RightBrace
        BY <2>2, <2>3
      <4> QED
        BY <1>7, <3>1, <4>2, <4>3, MembersAreCut
    <3> QED
      BY <2>2, <3>3, <3>4, CutObjectIsRead
  <2> QED
    BY <2>4, <2>5
<1> HIDE DEF Q
<1>8. \A doc, full \in Seq(Units) : \A r \in Leftovers : \A e, pos \in Nat \ {0} :
          pos < e => CutWithin(w, Q, level, doc, full, r, e, pos)
  BY <1>7 DEF CutWithin
<1>9. w \in Seq(Units) /\ Len(w) \in Nat \ {0}
  BY <1>6
<1> QED
  BY <1>8, <1>9 DEF Q, CutInTheMiddle

(* An object is cuttable if the values of its members are.                 *)
LEMMA ObjectIsCuttable ==
    ASSUME NEW writer, NEW k \in Nat, NEW keys \in [1..k -> Seq(Contents)], AllDifferent(keys, k),
           NEW ts \in [1..k -> Seq(Units)], NEW vs, NEW Ps, NEW level,
           AllCuttable(ts, vs, Ps, k, level), NEW ms \in Seq(Seq(Units)), Len(ms) = k,
           \A i \in 1..k : ms[i] = Member(keys[i], ts[i], writer),
           NEW w, Enclosed(w, LeftBrace, Separated(ms), RightBrace)
    PROVE  Cuttable(w, Nothing \cup ObjectsOf(ObjectParts(keys, vs, k, Ps)), level)
<1> DEFINE Q == ObjectsOf(ObjectParts(keys, vs, k, Ps))
           P == Nothing \cup Q
<1>1. CutInTheMiddle(w, Q, level)
  BY ObjectIsCut
<1>2. Q \subseteq P /\ Nothing \subseteq P
  OBVIOUS
<1> HIDE DEF P, Q
<1>3. \A doc, full \in Seq(Units) : \A r \in Leftovers : \A e, pos \in Nat \ {0} :
          pos < e => CutWithin(w, P, level, doc, full, r, e, pos)
  BY <1>1, <1>2, CutReadsMore DEF CutWithin, CutInTheMiddle
<1>4. "002" \notin LeftOf(w[1], level)
  <2>1. PICK inner \in Seq(Units) : inner = Separated(ms)
    BY SeparatedIsAText
  <2>2. PICK left \in Units, right \in Units : left = LeftBrace /\ right = RightBrace
    BY MarksAreUnits, Zenon DEF Marks, LeftBrace, RightBrace
  <2>3. w[1] = LeftBrace
    <3>1. Enclosed(w, left, inner, right)
      BY <2>1, <2>2
    <3> QED
      BY <2>2, <3>1, EnclosedIsAText
  <2> QED
    BY <2>3, NothingIsLeftOfMarks
<1>5. Cuttable(w, P, level)
  BY <1>1, <1>2, <1>3, <1>4, CuttableInside DEF CutInTheMiddle
<1> QED
  BY <1>5 DEF P, Q
-----------------------------------------------------------------------------
(***************************************************************************)
(* Values of every kind and of every depth.                                *)
(***************************************************************************)

CutInside(n, inside) ==
    [v \in JsonValues[n] |-> Parts(v, IF n = 0 THEN <<>> ELSE inside)]

CutTo(f, m) == f = [n \in 0..m |-> CutInside(n, f[n - 1])]

LEMMA CutAtZero ==
    ASSUME NEW f, NEW g PROVE CutInside(0, f) = CutInside(0, g)
BY DEF CutInside

LEMMA CutExists ==
    ASSUME NEW m \in Nat
    PROVE  \E f : CutTo(f, m)
<1> DEFINE S == {n \in Nat : \E f : CutTo(f, n)}
<1>1. 0 \in S
  <2> DEFINE f == [n \in 0..0 |-> CutInside(0, <<>>)]
             h == [n \in 0..0 |-> CutInside(n, f[n - 1])]
  <2>1. \A n \in 0..0 : f[n] = h[n]
    BY CutAtZero
  <2>2. f = h
    BY <2>1
  <2>3. CutTo(f, 0)
    BY <2>2 DEF CutTo
  <2> QED
    BY <2>3
<1>2. ASSUME NEW n \in Nat, n \in S PROVE n + 1 \in S
  <2>1. PICK f : CutTo(f, n)
    BY <1>2
  <2>2. \A i \in 0..n : f[i] = CutInside(i, f[i - 1])
    BY <2>1 DEF CutTo
  <2> DEFINE g == [i \in 0..(n + 1) |-> IF i <= n THEN f[i] ELSE CutInside(i, f[i - 1])]
             h == [i \in 0..(n + 1) |-> CutInside(i, g[i - 1])]
  <2>3. \A i \in 0..(n + 1) : g[i] = h[i]
    <3> SUFFICES ASSUME NEW i \in 0..(n + 1) PROVE g[i] = h[i]
      OBVIOUS
    <3>1. g[i] = CutInside(i, f[i - 1])
      <4>1. CASE i <= n
        <5>1. i \in 0..n
          BY <4>1
        <5> QED
          BY <2>2, <4>1, <5>1
      <4>2. CASE ~(i <= n)
        BY <4>2
      <4> QED
        BY <4>1, <4>2
    <3>2. CASE i = 0
      <4>1. CutInside(0, f[0 - 1]) = CutInside(0, g[0 - 1])
        BY CutAtZero
      <4> QED
        BY <3>1, <3>2, <4>1
    <3>3. CASE i # 0
      <4>1. i - 1 \in 0..(n + 1) /\ i - 1 <= n
        BY <3>3
      <4>2. g[i - 1] = f[i - 1]
        BY <4>1
      <4> QED
        BY <3>1, <4>2
    <3> QED
      BY <3>2, <3>3
  <2>4. g = h
    BY <2>3
  <2>5. CutTo(g, n + 1)
    BY <2>4 DEF CutTo
  <2> QED
    BY <2>5
<1>3. Nat \subseteq S
  BY <1>1, <1>2, SetInduction
<1> QED
  BY <1>3

(* The parts of a value, depth by depth.                                   *)
LEMMA PartsEquation ==
    \E C : /\ \A v : PartsOf(v) = C[Depth][v]
           /\ \A n \in 0..Depth : \A v \in JsonValues[n] :
                 C[n][v] = Parts(v, IF n = 0 THEN <<>> ELSE C[n - 1])
<1> DEFINE C == CHOOSE f : CutTo(f, Depth)
<1>1. CutTo(C, Depth)
  BY CutExists, DepthAssumption
<1>2. \A v : PartsOf(v) = C[Depth][v]
  BY DEF PartsOf, CutTo, CutInside
<1> HIDE DEF C
<1>3. \A n \in 0..Depth : C[n] = CutInside(n, C[n - 1])
  BY <1>1 DEF CutTo
<1>4. ASSUME NEW n \in 0..Depth, NEW v \in JsonValues[n]
      PROVE  C[n][v] = Parts(v, IF n = 0 THEN <<>> ELSE C[n - 1])
  BY <1>3 DEF CutInside
<1> QED
  BY <1>2, <1>4

(* The parts of a value of each kind.                                      *)
LEMMA PartsOfKinds ==
    ASSUME NEW v, NEW inside
    PROVE  /\ v \in Parts(v, inside) /\ Nothing \subseteq Parts(v, inside)
           /\ v[1] \in {"null", "bool"} => Parts(v, inside) = {v} \cup Nothing
           /\ v[1] = "string" => Parts(v, inside) = {v} \cup Nothing \cup StringPieces(v[2]) \cup {Two}
           /\ v[1] = "number" => Parts(v, inside) = {v} \cup Nothing \cup NumberPieces(v[2])
           /\ v[1] = "array" => Parts(v, inside) = {v} \cup Nothing \cup ArrayPieces(v[2], inside)
           /\ v[1] = "object" => Parts(v, inside) = {v} \cup Nothing \cup ObjectPieces(v[2], inside)
BY DEF Parts

(* What can be read of a text can be read as one of more values.           *)
LEMMA CuttableMore ==
    ASSUME NEW t, NEW P, NEW Q, NEW level, Cuttable(t, P, level), P \subseteq Q
    PROVE  Cuttable(t, Q, level)
<1>1. t \in Seq(Units) /\ Len(t) \in Nat \ {0}
  BY DEF Cuttable
<1>2. \A doc, full \in Seq(Units) : \A r \in Leftovers : \A e, pos \in Nat \ {0} :
          pos <= e => CutWithin(t, P, level, doc, full, r, e, pos)
  BY DEF Cuttable
<1>3. ASSUME NEW doc, NEW full, NEW r, NEW e, NEW pos, CutWithin(t, P, level, doc, full, r, e, pos)
      PROVE  CutWithin(t, Q, level, doc, full, r, e, pos)
  BY <1>3, CutReadsMore DEF CutWithin
<1> QED
  BY <1>1, <1>2, <1>3 DEF Cuttable

LEMMA DigitIsANumeral ==
    ASSUME NEW d \in Digits PROVE <<d>> \in Numerals
<1>1. PICK s : s = <<d>>
  OBVIOUS
<1>2. d \in Digits \cup {"-"} /\ d # "-"
  BY DEF Digits
<1>3. s \in Seq(Digits \cup {"-"}) /\ Len(s) = 1 /\ s[1] = d
  BY <1>1, <1>2, OneUnit
<1>4. s # <<>> /\ s # <<"-", "0">> /\ s[Len(s)] \in Digits
  BY <1>1, <1>2, <1>3
<1>5. \A i \in 1..Len(s) : s[i] = "-" => i = 1
  BY <1>3
<1>6. \A i \in 1..(Len(s) - 1) : s[i] = "0" => \E j \in 1..i : s[j] \in Digits \ {"0"}
  BY <1>3
<1> QED
  BY <1>1, <1>3, <1>4, <1>5, <1>6 DEF Numerals

LEMMA NothingIsALeaf == Nothing \cup {Two} \subseteq Leaves
<1>1. <<"null">> \in Leaves /\ <<"bool", FALSE>> \in Leaves
  BY DEF Leaves
<1>2. ASSUME NEW d \in Digits PROVE <<"number", <<d>>>> \in {"number"} \X Numerals
  BY DigitIsANumeral, Zenon
<1>3. "0" \in Digits /\ "2" \in Digits
  BY DEF Digits
<1> QED
  BY <1>1, <1>2, <1>3 DEF Nothing, Two, Leaves

LEMMA NumberPiecesAreNumbers ==
    ASSUME NEW s \in Numerals
    PROVE  NumberPieces(s) \subseteq {"number"} \X Numerals
<1> SUFFICES ASSUME NEW k \in DOMAIN s, s[k] \in Digits
             PROVE  SubSeq(s, 1, k) \in Numerals
  <2>1. ASSUME NEW piece \in NumberPieces(s)
        PROVE  piece \in {"number"} \X Numerals
    <3>1. PICK i \in {i \in DOMAIN s : s[i] \in Digits} : piece = <<"number", SubSeq(s, 1, i)>>
      BY <2>1, Zenon DEF NumberPieces
    <3>2. SubSeq(s, 1, i) \in Numerals
      BY <3>1, Zenon
    <3> QED
      BY <3>1, <3>2, Zenon
  <2> QED
    BY <2>1, Zenon
<1>1. /\ s \in Seq(Digits \cup {"-"}) /\ s # <<"-", "0">>
      /\ \A i \in 1..Len(s) : s[i] = "-" => i = 1
      /\ \A i \in 1..(Len(s) - 1) : s[i] = "0" => \E j \in 1..i : s[j] \in Digits \ {"0"}
  BY DEF Numerals
<1>2. k \in 1..Len(s) /\ k \in 0..Len(s)
  BY <1>1
<1>3. PICK p \in Seq(Digits \cup {"-"}) : p = SubSeq(s, 1, k) /\ Len(p) = k /\ \A i \in 1..k : p[i] = s[i]
  <2>1. SubSeq(s, 1, k) \in Seq(Digits \cup {"-"})
    BY <1>1, <1>2, BeginningIsASeq
  <2>2. Len(SubSeq(s, 1, k)) = k /\ \A i \in 1..k : SubSeq(s, 1, k)[i] = s[i]
    BY <1>1, <1>2
  <2> QED
    BY <2>1, <2>2
<1>4. p # <<>> /\ p[Len(p)] \in Digits
  <2>1. k \in 1..k
    BY <1>2
  <2> QED
    BY <1>2, <1>3, <2>1
<1>5. p # <<"-", "0">>
  <2> SUFFICES ASSUME p = <<"-", "0">> PROVE FALSE
    OBVIOUS
  <2>1. k = 2 /\ p[1] = "-" /\ p[2] = "0"
    BY <1>3
  <2>2. s[1] = "-" /\ s[2] = "0"
    BY <1>3, <2>1
  <2>3. CASE Len(s) = 2
    <3>1. s = <<"-", "0">>
      BY <1>1, <2>2, <2>3
    <3> QED
      BY <1>1, <3>1
  <2>4. CASE Len(s) # 2
    <3>1. 2 \in 1..(Len(s) - 1)
      BY <1>2, <2>1, <2>4
    <3>2. PICK j \in 1..2 : s[j] \in Digits \ {"0"}
      BY <1>1, <2>2, <3>1
    <3>3. s[j] = "-" \/ s[j] = "0"
      BY <2>2
    <3> QED
      BY <3>2, <3>3 DEF Digits
  <2> QED
    BY <2>3, <2>4
<1>6. \A i \in 1..Len(p) : p[i] = "-" => i = 1
  BY <1>1, <1>2, <1>3
<1>7. ASSUME NEW i \in 1..(Len(p) - 1), p[i] = "0" PROVE \E j \in 1..i : p[j] \in Digits \ {"0"}
  <2>1. i \in 1..k /\ i \in 1..(Len(s) - 1)
    BY <1>1, <1>2, <1>3
  <2>2. PICK j \in 1..i : s[j] \in Digits \ {"0"}
    BY <1>1, <1>3, <1>7, <2>1
  <2>3. j \in 1..k
    BY <2>1
  <2> QED
    BY <1>3, <2>2, <2>3
<1> QED
  BY <1>3, <1>4, <1>5, <1>6, <1>7 DEF Numerals

LEMMA RestsAreStrings == Rests \subseteq Seq(Characters)
<1>1. <<>> \in Seq(Characters)
  BY EmptySeq
<1>2. \A a \in {"\\"} \cup CutCodes : <<a>> \in Seq(Characters)
  BY CutAssumption, OneUnit
<1> QED
  BY <1>1, <1>2, Zenon DEF Rests

LEMMA StringPiecesAreStrings ==
    ASSUME NEW s \in Seq(Characters)
    PROVE  StringPieces(s) \subseteq {"string"} \X Seq(Characters)
<1> SUFFICES ASSUME NEW k \in 0..Len(s), NEW rest \in Rests PROVE SubSeq(s, 1, k) \o rest \in Seq(Characters)
  <2>1. ASSUME NEW piece \in StringPieces(s)
        PROVE  piece \in {"string"} \X Seq(Characters)
    <3>1. PICK i \in 0..Len(s) : \E end \in Rests : piece = <<"string", SubSeq(s, 1, i) \o end>>
      BY <2>1, Zenon DEF StringPieces
    <3>2. PICK end \in Rests : piece = <<"string", SubSeq(s, 1, i) \o end>>
      BY <3>1
    <3>3. SubSeq(s, 1, i) \o end \in Seq(Characters)
      BY <3>1, <3>2, Zenon
    <3> QED
      BY <3>2, <3>3, Zenon
  <2> QED
    BY <2>1, Zenon
<1>1. SubSeq(s, 1, k) \in Seq(Characters) /\ rest \in Seq(Characters)
  BY BeginningIsASeq, RestsAreStrings
<1> QED
  BY <1>1, ConcatProperties

(* What may be left of the characters of a string.                         *)
LEMMA LeftOfCharacters ==
    ASSUME NEW s \in Seq(Characters), NEW m \in 1..(Len(s) + 1)
    PROVE  Endings(LeftAt(s, m, "payload")) \subseteq Rests
<1>1. LeftAt(s, m, "payload") \subseteq {"end", "\\"} \cup CutCodes
  <2>1. CASE m <= Len(s)
    <3>1. PICK c \in Characters : c = s[m]
      <4>1. m \in 1..Len(s)
        BY <2>1
      <4> QED
        BY <4>1
    <3>2. c # "true" /\ c # "false" /\ c # "null"
      BY CutAssumption
    <3>3. FirstOf(c) \subseteq CutCodes
      <4>1. FirstOf(c) = CutCode(c)
        BY <3>2 DEF FirstOf
      <4> QED
        BY <4>1, CutCodesAre
    <3>4. RestOf(c) \subseteq {"\\"} \cup CutCodes
      BY CutCodesAre DEF RestOf, RestOfCode
    <3>5. LeftOf(c, "payload") \subseteq {"end", "\\"} \cup CutCodes
      BY <3>3, <3>4 DEF LeftOf
    <3> QED
      BY <2>1, <3>1, <3>5 DEF LeftAt
  <2>2. CASE ~(m <= Len(s))
    BY <2>2, LeftOfEscapes DEF LeftAt
  <2> QED
    BY <2>1, <2>2
<1> SUFFICES ASSUME NEW x \in {"end", "\\"} \cup CutCodes PROVE Ending(x) \in Rests
  BY <1>1 DEF Endings
<1> QED
  BY Zenon DEF Ending, Rests

LEMMA StringPartsArePieces ==
    ASSUME NEW s \in Seq(Characters)
    PROVE  Strings(StringParts(s, "payload")) \subseteq StringPieces(s)
<1>1. ASSUME NEW v \in Strings(StringParts(s, "payload"))
      PROVE  \E m \in 1..(Len(s) + 1) : \E rest \in Endings(LeftAt(s, m, "payload")) :
                v = <<"string", SubSeq(s, 1, m - 1) \o rest>>
  <2>1. PICK w \in StringParts(s, "payload") : v = <<"string", w>>
    BY <1>1, Zenon DEF Strings
  <2>2. PICK m \in 1..(Len(s) + 1) : w \in Beginnings(s, 1, m, Endings(LeftAt(s, m, "payload")))
    BY <2>1, Zenon DEF StringParts
  <2>3. PICK rest \in Endings(LeftAt(s, m, "payload")) : w = SubSeq(s, 1, m - 1) \o rest
    BY <2>2, Zenon DEF Beginnings
  <2> QED
    BY <2>1, <2>3
<1>2. ASSUME NEW m \in 1..(Len(s) + 1), NEW rest \in Endings(LeftAt(s, m, "payload"))
      PROVE  <<"string", SubSeq(s, 1, m - 1) \o rest>> \in StringPieces(s)
  <2>1. rest \in Rests
    BY LeftOfCharacters
  <2>2. PICK k \in 0..Len(s) : k = m - 1
    OBVIOUS
  <2>3. <<"string", SubSeq(s, 1, k) \o rest>> \in {<<"string", SubSeq(s, 1, k) \o end>> : end \in Rests}
    BY <2>1, Zenon
  <2>4. <<"string", SubSeq(s, 1, k) \o rest>> \in StringPieces(s)
    BY <2>3, Zenon DEF StringPieces
  <2> QED
    BY <2>2, <2>4, Zenon
<1>3. ASSUME NEW v \in Strings(StringParts(s, "payload"))
      PROVE  v \in StringPieces(s)
  <2>1. PICK m \in 1..(Len(s) + 1) : \E rest \in Endings(LeftAt(s, m, "payload")) :
                v = <<"string", SubSeq(s, 1, m - 1) \o rest>>
    BY <1>1, <1>3, Zenon
  <2>2. PICK rest \in Endings(LeftAt(s, m, "payload")) : v = <<"string", SubSeq(s, 1, m - 1) \o rest>>
    BY <2>1
  <2> QED
    BY <1>2, <2>2, Zenon
<1> QED
  BY <1>3, Zenon

(* The parts of a leaf are leaves.                                         *)
LEMMA PartsOfLeaves ==
    ASSUME NEW v \in Leaves, NEW inside
    PROVE  Parts(v, inside) \subseteq Leaves
<1>1. Nothing \subseteq Leaves /\ Two \in Leaves
  BY NothingIsALeaf
<1>2. CASE v[1] \in {"null", "bool"}
  <2>1. Parts(v, inside) = {v} \cup Nothing
    BY <1>2, PartsOfKinds
  <2> QED
    BY <1>1, <2>1
<1>3. CASE v \in {"number"} \X Numerals
  <2>1. PICK s \in Numerals : v[1] = "number" /\ v[2] = s
    BY <1>3
  <2>2. Parts(v, inside) = {v} \cup Nothing \cup NumberPieces(s)
    BY <2>1, PartsOfKinds
  <2>3. NumberPieces(s) \subseteq Leaves
    BY NumberPiecesAreNumbers DEF Leaves
  <2> QED
    BY <1>1, <2>2, <2>3
<1>4. CASE v \in {"string"} \X Seq(Characters)
  <2>1. PICK s \in Seq(Characters) : v[1] = "string" /\ v[2] = s
    BY <1>4
  <2>2. Parts(v, inside) = {v} \cup Nothing \cup StringPieces(s) \cup {Two}
    BY <2>1, PartsOfKinds
  <2>3. StringPieces(s) \subseteq Leaves
    BY StringPiecesAreStrings DEF Leaves
  <2> QED
    BY <1>1, <2>2, <2>3
<1>5. v = <<"null">> \/ v \in {"bool"} \X BOOLEAN => v[1] \in {"null", "bool"}
  OBVIOUS
<1> QED
  BY <1>2, <1>3, <1>4, <1>5 DEF Leaves

(* What can be read of a leaf is a part of it.                             *)
LEMMA LeavesAreCuttable ==
    ASSUME NEW v \in Leaves, NEW inside, NEW writer, NEW t \in Texts(v, inside, writer), NEW within
    PROVE  Cuttable(t, Parts(v, within), "payload")
<1>0. Nothing \subseteq Parts(v, within)
  BY PartsOfKinds
<1>1. CASE v[1] \in {"null", "bool"}
  <2>1. PICK word \in Words : t = <<word>>
    <3>1. {"null", "true", "false"} \subseteq Words
      BY DEF Words
    <3>2. CASE v[1] = "null"
      BY <3>1, <3>2, TextsOfLeaf
    <3>3. CASE v[1] = "bool"
      <4>1. t = IF v[2] THEN <<"true">> ELSE <<"false">>
        BY <3>3, TextsOfLeaf
      <4> QED
        BY <3>1, <4>1
    <3> QED
      BY <1>1, <3>2, <3>3
  <2>2. Cuttable(t, Nothing, "payload")
    BY <2>1, WordIsCuttable
  <2>3. Parts(v, within) = {v} \cup Nothing
    BY <1>1, PartsOfKinds
  <2> QED
    BY <1>0, <2>2, <2>3, CuttableMore
<1>2. CASE v \in {"number"} \X Numerals
  <2>1. PICK s \in Numerals : v[1] = "number" /\ v[2] = s
    BY <1>2
  <2>2. t = s
    BY <2>1, TextsOfLeaf
  <2>3. Cuttable(t, Nothing \cup NumberPieces(s), "payload")
    BY <2>2, NumberIsCuttable
  <2>4. Parts(v, within) = {v} \cup Nothing \cup NumberPieces(s)
    BY <2>1, PartsOfKinds
  <2>5. Nothing \cup NumberPieces(s) \subseteq Parts(v, within)
    BY <2>4
  <2> QED
    BY <2>3, <2>5, CuttableMore
<1>3. CASE v \in {"string"} \X Seq(Characters)
  <2>1. PICK s \in Seq(Characters) : v[1] = "string" /\ v[2] = s
    BY <1>3
  <2>2. t = Quoted(s, writer) /\ s \in Seq(Contents)
    <3>1. Characters \subseteq Contents
      BY DEF Contents
    <3> QED
      BY <2>1, <3>1, TextsOfLeaf
  <2>3. Cuttable(t, Nothing \cup {Two} \cup Strings(StringParts(s, "payload")), "payload")
    BY <2>2, StringIsCuttable
  <2>4. Parts(v, within) = {v} \cup Nothing \cup StringPieces(s) \cup {Two}
    BY <2>1, PartsOfKinds
  <2>5. Nothing \cup {Two} \cup Strings(StringParts(s, "payload")) \subseteq Parts(v, within)
    BY <2>4, StringPartsArePieces
  <2> QED
    BY <2>3, <2>5, CuttableMore
<1>4. v = <<"null">> \/ v \in {"bool"} \X BOOLEAN => v[1] \in {"null", "bool"}
  OBVIOUS
<1> QED
  BY <1>1, <1>2, <1>3, <1>4 DEF Leaves

(* What can be read of whatever is written of these values, when it is cut.*)
AllCut(V, texts, parts) ==
    \A v \in V : /\ v \in parts[v] /\ parts[v] \subseteq V
                 /\ \A t \in texts[v] : Readable(t, v) /\ Cuttable(t, parts[v], "payload")

LEMMA ArrayPiecesAreParts ==
    ASSUME NEW vs, NEW parts, NEW Ps, \A i \in DOMAIN vs : Ps[i] = parts[vs[i]]
    PROVE  ArrayParts(vs, Ps) = ArrayPieces(vs, parts)
<1>1. \A k \in DOMAIN vs : ElementParts(vs, k, Ps[k]) = ElementParts(vs, k, parts[vs[k]])
  OBVIOUS
<1>2. ArrayParts(vs, Ps) = {<<"array", SubSeq(vs, 1, k)>> : k \in 0..Len(vs)} \cup
                           UNION {ElementParts(vs, k, Ps[k]) : k \in DOMAIN vs}
  BY Zenon DEF ArrayParts
<1>3. UNION {ElementParts(vs, k, Ps[k]) : k \in DOMAIN vs} =
      UNION {ElementParts(vs, k, parts[vs[k]]) : k \in DOMAIN vs}
  BY <1>1, Zenon
<1> QED
  BY <1>2, <1>3, Zenon DEF ArrayPieces

(* The parts of an array are arrays.                                       *)
LEMMA ArrayPiecesAreArrays ==
    ASSUME NEW V, NEW vs \in Seq(V), NEW parts, \A v \in V : parts[v] \subseteq V
    PROVE  ArrayPieces(vs, parts) \subseteq {"array"} \X Seq(V)
<1>1. ASSUME NEW k \in 0..Len(vs) PROVE <<"array", SubSeq(vs, 1, k)>> \in {"array"} \X Seq(V)
  <2>1. SubSeq(vs, 1, k) \in Seq(V)
    BY BeginningIsASeq
  <2> QED
    BY <2>1, Zenon
<1>2. ASSUME NEW k \in DOMAIN vs, NEW p \in parts[vs[k]]
      PROVE  <<"array", Append(SubSeq(vs, 1, k - 1), p)>> \in {"array"} \X Seq(V)
  <2>1. vs[k] \in V /\ k - 1 \in 0..Len(vs)
    OBVIOUS
  <2>2. p \in V
    BY <2>1
  <2>3. SubSeq(vs, 1, k - 1) \in Seq(V)
    BY <2>1, BeginningIsASeq
  <2>4. Append(SubSeq(vs, 1, k - 1), p) \in Seq(V)
    BY <2>2, <2>3, AppendProperties
  <2> QED
    BY <2>4, Zenon
<1>3. ASSUME NEW a \in ArrayPieces(vs, parts) PROVE a \in {"array"} \X Seq(V)
  <2>1. \/ \E k \in 0..Len(vs) : a = <<"array", SubSeq(vs, 1, k)>>
        \/ \E k \in DOMAIN vs : a \in ElementParts(vs, k, parts[vs[k]])
    BY <1>3, Zenon DEF ArrayPieces
  <2>2. CASE \E k \in 0..Len(vs) : a = <<"array", SubSeq(vs, 1, k)>>
    BY <1>1, <2>2, Zenon
  <2>3. CASE \E k \in DOMAIN vs : a \in ElementParts(vs, k, parts[vs[k]])
    BY <1>2, <2>3, Zenon DEF ElementParts
  <2> QED
    BY <2>1, <2>2, <2>3
<1> QED
  BY <1>3, Zenon

(* What can be read of an array is a part of it.                           *)
LEMMA ArraysAreCuttable ==
    ASSUME NEW V, NEW vs \in Seq(V), NEW texts, NEW parts, AllCut(V, texts, parts),
           NEW t \in TextsOfArray(vs, texts)
    PROVE  Cuttable(t, Nothing \cup ArrayPieces(vs, parts), "payload")
<1> DEFINE sets == [i \in DOMAIN vs |-> texts[vs[i]]]
<1>1. PICK list \in OneOfEach(sets) : t = <<"[">> \o Separated(list) \o <<"]">>
  BY DEF TextsOfArray
<1>2. PICK k \in Nat : k = Len(vs) /\ DOMAIN vs = 1..k
  OBVIOUS
<1>3. DOMAIN list = 1..k /\ list = [i \in 1..k |-> list[i]] /\ \A i \in 1..k : list[i] \in texts[vs[i]]
  <2>1. DOMAIN sets = 1..k /\ \A i \in 1..k : sets[i] = texts[vs[i]]
    BY <1>2
  <2> HIDE DEF sets
  <2>2. /\ DOMAIN list = 1..k /\ list = [i \in 1..k |-> list[i]]
        /\ \A i \in 1..k : list[i] \in sets[i]
    BY <2>1, ListOfOneEach
  <2> QED
    BY <2>1, <2>2
<1> HIDE DEF sets
<1>4. PICK Ps : Ps = [i \in 1..k |-> parts[vs[i]]]
  OBVIOUS
<1>5. \A i \in 1..k : /\ Readable(list[i], vs[i]) /\ Cuttable(list[i], Ps[i], "payload")
                      /\ vs[i] \in Ps[i] /\ Ps[i] \subseteq V
  <2> SUFFICES ASSUME NEW i \in 1..k
               PROVE  /\ Readable(list[i], vs[i]) /\ Cuttable(list[i], Ps[i], "payload")
                      /\ vs[i] \in Ps[i] /\ Ps[i] \subseteq V
    OBVIOUS
  <2>1. vs[i] \in V /\ Ps[i] = parts[vs[i]]
    BY <1>2, <1>4
  <2> QED
    BY <1>3, <2>1 DEF AllCut
<1>6. list \in Seq(Seq(Units)) /\ Len(list) = k
  <2>1. \A i \in 1..k : list[i] \in Seq(Units)
    BY <1>5 DEF Readable
  <2>2. list \in [1..k -> Seq(Units)]
    BY <1>3, <2>1
  <2> QED
    BY <2>2, FunctionIsASequence
<1>7. Enclosed(t, "[", Separated(list), "]")
  BY <1>1 DEF Enclosed
<1>8. AllCuttable(list, vs, Ps, k, "payload")
  BY <1>5 DEF AllCuttable
<1>9. Cuttable(t, Nothing \cup ArrayParts(vs, Ps), "payload")
  <2>1. Len(list) = Len(vs) /\ AllCuttable(list, vs, Ps, Len(vs), "payload")
    BY <1>2, <1>6, <1>8
  <2>2. \A i \in 1..Len(vs) : Ps[i] \subseteq V
    BY <1>2, <1>5
  <2> QED
    BY <1>6, <1>7, <2>1, <2>2, ArrayIsCuttable
<1>10. ArrayParts(vs, Ps) = ArrayPieces(vs, parts)
  <2>1. \A i \in DOMAIN vs : Ps[i] = parts[vs[i]]
    BY <1>2, <1>4
  <2> QED
    BY <2>1, ArrayPiecesAreParts
<1> QED
  BY <1>9, <1>10

LEMMA SomeMembersAreObjects ==
    ASSUME NEW V, NEW members \in Objects(V), NEW inside, \A v \in V : inside[v] \subseteq V,
           NEW some \in SUBSET members
    PROVE  SomeMembers(members, inside, some) \subseteq Objects(V)
<1>1. /\ IsFiniteSet(members) /\ members \subseteq Seq(Characters) \X V
      /\ \A m1, m2 \in members : m1[1] = m2[1] => m1 = m2
  BY ObjectMembers
<1>2. IsFiniteSet(some)
  BY <1>1, FS_Subset
<1>3. some \in Objects(V)
  BY <1>1, <1>2 DEF Objects
<1>4. ASSUME NEW m \in members \ some, NEW p \in inside[m[2]]
      PROVE  some \cup {<<m[1], p>>} \in Objects(V)
  <2>1. PICK key \in Seq(Characters), v \in V : m[1] = key /\ m[2] = v /\ m = <<key, v>>
    BY <1>1
  <2>2. p \in V
    BY <2>1
  <2>3. PICK new \in Seq(Characters) \X V : new = <<key, p>> /\ new[1] = key
    <3>1. <<key, p>> \in Seq(Characters) \X V
      BY <2>2, Zenon
    <3>2. <<key, p>>[1] = key
      OBVIOUS
    <3> QED
      BY <3>1, <3>2
  <2>4. \A o \in some : o[1] # key
    BY <1>1, <2>1
  <2>5. IsFiniteSet(some \cup {new})
    BY <1>2, FS_AddElement
  <2>6. some \cup {new} \subseteq Seq(Characters) \X V
    BY <1>1, <2>3
  <2>7. \A m1, m2 \in some \cup {new} : m1[1] = m2[1] => m1 = m2
    BY <1>1, <2>3, <2>4
  <2>8. some \cup {new} \in Objects(V)
    BY <2>5, <2>6, <2>7 DEF Objects
  <2> QED
    BY <2>1, <2>3, <2>8
<1>5. ASSUME NEW more \in SomeMembers(members, inside, some) PROVE more \in Objects(V)
  <2>1. more = some \/ \E m \in members \ some : more \in MoreMembers(some, m[1], inside[m[2]])
    BY <1>5, Zenon DEF SomeMembers
  <2>2. CASE \E m \in members \ some : more \in MoreMembers(some, m[1], inside[m[2]])
    <3>1. PICK m \in members \ some : more \in MoreMembers(some, m[1], inside[m[2]])
      BY <2>2
    <3>2. PICK p \in inside[m[2]] : more = some \cup {<<m[1], p>>}
      BY <3>1, Zenon DEF MoreMembers
    <3> QED
      BY <1>4, <3>2, Zenon
  <2> QED
    BY <1>3, <2>1, <2>2
<1> QED
  BY <1>5, Zenon

(* The parts of an object are objects.                                     *)
LEMMA ObjectPiecesAreObjects ==
    ASSUME NEW V, NEW members \in Objects(V), NEW inside, \A v \in V : inside[v] \subseteq V
    PROVE  ObjectPieces(members, inside) \subseteq {"object"} \X Objects(V)
<1>1. UNION {SomeMembers(members, inside, some) : some \in SUBSET members} \subseteq Objects(V)
  <2>1. ASSUME NEW some \in SUBSET members PROVE SomeMembers(members, inside, some) \subseteq Objects(V)
    BY SomeMembersAreObjects
  <2> QED
    BY <2>1, Zenon
<1> QED
  BY <1>1, Zenon DEF ObjectPieces

LEMMA OnePieceOfAnObject ==
    ASSUME NEW members, NEW inside, NEW some \in SUBSET members
    PROVE  /\ <<"object", some>> \in ObjectPieces(members, inside)
           /\ \A m \in members \ some : \A p \in inside[m[2]] :
                 <<"object", some \cup {<<m[1], p>>}>> \in ObjectPieces(members, inside)
<1>1. some \in SomeMembers(members, inside, some)
  BY Zenon DEF SomeMembers
<1>2. ASSUME NEW m \in members \ some, NEW p \in inside[m[2]]
      PROVE  some \cup {<<m[1], p>>} \in SomeMembers(members, inside, some)
  <2>1. some \cup {<<m[1], p>>} \in MoreMembers(some, m[1], inside[m[2]])
    BY Zenon DEF MoreMembers
  <2> QED
    BY <2>1, Zenon DEF SomeMembers
<1>3. \A more \in SomeMembers(members, inside, some) : <<"object", more>> \in ObjectPieces(members, inside)
  BY Zenon DEF ObjectPieces
<1> QED
  BY <1>1, <1>2, <1>3

LEMMA ObjectPartsArePieces ==
    ASSUME NEW k \in Nat, NEW keys, NEW vs, AllDifferent(keys, k), NEW parts, NEW Ps,
           \A i \in 1..k : Ps[i] = parts[vs[i]]
    PROVE  ObjectsOf(ObjectParts(keys, vs, k, Ps)) \subseteq ObjectPieces(MembersOf(keys, vs, k), parts)
<1> DEFINE members == MembersOf(keys, vs, k)
<1>1. \A j \in 1..k : <<keys[j], vs[j]>> \in members
  BY Zenon DEF MembersOf
<1> HIDE DEF members
<1>2. ASSUME NEW m \in 1..k
      PROVE  /\ MembersFrom(keys, vs, 1, m) \in SUBSET members
             /\ <<keys[m], vs[m]>> \in members \ MembersFrom(keys, vs, 1, m)
  <2>1. \A j \in 1..(m - 1) : j \in 1..k /\ j # m
    OBVIOUS
  <2>2. \A o \in MembersFrom(keys, vs, 1, m) : \E j \in 1..(m - 1) : o = <<keys[j], vs[j]>>
    BY Zenon DEF MembersFrom
  <2>3. MembersFrom(keys, vs, 1, m) \in SUBSET members
    BY <1>1, <2>1, <2>2
  <2>4. \A j \in 1..(m - 1) : keys[j] # keys[m]
    BY <2>1 DEF AllDifferent
  <2>5. <<keys[m], vs[m]>> \notin MembersFrom(keys, vs, 1, m)
    BY <2>2, <2>4
  <2> QED
    BY <1>1, <2>3, <2>5
<1>3. ASSUME NEW m \in 1..k, NEW more \in MembersAnd(keys, vs, 1, m, LastMember(keys[m], Ps[m]))
      PROVE  <<"object", more>> \in ObjectPieces(members, parts)
  <2>1. PICK some : some = MembersFrom(keys, vs, 1, m)
    OBVIOUS
  <2>2. PICK last \in LastMember(keys[m], Ps[m]) : more = some \cup last
    BY <1>3, <2>1, Zenon DEF MembersAnd
  <2>3. last = {} \/ \E p \in Ps[m] : last = {<<keys[m], p>>}
    BY <2>2, Zenon DEF LastMember
  <2>4. some \in SUBSET members /\ <<keys[m], vs[m]>> \in members \ some
    BY <1>2, <2>1
  <2>5. CASE last = {}
    <3>1. more = some
      BY <2>2, <2>5
    <3> QED
      BY <2>4, <3>1, OnePieceOfAnObject
  <2>6. CASE \E p \in Ps[m] : last = {<<keys[m], p>>}
    <3>1. PICK p \in parts[vs[m]] : last = {<<keys[m], p>>}
      BY <2>6
    <3>2. PICK o \in members \ some : o = <<keys[m], vs[m]>> /\ o[1] = keys[m] /\ o[2] = vs[m]
      BY <2>4
    <3>3. <<"object", some \cup {<<o[1], p>>}>> \in ObjectPieces(members, parts)
      BY <2>4, <3>2, OnePieceOfAnObject
    <3> QED
      BY <2>2, <3>1, <3>2, <3>3
  <2> QED
    BY <2>3, <2>5, <2>6
<1>4. ASSUME NEW v \in ObjectsOf(ObjectParts(keys, vs, k, Ps))
      PROVE  v \in ObjectPieces(members, parts)
  <2>1. PICK more \in ObjectParts(keys, vs, k, Ps) : v = <<"object", more>>
    BY <1>4, Zenon DEF ObjectsOf
  <2>2. more = {} \/ \E m \in 1..k : more \in MembersAnd(keys, vs, 1, m, LastMember(keys[m], Ps[m]))
    BY <2>1, Zenon DEF ObjectParts
  <2>3. <<"object", {}>> \in ObjectPieces(members, parts)
    <3>1. {} \in SUBSET members
      OBVIOUS
    <3> QED
      BY <3>1, OnePieceOfAnObject
  <2> QED
    BY <1>3, <2>1, <2>2, <2>3
<1> QED
  BY <1>4, Zenon DEF members

(* What can be read of an object is a part of it.                          *)
LEMMA ObjectsAreCuttable ==
    ASSUME NEW V, NEW members \in Objects(V), NEW texts, NEW parts, NEW writer, AllCut(V, texts, parts),
           NEW t \in TextsOfObject(members, texts, writer)
    PROVE  Cuttable(t, Nothing \cup ObjectPieces(members, parts), "payload")
<1>1. PICK order \in SetToSeqs(members) :
         \E list \in MembersInOrder(order, texts, writer) :
            t = <<LeftBrace>> \o Separated(list) \o <<RightBrace>>
  BY Zenon DEF TextsOfObject
<1>2. PICK list \in MembersInOrder(order, texts, writer) :
            Enclosed(t, LeftBrace, Separated(list), RightBrace)
  BY <1>1, Zenon DEF Enclosed
<1>3. PICK k \in Nat : /\ order \in [1..k -> members]
                       /\ \A i, j \in 1..k : i # j => order[i] # order[j]
                       /\ \A m \in members : \E i \in 1..k : order[i] = m
  BY ObjectMembers, OrdersAreComplete
<1>4. PICK keys, vs : /\ keys = [i \in 1..k |-> order[i][1]] /\ vs = [i \in 1..k |-> order[i][2]]
  OBVIOUS
<1>5. \A i \in 1..k : keys[i] \in Seq(Contents) /\ vs[i] \in V /\ order[i] = <<keys[i], vs[i]>>
  <2>1. Characters \subseteq Contents
    BY DEF Contents
  <2> QED
    BY <1>3, <1>4, <2>1, ObjectMembers
<1>6. AllDifferent(keys, k)
  BY <1>3, <1>4, ObjectMembers DEF AllDifferent
<1>7. MembersOf(keys, vs, k) = members
  <2>1. MembersOf(keys, vs, k) \subseteq members
    <3> SUFFICES ASSUME NEW j \in 1..k PROVE <<keys[j], vs[j]>> \in members
      BY DEF MembersOf
    <3>1. order[j] \in members /\ order[j] = <<keys[j], vs[j]>>
      BY <1>3, <1>5
    <3> QED
      BY <3>1
  <2>2. ASSUME NEW m \in members PROVE m \in MembersOf(keys, vs, k)
    <3>1. PICK j \in 1..k : order[j] = m
      BY <1>3
    <3>2. m = <<keys[j], vs[j]>>
      BY <1>5, <3>1
    <3> QED
      BY <3>2, Zenon DEF MembersOf
  <2> QED
    BY <2>1, <2>2, Zenon
<1>8. /\ DOMAIN list = 1..k /\ list = [i \in 1..k |-> list[i]]
      /\ \A i \in 1..k : list[i] \in {Member(keys[i], u, writer) : u \in texts[vs[i]]}
  <2> DEFINE sets == [i \in DOMAIN order |->
                        {Member(order[i][1], u, writer) : u \in texts[order[i][2]]}]
  <2>1. /\ DOMAIN sets = 1..k
        /\ \A i \in 1..k : sets[i] = {Member(keys[i], u, writer) : u \in texts[vs[i]]}
    BY <1>3, <1>4
  <2>2. list \in OneOfEach(sets)
    BY DEF MembersInOrder
  <2> HIDE DEF sets
  <2>3. /\ DOMAIN list = 1..k /\ list = [i \in 1..k |-> list[i]]
        /\ \A i \in 1..k : list[i] \in sets[i]
    BY <2>1, <2>2, ListOfOneEach
  <2> QED
    BY <2>1, <2>3
<1>9. PICK ts : /\ ts = [i \in 1..k |-> CHOOSE u \in texts[vs[i]] :
                                           list[i] = Member(keys[i], u, writer)]
  OBVIOUS
<1>10. \A i \in 1..k : ts[i] \in texts[vs[i]] /\ list[i] = Member(keys[i], ts[i], writer)
  BY <1>8, <1>9
<1>11. \A i \in 1..k : Readable(ts[i], vs[i]) /\ ts[i] \in Seq(Units)
  BY <1>5, <1>10 DEF AllCut, Readable
<1>12. keys \in [1..k -> Seq(Contents)] /\ ts \in [1..k -> Seq(Units)]
  BY <1>4, <1>5, <1>9, <1>11
<1>13. list \in Seq(Seq(Units)) /\ Len(list) = k
  <2>1. \A i \in 1..k : list[i] \in Seq(Units)
    BY <1>10, <1>12, MemberParts
  <2>2. list \in [1..k -> Seq(Units)]
    BY <1>8, <2>1
  <2> QED
    BY <2>2, FunctionIsASequence
<1>14. PICK Ps : Ps = [i \in 1..k |-> parts[vs[i]]]
  OBVIOUS
<1>15. AllCuttable(ts, vs, Ps, k, "payload")
  <2> SUFFICES ASSUME NEW i \in 1..k
               PROVE  Readable(ts[i], vs[i]) /\ Cuttable(ts[i], Ps[i], "payload") /\ vs[i] \in Ps[i]
    BY DEF AllCuttable
  <2>1. vs[i] \in V /\ Ps[i] = parts[vs[i]] /\ ts[i] \in texts[vs[i]]
    BY <1>5, <1>10, <1>14
  <2> QED
    BY <2>1 DEF AllCut
<1>16. Cuttable(t, Nothing \cup ObjectsOf(ObjectParts(keys, vs, k, Ps)), "payload")
  <2>1. \A i \in 1..k : list[i] = Member(keys[i], ts[i], writer)
    BY <1>10
  <2> QED
    BY <1>2, <1>6, <1>12, <1>13, <1>15, <2>1, ObjectIsCuttable
<1>17. ObjectsOf(ObjectParts(keys, vs, k, Ps)) \subseteq ObjectPieces(members, parts)
  BY <1>6, <1>7, <1>14, ObjectPartsArePieces
<1> QED
  BY <1>16, <1>17, CuttableMore

(* A value whose inside is cut into parts is itself cut into parts.        *)
LEMMA NestedAreCut ==
    ASSUME NEW n \in Nat, NEW V, NEW v \in Nested(n, V), NEW texts, NEW parts, NEW writer,
           n # 0 => AllCut(V, texts, parts)
    PROVE  /\ Parts(v, IF n = 0 THEN <<>> ELSE parts) \subseteq Nested(n, V)
           /\ \A t \in Texts(v, IF n = 0 THEN <<>> ELSE texts, writer) :
                 Cuttable(t, Parts(v, IF n = 0 THEN <<>> ELSE parts), "payload")
<1>0. Nothing \subseteq Leaves /\ Leaves \subseteq Nested(n, V)
  BY NothingIsALeaf DEF Nested
<1>1. CASE v \in Leaves
  <2> DEFINE inside == IF n = 0 THEN <<>> ELSE parts
             within == IF n = 0 THEN <<>> ELSE texts
  <2> HIDE DEF inside, within
  <2>1. \A t \in Texts(v, within, writer) : Cuttable(t, Parts(v, inside), "payload")
    BY <1>1, LeavesAreCuttable
  <2>2. Parts(v, inside) \subseteq Leaves
    BY <1>1, PartsOfLeaves
  <2> QED
    BY <1>0, <2>1, <2>2 DEF inside, within
<1>2. CASE n # 0 /\ v \in {"array"} \X Seq(V)
  <2>1. PICK vs \in Seq(V) : v = <<"array", vs>> /\ v[1] = "array" /\ v[2] = vs
    BY <1>2
  <2>2. Texts(v, texts, writer) = TextsOfArray(vs, texts)
    BY <2>1, TextsOfNested
  <2>3. Parts(v, parts) = {v} \cup Nothing \cup ArrayPieces(vs, parts)
    BY <2>1, PartsOfKinds
  <2>4. ArrayPieces(vs, parts) \subseteq {"array"} \X Seq(V)
    <3>1. \A u \in V : parts[u] \subseteq V
      BY <1>2 DEF AllCut
    <3> QED
      BY <3>1, ArrayPiecesAreArrays
  <2>5. Parts(v, parts) \subseteq Nested(n, V)
    BY <1>0, <1>2, <2>3, <2>4 DEF Nested
  <2>6. ASSUME NEW t \in Texts(v, texts, writer) PROVE Cuttable(t, Parts(v, parts), "payload")
    <3>1. Cuttable(t, Nothing \cup ArrayPieces(vs, parts), "payload")
      BY <1>2, <2>2, ArraysAreCuttable
    <3>2. Nothing \cup ArrayPieces(vs, parts) \subseteq Parts(v, parts)
      BY <2>3
    <3> QED
      BY <3>1, <3>2, CuttableMore
  <2> QED
    BY <1>2, <2>5, <2>6
<1>3. CASE n # 0 /\ v \in {"object"} \X Objects(V)
  <2>1. PICK members \in Objects(V) : v = <<"object", members>> /\ v[1] = "object" /\ v[2] = members
    BY <1>3
  <2>2. Texts(v, texts, writer) = TextsOfObject(members, texts, writer)
    BY <2>1, TextsOfNested
  <2>3. Parts(v, parts) = {v} \cup Nothing \cup ObjectPieces(members, parts)
    BY <2>1, PartsOfKinds
  <2>4. ObjectPieces(members, parts) \subseteq {"object"} \X Objects(V)
    <3>1. \A u \in V : parts[u] \subseteq V
      BY <1>3 DEF AllCut
    <3> QED
      BY <3>1, ObjectPiecesAreObjects
  <2>5. Parts(v, parts) \subseteq Nested(n, V)
    BY <1>0, <1>3, <2>3, <2>4 DEF Nested
  <2>6. ASSUME NEW t \in Texts(v, texts, writer) PROVE Cuttable(t, Parts(v, parts), "payload")
    <3>1. Cuttable(t, Nothing \cup ObjectPieces(members, parts), "payload")
      BY <1>3, <2>2, ObjectsAreCuttable
    <3>2. Nothing \cup ObjectPieces(members, parts) \subseteq Parts(v, parts)
      BY <2>3
    <3> QED
      BY <3>1, <3>2, CuttableMore
  <2> QED
    BY <1>3, <2>5, <2>6
<1> QED
  BY <1>1, <1>2, <1>3 DEF Nested

(* Every value of every depth: by induction over the depth.                *)
LEMMA SerializedIsCut ==
    ASSUME NEW writer, NEW v \in JsonValues[Depth]
    PROVE  /\ v \in PartsOf(v) /\ Nothing \subseteq PartsOf(v) /\ PartsOf(v) \subseteq JsonValues[Depth]
           /\ \A t \in Serialize(v, writer) : Cuttable(t, PartsOf(v), "payload")
<1>1. PICK W : /\ \A u : Serialize(u, writer) = W[Depth][u]
               /\ \A n \in 0..Depth : \A u \in JsonValues[n] :
                     W[n][u] = Texts(u, IF n = 0 THEN <<>> ELSE W[n - 1], writer)
  BY SerializeEquation
<1>2. PICK C : /\ \A u : PartsOf(u) = C[Depth][u]
               /\ \A n \in 0..Depth : \A u \in JsonValues[n] :
                     C[n][u] = Parts(u, IF n = 0 THEN <<>> ELSE C[n - 1])
  BY PartsEquation
<1> DEFINE S == {n \in Nat : n <= Depth => AllCut(JsonValues[n], W[n], C[n])}
<1>3. ASSUME NEW n \in Nat, n <= Depth, n # 0 => AllCut(JsonValues[n - 1], W[n - 1], C[n - 1])
      PROVE  AllCut(JsonValues[n], W[n], C[n])
  <2>1. n \in 0..Depth
    BY <1>3, DepthAssumption
  <2>2. ASSUME NEW u \in JsonValues[n]
        PROVE  /\ u \in C[n][u] /\ C[n][u] \subseteq JsonValues[n]
               /\ \A t \in W[n][u] : Readable(t, u) /\ Cuttable(t, C[n][u], "payload")
    <3>1. JsonValues[n] = Nested(n, JsonValues[n - 1]) /\ u \in Nested(n, JsonValues[n - 1])
      BY <2>1, <2>2, JsonValuesEquation
    <3>2. W[n][u] = Texts(u, IF n = 0 THEN <<>> ELSE W[n - 1], writer)
      BY <1>1, <2>1
    <3>3. C[n][u] = Parts(u, IF n = 0 THEN <<>> ELSE C[n - 1])
      BY <1>2, <2>1
    <3>4. n # 0 => AllReadable(JsonValues[n - 1], W[n - 1])
      BY <1>3 DEF AllCut, AllReadable
    <3>5. ASSUME NEW t \in W[n][u] PROVE Readable(t, u)
      BY <3>1, <3>2, <3>4, <3>5, NestedAreReadable
    <3>6. u \in C[n][u]
      <4>1. \A inside : u \in Parts(u, inside)
        BY PartsOfKinds
      <4> QED
        BY <3>3, <4>1
    <3>7. /\ C[n][u] \subseteq Nested(n, JsonValues[n - 1])
          /\ \A t \in W[n][u] : Cuttable(t, C[n][u], "payload")
      <4>1. PICK V, texts, parts : V = JsonValues[n - 1] /\ texts = W[n - 1] /\ parts = C[n - 1]
        OBVIOUS
      <4>2. n # 0 => AllCut(V, texts, parts)
        BY <1>3, <4>1
      <4>3. u \in Nested(n, V)
        BY <3>1, <4>1
      <4>4. /\ Parts(u, IF n = 0 THEN <<>> ELSE parts) \subseteq Nested(n, V)
            /\ \A t \in Texts(u, IF n = 0 THEN <<>> ELSE texts, writer) :
                  Cuttable(t, Parts(u, IF n = 0 THEN <<>> ELSE parts), "payload")
        BY <4>2, <4>3, NestedAreCut
      <4> QED
        BY <3>2, <3>3, <4>1, <4>4
    <3> QED
      BY <3>1, <3>5, <3>6, <3>7
  <2> QED
    BY <2>2 DEF AllCut
<1>4. 0 \in S
  BY <1>3
<1>5. ASSUME NEW n \in S PROVE n + 1 \in S
  <2>1. CASE n + 1 <= Depth
    <3>1. n <= Depth /\ (n + 1) - 1 = n
      BY <2>1, DepthAssumption
    <3>2. AllCut(JsonValues[(n + 1) - 1], W[(n + 1) - 1], C[(n + 1) - 1])
      BY <3>1
    <3>3. AllCut(JsonValues[n + 1], W[n + 1], C[n + 1])
      BY <1>3, <2>1, <3>2
    <3> QED
      BY <3>3
  <2> QED
    BY <2>1
<1> HIDE DEF S
<1>6. Depth \in S
  <2>1. S = Nat \/ Nat \subseteq S
    BY <1>4, <1>5, SetInduction
  <2> QED
    BY <2>1, DepthAssumption
<1>7. AllCut(JsonValues[Depth], W[Depth], C[Depth])
  BY <1>6, DepthAssumption DEF S
<1>8. Nothing \subseteq PartsOf(v)
  <2>1. Depth \in 0..Depth
    BY DepthAssumption
  <2>2. PartsOf(v) = Parts(v, IF Depth = 0 THEN <<>> ELSE C[Depth - 1])
    BY <1>2, <2>1
  <2>3. \A inside : Nothing \subseteq Parts(v, inside)
    BY PartsOfKinds
  <2> QED
    BY <2>2, <2>3
<1> QED
  BY <1>1, <1>2, <1>7, <1>8 DEF AllCut
-----------------------------------------------------------------------------
(***************************************************************************)
(* Requests: two strings in an object, and a payload in one of them.       *)
(***************************************************************************)

(* A cut leaves of a message what comes before it, and perhaps a piece of  *)
(* the unit it goes through.                                               *)
LEMMA CutBehind ==
    ASSUME NEW full \in Seq(Units), NEW k \in 0..(Len(full) - 1),
           NEW x \in Leftovers, NEW level, x \in LeftOf(full[k + 1], level)
    PROVE  LET doc == SubSeq(full, 1, k) \o Ending(x)
           IN  doc \in Seq(Units) /\ CutAt(full, doc, k + 1, x, level)
<1>1. PICK len \in Nat : len = Len(full) /\ k \in 0..len /\ k + 1 \in 1..len
  OBVIOUS
<1>2. PICK s \in Seq(Units) : s = SubSeq(full, 1, k) /\ Len(s) = k /\ \A i \in 1..k : s[i] = full[i]
  <2>1. SubSeq(full, 1, k) \in Seq(Units)
    BY <1>1, BeginningIsASeq
  <2>2. Len(SubSeq(full, 1, k)) = k /\ \A i \in 1..k : SubSeq(full, 1, k)[i] = full[i]
    BY <1>1
  <2> QED
    BY <2>1, <2>2
<1>3. \A i \in 1..k : Peek(full, i) = full[i]
  BY <1>1 DEF Peek
<1>4. Peek(full, k + 1) = full[k + 1]
  BY <1>1 DEF Peek
<1>5. CASE x = "end"
  <2>1. PICK doc : doc = s \o Ending(x)
    OBVIOUS
  <2>2. doc = s
    <3>1. Ending(x) = <<>>
      BY <1>5 DEF Ending
    <3> QED
      BY <2>1, <3>1, ConcatEmptySeq
  <2>3. \A i \in 1..k : Peek(doc, i) = Peek(full, i)
    BY <1>1, <1>2, <1>3, <2>2 DEF Peek
  <2>4. Peek(doc, k + 1) = x /\ Len(doc) = k
    BY <1>1, <1>2, <1>5, <2>2 DEF Peek
  <2>5. (k + 1) - 1 = k
    OBVIOUS
  <2>6. IsCut(full, doc, k + 1, x)
    BY <1>5, <2>3, <2>4, <2>5 DEF IsCut
  <2> QED
    BY <1>2, <1>4, <2>1, <2>2, <2>6 DEF CutAt
<1>6. CASE x # "end"
  <2>1. PICK u : u = <<x>>
    OBVIOUS
  <2>2. x \in Units
    BY <1>6, LeftoversAreUnits
  <2>3. u \in Seq(Units) /\ Len(u) = 1 /\ u[1] = x
    BY <2>1, <2>2, OneUnit
  <2>4. PICK doc : doc = s \o u
    OBVIOUS
  <2>5. doc = SubSeq(full, 1, k) \o Ending(x)
    BY <1>2, <1>6, <2>1, <2>4 DEF Ending
  <2>6. /\ doc \in Seq(Units) /\ Len(doc) = k + 1
        /\ \A i \in 1..k : doc[i] = s[i]
        /\ doc[k + 1] = x
    <3>1. /\ s \o u \in Seq(Units) /\ Len(s \o u) = Len(s) + Len(u)
          /\ \A i \in 1..Len(s) + Len(u) : (s \o u)[i] = IF i <= Len(s) THEN s[i] ELSE u[i - Len(s)]
      BY <1>2, <2>3, ConcatProperties
    <3>2. /\ doc \in Seq(Units) /\ Len(doc) = k + 1
          /\ \A i \in 1..(k + 1) : doc[i] = IF i <= k THEN s[i] ELSE u[i - k]
      BY <1>2, <2>3, <2>4, <3>1
    <3> QED
      BY <1>1, <2>3, <3>2
  <2>7. \A i \in 1..k : Peek(doc, i) = Peek(full, i)
    BY <1>1, <1>2, <1>3, <2>6 DEF Peek
  <2>8. Peek(doc, k + 1) = x
    BY <1>1, <2>6 DEF Peek
  <2>9. (k + 1) - 1 = k
    OBVIOUS
  <2>10. IsCut(full, doc, k + 1, x)
    BY <1>6, <2>6, <2>7, <2>8, <2>9 DEF IsCut
  <2> QED
    BY <1>4, <2>5, <2>6, <2>10 DEF CutAt
<1> QED
  BY <1>5, <1>6

(* What Receive leaves of a message is a cut of it.                        *)
LEMMA CutsAreCuts ==
    ASSUME NEW message \in Seq(Units), NEW doc \in Cuts(message)
    PROVE  /\ doc \in Seq(Units)
           /\ \E e \in 2..Len(message) : \E r \in Leftovers : CutAt(message, doc, e, r, "message")
<1>1. PICK k \in 1..(Len(message) - 1) :
         \E piece \in Pieces(message[k + 1]) : doc = SubSeq(message, 1, k) \o piece
  BY Zenon DEF Cuts
<1>2. PICK piece \in Pieces(message[k + 1]) : doc = SubSeq(message, 1, k) \o piece
  BY <1>1
<1>3. PICK x \in Leftovers : x \in LeftOf(message[k + 1], "message") /\ piece = Ending(x)
  <2>1. PICK u : u = message[k + 1]
    OBVIOUS
  <2>2. \E x \in {"end"} \cup FirstOf(u) : piece = Ending(x)
    <3>1. piece \in {<<>>} \cup {<<x>> : x \in FirstOf(u)}
      <4>1. CASE u \in {"true", "false", "null"}
        <5>1. \/ u = "true"  /\ FirstOf(u) = {"t"} /\ Pieces(u) = {<<>>, <<"t">>}
              \/ u = "false" /\ FirstOf(u) = {"f"} /\ Pieces(u) = {<<>>, <<"f">>}
              \/ u = "null"  /\ FirstOf(u) = {"n"} /\ Pieces(u) = {<<>>, <<"n">>}
          BY <4>1 DEF FirstOf, Pieces
        <5> QED
          BY <1>2, <2>1, <5>1
      <4>2. CASE u \notin {"true", "false", "null"}
        <5>1. FirstOf(u) = CutCode(u)
          BY <4>2 DEF FirstOf
        <5>2. Pieces(u) = {<<>>} \cup {<<rest>> : rest \in CutCode(u)}
          BY <4>2 DEF Pieces
        <5> QED
          BY <1>2, <2>1, <5>1, <5>2
      <4> QED
        BY <4>1, <4>2
    <3>2. "end" \notin FirstOf(u)
      <4>1. FirstOf(u) \in {{"t"}, {"f"}, {"n"}, CutCode(u)}
        BY Zenon DEF FirstOf
      <4>2. "end" \notin CutCode(u)
        BY CutCodesAre, LeftoversAreUnits
      <4> QED
        BY <4>1, <4>2
    <3>3. Ending("end") = <<>> /\ \A x \in FirstOf(u) : Ending(x) = <<x>>
      BY <3>2 DEF Ending
    <3> QED
      BY <3>1, <3>3
  <2>3. {"end"} \cup FirstOf(u) \subseteq LeftOf(u, "message") /\ LeftOf(u, "message") \subseteq Leftovers
    BY LeftoversAreLeft DEF LeftOf
  <2> QED
    BY <2>1, <2>2, <2>3
<1>4. k \in 0..(Len(message) - 1) /\ k + 1 \in 2..Len(message)
  OBVIOUS
<1> QED
  BY <1>2, <1>3, <1>4, CutBehind

LEMMA CutIsParsed ==
    ASSUME NEW doc \in Seq(Units), NEW P, CutReads("value", doc, 1, P)
    PROVE  Parse(doc) \in P
<1>1. PICK n \in 1..(Len(doc) + 1) : n = Len(doc) + 1 /\ Len(doc) + 2 - 1 <= n
  OBVIOUS
<1>2. PICK p \in P, q \in Nat : Reading(doc)[n]["value"][1] = Got(p, q)
  BY <1>1 DEF CutReads
<1>3. Reading(doc)[Len(doc) + 1]["value"][1] = Got(p, q)
  BY <1>1, <1>2
<1> QED
  BY <1>3 DEF Parse, Got

(* Without a payload, nothing is read.                                     *)
LEMMA NoTextIsRead == Parse(<<>>) \in Nothing
<1>1. PICK doc \in Seq(Units) : doc = <<>> /\ Len(doc) = 0
  <2>1. <<>> \in Seq(Units) /\ Len(<<>>) = 0
    BY EmptySeq
  <2> QED
    BY <2>1
<1>2. Peek(doc, 1) = "end"
  BY <1>1 DEF Peek
<1>3. IsCut(doc, doc, 1, "end")
  BY <1>1, <1>2 DEF IsCut
<1>4. "end" \in Leftovers /\ 1 \in Nat \ {0}
  BY DEF Leftovers
<1>5. CutReads("value", doc, 1, Nothing)
  <2>1. NothingFrom("end") = Nothing
    BY DEF NothingFrom
  <2>2. CutReads("value", doc, 1, NothingFrom("end"))
    BY <1>3, <1>4, NothingIsRead
  <2> QED
    BY <2>1, <2>2
<1> QED
  BY <1>1, <1>5, CutIsParsed

LEMMA StandsAtItsBeginning ==
    ASSUME NEW t \in Seq(Units)
    PROVE  Stands(t, 1, t)
<1>1. ASSUME NEW i \in 1..Len(t) PROVE Peek(t, 1 + i - 1) = t[i]
  <2>1. 1 + i - 1 = i /\ i <= Len(t)
    OBVIOUS
  <2> QED
    BY <2>1 DEF Peek
<1> QED
  BY <1>1 DEF Stands

(* What is left of a payload that was a string in a request that is cut.   *)
LEMMA CutPayloadIsRead ==
    ASSUME NEW payload \in Seq(Units), NEW P, Cuttable(payload, P, "payload"),
           Parse(payload) \in P, NEW w \in StringParts(payload, "message")
    PROVE  Parse(w) \in P
<1>1. PICK m \in 1..(Len(payload) + 1) : w \in Beginnings(payload, 1, m, Endings(LeftAt(payload, m, "message")))
  BY Zenon DEF StringParts
<1>2. PICK x \in LeftAt(payload, m, "message") : w = SubSeq(payload, 1, m - 1) \o Ending(x)
  <2>1. PICK p \in Endings(LeftAt(payload, m, "message")) : w = SubSeq(payload, 1, m - 1) \o p
    BY <1>1, Zenon DEF Beginnings
  <2>2. PICK x \in LeftAt(payload, m, "message") : p = Ending(x)
    BY Zenon DEF Endings
  <2> QED
    BY <2>1, <2>2
<1>3. CASE m = Len(payload) + 1
  <2>1. x = "end"
    <3>1. ~(m <= Len(payload))
      BY <1>3
    <3>2. LeftAt(payload, m, "message") = {"end"}
      BY <3>1, LeftOfEscapes DEF LeftAt
    <3> QED
      BY <1>2, <3>2
  <2>2. Ending(x) = <<>>
    BY <2>1 DEF Ending
  <2>3. SubSeq(payload, 1, m - 1) = payload
    BY <1>3
  <2>4. payload \o <<>> = payload
    BY ConcatEmptySeq
  <2> QED
    BY <1>2, <2>2, <2>3, <2>4
<1>4. CASE m # Len(payload) + 1
  <2>1. PICK k \in 0..(Len(payload) - 1) : k = m - 1 /\ k + 1 = m
    BY <1>4
  <2>2. m <= Len(payload)
    BY <1>4
  <2>3. x \in LeftOf(payload[k + 1], "payload") /\ x \in Leftovers
    <3>1. x \in LeftOf(payload[m], "payload")
      BY <1>2, <2>2 DEF LeftAt
    <3> QED
      BY <2>1, <3>1, LeftoversAreLeft
  <2>4. w \in Seq(Units) /\ CutAt(payload, w, k + 1, x, "payload")
    <3>1. PICK doc : doc = SubSeq(payload, 1, k) \o Ending(x)
      OBVIOUS
    <3>2. doc \in Seq(Units) /\ CutAt(payload, doc, k + 1, x, "payload")
      BY <2>3, <3>1, CutBehind
    <3> QED
      BY <1>2, <2>1, <3>1, <3>2
  <2>5. CutReads("value", w, 1, P)
    <3>1. PICK e \in Nat \ {0}, one \in Nat \ {0} : e = k + 1 /\ one = 1 /\ one <= e /\ e < one + Len(payload)
      BY <2>1
    <3>2. CutWithin(payload, P, "payload", w, payload, x, e, one)
      BY <2>3, <2>4, <3>1 DEF Cuttable
    <3>3. Stands(payload, one, payload)
      BY <3>1, StandsAtItsBeginning
    <3> QED
      BY <2>4, <3>1, <3>2, <3>3 DEF CutWithin
  <2> QED
    BY <2>4, <2>5, CutIsParsed
<1> QED
  BY <1>3, <1>4

LEMMA StringMemberIsNotFound ==
    ASSUME NEW members, NEW key, \A m \in members : m[1] = key => m[2][1] # "string"
    PROVE  StringMember(<<"object", members>>, key) = <<>>
<1>1. PICK object : object = <<"object", members>> /\ object[2] = members
  <2>1. PICK object : object = <<"object", members>>
    OBVIOUS
  <2> QED
    BY <2>1
<1>2. {m \in object[2] : m[1] = key /\ m[2][1] = "string"} = {}
  BY <1>1
<1> QED
  BY <1>1, <1>2 DEF StringMember

(* Of two members there are both, of the second perhaps a part, or there is*)
(* no second.                                                              *)
LEMMA TwoMembersAreCut ==
    ASSUME NEW keys, keys[1] # keys[2], NEW vs, NEW Ps, NEW more \in ObjectParts(keys, vs, 2, Ps)
    PROVE  \/ \A o \in more : o[1] # keys[2]
           \/ \E p \in Ps[2] : more = {<<keys[1], vs[1]>>, <<keys[2], p>>}
<1>1. CASE more = {}
  BY <1>1
<1>2. ASSUME NEW m \in 1..2, more \in MembersAnd(keys, vs, 1, m, LastMember(keys[m], Ps[m]))
      PROVE  \/ \A o \in more : o[1] # keys[2]
             \/ \E p \in Ps[2] : more = {<<keys[1], vs[1]>>, <<keys[2], p>>}
  <2>1. PICK last \in LastMember(keys[m], Ps[m]) : more = MembersFrom(keys, vs, 1, m) \cup last
    BY <1>2, Zenon DEF MembersAnd
  <2>2. last = {} \/ \E p \in Ps[m] : last = {<<keys[m], p>>}
    BY <2>1, Zenon DEF LastMember
  <2>3. CASE m = 1
    <3>1. 1..(m - 1) = {}
      BY <2>3
    <3>2. MembersFrom(keys, vs, 1, m) = {}
      BY <3>1 DEF MembersFrom
    <3> QED
      BY <2>1, <2>2, <2>3, <3>2
  <2>4. CASE m = 2
    <3>1. 1..(m - 1) = {1}
      BY <2>4
    <3>2. MembersFrom(keys, vs, 1, m) = {<<keys[1], vs[1]>>}
      BY <3>1 DEF MembersFrom
    <3> QED
      BY <2>1, <2>2, <2>4, <3>2
  <2> QED
    BY <2>3, <2>4
<1>3. more = {} \/ \E m \in 1..2 : more \in MembersAnd(keys, vs, 1, m, LastMember(keys[m], Ps[m]))
  BY Zenon DEF ObjectParts
<1> QED
  BY <1>1, <1>2, <1>3

(* What may be left of a string in a request.                              *)
StringLeft(s) ==
    {<<"string", s>>} \cup (Nothing \cup {Two} \cup Strings(StringParts(s, "message")))

LEMMA StringsLeft ==
    ASSUME NEW s \in Seq(Contents)
    PROVE  Cuttable(Quoted(s, "ui"), StringLeft(s), "message") /\ <<"string", s>> \in StringLeft(s)
<1>1. Cuttable(Quoted(s, "ui"), Nothing \cup {Two} \cup Strings(StringParts(s, "message")), "message")
  BY StringIsCuttable
<1>2. /\ Nothing \cup {Two} \cup Strings(StringParts(s, "message")) \subseteq StringLeft(s)
      /\ <<"string", s>> \in StringLeft(s)
  BY Zenon DEF StringLeft
<1> QED
  BY <1>1, <1>2, CuttableMore

(* What is read of a request that is cut are the first of its two members. *)
LEMMA RequestIsCut ==
    ASSUME NEW payload \in Seq(Units), NEW keys, NEW ts, NEW vs, NEW ms,
           RequestHas(payload, keys, ts, vs, ms),
           NEW Ps, Ps[1] = StringLeft(Action), Ps[2] = StringLeft(payload),
           NEW doc \in Cuts(Request(payload))
    PROVE  Parse(doc) \in ObjectsOf(ObjectParts(keys, vs, 2, Ps))
<1>1. /\ keys \in [1..2 -> Seq(Contents)] /\ AllDifferent(keys, 2)
      /\ ts \in [1..2 -> Seq(Units)] /\ ts[1] = Quoted(Action, "ui") /\ ts[2] = Quoted(payload, "ui")
      /\ vs[1] = <<"string", Action>> /\ vs[2] = <<"string", payload>>
      /\ ms \in Seq(Seq(Units)) /\ Len(ms) = 2
      /\ \A i \in 1..2 : Readable(ts[i], vs[i]) /\ ms[i] = Member(keys[i], ts[i], "ui")
      /\ Enclosed(Request(payload), LeftBrace, Separated(ms), RightBrace)
  BY DEF RequestHas
<1>2. Action \in Seq(Contents) /\ payload \in Seq(Contents)
  <2>1. Characters \ Halves \subseteq Contents /\ Units \subseteq Contents
    BY DEF Contents
  <2> QED
    BY <2>1, ActionAssumption
<1>3. AllCuttable(ts, vs, Ps, 2, "message")
  <2>1. Cuttable(ts[1], Ps[1], "message") /\ vs[1] \in Ps[1]
    BY <1>1, <1>2, StringsLeft
  <2>2. Cuttable(ts[2], Ps[2], "message") /\ vs[2] \in Ps[2]
    BY <1>1, <1>2, StringsLeft
  <2>3. \A i \in 1..2 : i = 1 \/ i = 2
    OBVIOUS
  <2> QED
    BY <1>1, <2>1, <2>2, <2>3 DEF AllCuttable
<1>4. PICK message, P : message = Request(payload) /\ P = ObjectsOf(ObjectParts(keys, vs, 2, Ps))
  OBVIOUS
<1>5. CutInTheMiddle(message, P, "message")
  <2>1. \A i \in 1..2 : ms[i] = Member(keys[i], ts[i], "ui")
    BY <1>1
  <2>2. CutInTheMiddle(Request(payload), ObjectsOf(ObjectParts(keys, vs, 2, Ps)), "message")
    BY <1>1, <1>3, <2>1, ObjectIsCut
  <2> QED
    BY <1>4, <2>2
<1>6. /\ message \in Seq(Units)
      /\ \A d, full \in Seq(Units) : \A r \in Leftovers : \A e, pos \in Nat \ {0} :
            pos < e => CutWithin(message, P, "message", d, full, r, e, pos)
  BY <1>5 DEF CutInTheMiddle
<1>7. /\ doc \in Seq(Units)
      /\ \E e \in 2..Len(message) : \E r \in Leftovers : CutAt(message, doc, e, r, "message")
  BY <1>4, <1>6, CutsAreCuts
<1>8. PICK e \in 2..Len(message), r \in Leftovers : CutAt(message, doc, e, r, "message")
  BY <1>7
<1>9. PICK one \in Nat \ {0} : one = 1 /\ e \in Nat \ {0} /\ one < e /\ e < one + Len(message)
  BY <1>6
<1>10. CutWithin(message, P, "message", doc, message, r, e, one)
  BY <1>6, <1>7, <1>9
<1>11. Stands(message, one, message)
  BY <1>6, <1>9, StandsAtItsBeginning
<1>12. CutReads("value", doc, 1, P)
  BY <1>8, <1>9, <1>10, <1>11 DEF CutWithin
<1> QED
  BY <1>4, <1>7, <1>12, CutIsParsed

(* What is left of the text of a payload is a text.                        *)
LEMMA PartsOfTexts ==
    ASSUME NEW payload \in Seq(Units), NEW level, NEW w \in StringParts(payload, level)
    PROVE  w \in Seq(Units)
<1>1. PICK m \in 1..(Len(payload) + 1) : w \in Beginnings(payload, 1, m, Endings(LeftAt(payload, m, level)))
  BY Zenon DEF StringParts
<1>2. PICK p \in Endings(LeftAt(payload, m, level)) : w = SubSeq(payload, 1, m - 1) \o p
  BY <1>1, Zenon DEF Beginnings
<1>3. PICK x \in LeftAt(payload, m, level) : p = Ending(x)
  BY Zenon DEF Endings
<1>4. x \in Leftovers
  BY LeftoversAreLeft DEF LeftAt
<1>5. p \in Seq(Units)
  <2>1. CASE x = "end"
    <3>1. p = <<>>
      BY <1>3, <2>1 DEF Ending
    <3> QED
      BY <3>1, EmptySeq
  <2>2. CASE x # "end"
    <3>1. p = <<x>> /\ x \in Units
      BY <1>3, <1>4, <2>2, LeftoversAreUnits DEF Ending
    <3> QED
      BY <3>1, OneUnit
  <2> QED
    BY <2>1, <2>2
<1>6. SubSeq(payload, 1, m - 1) \in Seq(Units)
  <2>1. m - 1 \in 0..Len(payload)
    OBVIOUS
  <2> QED
    BY <2>1, BeginningIsASeq
<1> QED
  BY <1>2, <1>5, <1>6, ConcatProperties

(* Of a request that is cut, the service finds a part of the payload in it,*)
(* and if it finds any, the action.                                        *)
LEMMA CutRequestIsRead ==
    ASSUME NEW payload \in Seq(Units), NEW doc \in Cuts(Request(payload))
    PROVE  /\ StringMember(Parse(doc), <<"P">>) \in {<<>>, payload} \cup StringParts(payload, "message")
           /\ StringMember(Parse(doc), <<"A">>) = Action \/ StringMember(Parse(doc), <<"P">>) = <<>>
<1>1. PICK keys, ts, vs, ms : RequestHas(payload, keys, ts, vs, ms)
  BY RequestParts
<1>2. PICK Ps : Ps = <<StringLeft(Action), StringLeft(payload)>>
  OBVIOUS
<1>3. Ps[1] = StringLeft(Action) /\ Ps[2] = StringLeft(payload)
  BY <1>2
<1>4. Parse(doc) \in ObjectsOf(ObjectParts(keys, vs, 2, Ps))
  BY <1>1, <1>3, RequestIsCut
<1>5. PICK more \in ObjectParts(keys, vs, 2, Ps) : Parse(doc) = <<"object", more>>
  BY <1>4, Zenon DEF ObjectsOf
<1>6. PICK a, p : a = <<"A">> /\ p = <<"P">> /\ a # p
  <2>1. PICK a, p : a = <<"A">> /\ p = <<"P">>
    OBVIOUS
  <2>2. a[1] # p[1]
    BY <2>1
  <2> QED
    BY <2>1, <2>2
<1>7. keys[1] = a /\ keys[2] = p /\ vs[1] = <<"string", Action>>
  BY <1>1, <1>6 DEF RequestHas
<1>8. CASE \A o \in more : o[1] # p
  <2>1. StringMember(<<"object", more>>, p) = <<>>
    BY <1>8, StringMemberIsNotFound
  <2> QED
    BY <1>5, <1>6, <2>1
<1>9. CASE \E left \in Ps[2] : more = {<<a, <<"string", Action>>>>, <<p, left>>}
  <2>1. PICK left \in StringLeft(payload) : more = {<<a, <<"string", Action>>>>, <<p, left>>}
    BY <1>3, <1>9
  <2>2. StringMember(<<"object", more>>, a) = Action
    <3>1. <<a, <<"string", Action>>>> \in more
      BY <2>1
    <3>2. \A m \in more : m[1] = a => m = <<a, <<"string", Action>>>>
      BY <1>6, <2>1
    <3>3. StringMember(<<"object", more>>, a) = Wide(Action)
      BY <3>1, <3>2, StringMemberIsFound
    <3> QED
      BY <3>3, ActionIsTaken
  <2>3. \/ left \in Nothing \cup {Two}
        \/ \E s \in {payload} \cup StringParts(payload, "message") : left = <<"string", s>>
    BY <2>1, Zenon DEF StringLeft, Strings
  <2>4. CASE left \in Nothing \cup {Two}
    <3>1. left[1] # "string"
      <4>1. left = <<"null">> \/ left = <<"bool", FALSE>> \/ \E zero : left = <<"number", zero>>
        BY <2>4, Zenon DEF Nothing, Two
      <4>2. CASE left = <<"null">>
        BY <4>2
      <4>3. CASE left = <<"bool", FALSE>>
        BY <4>3
      <4>4. CASE \E zero : left = <<"number", zero>>
        BY <4>4
      <4> QED
        BY <4>1, <4>2, <4>3, <4>4
    <3>2. \A m \in more : m[1] = p => m[2][1] # "string"
      BY <1>6, <2>1, <3>1
    <3>3. StringMember(<<"object", more>>, p) = <<>>
      BY <3>2, StringMemberIsNotFound
    <3> QED
      BY <1>5, <1>6, <3>3
  <2>5. CASE \E s \in {payload} \cup StringParts(payload, "message") : left = <<"string", s>>
    <3>1. PICK s \in {payload} \cup StringParts(payload, "message") : left = <<"string", s>>
      BY <2>5
    <3>2. <<p, <<"string", s>>>> \in more
      BY <2>1, <3>1
    <3>3. \A m \in more : m[1] = p => m = <<p, <<"string", s>>>>
      BY <1>6, <2>1, <3>1
    <3>4. StringMember(<<"object", more>>, p) = Wide(s)
      BY <3>2, <3>3, StringMemberIsFound
    <3>5. Wide(s) = s
      BY <3>1, PartsOfTexts, TextsAreTaken
    <3> QED
      BY <1>5, <1>6, <2>2, <3>1, <3>4, <3>5
  <2> QED
    BY <2>3, <2>4, <2>5
<1>10. (\A o \in more : o[1] # p) \/ \E left \in Ps[2] : more = {<<a, <<"string", Action>>>>, <<p, left>>}
  <2>1. keys[1] # keys[2]
    BY <1>6, <1>7
  <2>2. \/ \A o \in more : o[1] # keys[2]
        \/ \E left \in Ps[2] : more = {<<keys[1], vs[1]>>, <<keys[2], left>>}
    BY <2>1, TwoMembersAreCut
  <2> QED
    BY <1>7, <2>2
<1> QED
  BY <1>8, <1>9, <1>10
-----------------------------------------------------------------------------
(***************************************************************************)
(* What is on its way when it may have been cut.                           *)
(***************************************************************************)
PartOnItsWay ==
    /\ value \in Values
    /\ stage = "payload" => text \in Serialize(value, "ui")
    /\ stage = "message" => \E payload \in Serialize(value, "ui") : text = Request(payload)
    /\ stage = "received" => \E payload \in Serialize(value, "ui") :
                                text \in {Request(payload)} \cup Cuts(Request(payload))
    /\ stage = "read" => /\ action = Action \/ text = <<>>
                         /\ \E payload \in Serialize(value, "ui") :
                               text \in {<<>>, payload} \cup StringParts(payload, "message")
    /\ stage = "done" => result \in PartsOf(value)

(* Whatever is left of the text of a value is read as a part of it.        *)
LEMMA PartsAreRead ==
    ASSUME NEW v \in Values, NEW payload \in Serialize(v, "ui"),
           NEW w \in {<<>>, payload} \cup StringParts(payload, "message")
    PROVE  Parse(w) \in PartsOf(v)
<1>1. /\ v \in PartsOf(v) /\ Nothing \subseteq PartsOf(v)
      /\ Cuttable(payload, PartsOf(v), "payload")
  BY ValuesAssumption, SerializedIsCut
<1>2. payload \in Seq(Units) /\ Parse(payload) = v
  BY ValuesAreRead
<1>3. CASE w \in StringParts(payload, "message")
  BY <1>1, <1>2, <1>3, CutPayloadIsRead
<1>4. CASE w = <<>>
  BY <1>1, <1>4, NoTextIsRead
<1> QED
  BY <1>1, <1>2, <1>3, <1>4

LEMMA InitPartOnItsWay == Init => PartOnItsWay
BY DEF Init, PartOnItsWay

LEMMA NextPartOnItsWay == PartOnItsWay /\ [Next]_vars => PartOnItsWay'
<1> SUFFICES ASSUME PartOnItsWay, [Next]_vars PROVE PartOnItsWay'
  OBVIOUS
<1>1. CASE WritePayload
  BY <1>1 DEF PartOnItsWay, WritePayload
<1>2. CASE WriteRequest
  BY <1>2 DEF PartOnItsWay, WriteRequest
<1>3. CASE Receive
  <2>1. PICK payload \in Serialize(value, "ui") : text' \in {Request(payload)} \cup Cuts(Request(payload))
    BY <1>3 DEF PartOnItsWay, Receive
  <2> QED
    BY <1>3, <2>1 DEF PartOnItsWay, Receive
<1>4. CASE ReadRequest
  <2>1. PICK payload \in Serialize(value, "ui") : text \in {Request(payload)} \cup Cuts(Request(payload))
    BY <1>4 DEF PartOnItsWay, ReadRequest
  <2>2. payload \in Seq(Units)
    BY ValuesAreRead DEF PartOnItsWay
  <2>3. action' = StringMember(Parse(text), <<"A">>) /\ text' = StringMember(Parse(text), <<"P">>)
    BY <1>4 DEF ReadRequest
  <2>4. /\ text' \in {<<>>, payload} \cup StringParts(payload, "message")
        /\ action' = Action \/ text' = <<>>
    <3>1. CASE text = Request(payload)
      BY <2>2, <2>3, <3>1, RequestIsRead
    <3>2. CASE text \in Cuts(Request(payload))
      BY <2>2, <2>3, <3>2, CutRequestIsRead
    <3> QED
      BY <2>1, <3>1, <3>2
  <2> QED
    BY <1>4, <2>4 DEF PartOnItsWay, ReadRequest
<1>5. CASE ReadPayload
  <2>1. result' \in PartsOf(value)
    BY <1>5, PartsAreRead DEF PartOnItsWay, ReadPayload
  <2> QED
    BY <1>5, <2>1 DEF PartOnItsWay, ReadPayload
<1>6. CASE ReadAgain
  <2>1. result \in JsonValues[Depth]
    <3>1. PartsOf(value) \subseteq JsonValues[Depth]
      BY ValuesAssumption, SerializedIsCut DEF PartOnItsWay
    <3> QED
      BY <1>6, <3>1 DEF PartOnItsWay, ReadAgain
  <2>2. PICK again \in Serialize(result, "service") : result' = Parse(again)
    BY <1>6 DEF ReadAgain
  <2>3. result' = result
    BY <2>1, <2>2, WrittenIsRead
  <2> QED
    BY <1>6, <2>3 DEF PartOnItsWay, ReadAgain
<1>7. CASE Take
  BY <1>7 DEF PartOnItsWay, Take
<1>8. CASE UNCHANGED vars
  BY <1>8 DEF PartOnItsWay, vars
<1> QED
  BY <1>1, <1>2, <1>3, <1>4, <1>5, <1>6, <1>7, <1>8 DEF Next

(* Wherever a message is cut, only the value that the cut falls into is    *)
(* damaged (parse_value, parse_string, parse_array and parse_object at the *)
(* end of their text, and what parse_number makes of the rest of a code),  *)
(* and the service has the action if it has any of the payload.            *)
THEOREM CutsAreConfined == Spec => []CutIsConfined
<1>1. Spec => []PartOnItsWay
  BY InitPartOnItsWay, NextPartOnItsWay, PTL DEF Spec
<1>2. PartOnItsWay => CutIsConfined
  BY DEF PartOnItsWay, CutIsConfined
<1> QED
  BY <1>1, <1>2, PTL
=============================================================================
