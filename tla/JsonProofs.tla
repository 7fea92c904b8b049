----------------------------- MODULE JsonProofs ------------------------------
(***************************************************************************)
(* What is written as JSON is read as it was meant, for any characters,    *)
(* values of any depth and any order of members.                           *)
(***************************************************************************)
EXTENDS Json, SequenceTheorems, FiniteSetTheorems, WellFoundedInduction, TLAPS

(* Induction over the natural numbers, on a set instead of a predicate.    *)
LEMMA SetInduction ==
    ASSUME NEW S, 0 \in S, \A n \in Nat : n \in S => n + 1 \in S
    PROVE  Nat \subseteq S
<1> SUFFICES ASSUME Nat \ S # {} PROVE FALSE
  OBVIOUS
<1>1. PICK n \in Nat \ S : \A m \in Nat \ S : ~(<<m, n>> \in OpToRel(<, Nat))
  BY NatLessThanWellFounded, WFMin
<1>2. \A m \in Nat \ S : ~ (m < n)
  BY <1>1 DEF OpToRel
<1>3. n # 0 /\ n - 1 \in Nat
  OBVIOUS
<1>4. n - 1 \in S
  BY <1>2, <1>3
<1> QED
  BY <1>3, <1>4

LEMMA FirstAndLast ==
    ASSUME NEW k \in Nat \ {0}
    PROVE  1 \in 1..k /\ k \in 1..k
OBVIOUS

(* Induction from the last index of a sequence to the first.               *)
LEMMA IndexInduction ==
    ASSUME NEW k \in Nat \ {0}, NEW T, k \in T, \A i \in 1..k : i # k /\ i + 1 \in T => i \in T
    PROVE  1..k \subseteq T
<1> DEFINE S == {j \in Nat : j < k => k - j \in T}
<1>1. 0 \in S
  OBVIOUS
<1>2. ASSUME NEW j \in Nat, j \in S PROVE j + 1 \in S
  <2> SUFFICES ASSUME j + 1 < k PROVE k - (j + 1) \in T
    OBVIOUS
  <2>1. PICK i \in 1..k : i = k - (j + 1) /\ i # k /\ i + 1 = k - j
    OBVIOUS
  <2>2. i + 1 \in T
    BY <1>2, <2>1
  <2> QED
    BY <2>1, <2>2
<1>3. Nat \subseteq S
  BY <1>1, <1>2, SetInduction
<1> SUFFICES ASSUME NEW i \in 1..k PROVE i \in T
  OBVIOUS
<1>4. k - i \in Nat /\ k - i < k /\ k - (k - i) = i
  OBVIOUS
<1> QED
  BY <1>3, <1>4
-----------------------------------------------------------------------------
(***************************************************************************)
(* The recursive functions of the model satisfy their equations.           *)
(***************************************************************************)
(* FlattenSeq, up to the k-th sequence.                                    *)
Flattening(f, seqs, k) ==
    f = [i \in 1..k |-> IF i = 1 THEN seqs[i] ELSE f[i - 1] \o seqs[i]]

LEMMA FlatteningExists ==
    ASSUME NEW seqs, NEW k \in Nat
    PROVE  \E f : Flattening(f, seqs, k)
<1> DEFINE S == {n \in Nat : \E f : Flattening(f, seqs, n)}
<1>1. 0 \in S
  <2>1. Flattening([i \in 1..0 |-> <<>>], seqs, 0)
    BY DEF Flattening
  <2> QED
    BY <2>1
<1>2. ASSUME NEW n \in Nat, n \in S PROVE n + 1 \in S
  <2>1. PICK f : Flattening(f, seqs, n)
    BY <1>2
  <2>2. \A i \in 1..n : f[i] = IF i = 1 THEN seqs[i] ELSE f[i - 1] \o seqs[i]
    BY <2>1 DEF Flattening
  <2> DEFINE g == [i \in 1..(n + 1) |->
                      IF i <= n THEN f[i] ELSE IF i = 1 THEN seqs[i] ELSE f[i - 1] \o seqs[i]]
             h == [i \in 1..(n + 1) |-> IF i = 1 THEN seqs[i] ELSE g[i - 1] \o seqs[i]]
  <2>3. \A i \in 1..(n + 1) : g[i] = h[i]
    <3> SUFFICES ASSUME NEW i \in 1..(n + 1) PROVE g[i] = h[i]
      OBVIOUS
    <3>1. CASE i = 1
      <4>1. CASE n = 0
        BY <3>1, <4>1
      <4>2. CASE n # 0
        <5>1. 1 \in 1..n
          BY <4>2
        <5>2. f[1] = seqs[1]
          BY <2>2, <5>1
        <5> QED
          BY <3>1, <5>1, <5>2
      <4> QED
        BY <4>1, <4>2
    <3>2. CASE i # 1
      <4>1. i - 1 \in 1..n /\ i - 1 \in 1..(n + 1)
        BY <3>2
      <4>2. g[i - 1] = f[i - 1]
        BY <4>1
      <4>3. CASE i <= n
        <5>1. i \in 1..n
          BY <4>3
        <5>2. f[i] = f[i - 1] \o seqs[i]
          BY <2>2, <3>2, <5>1
        <5> QED
          BY <3>2, <4>2, <4>3, <5>2
      <4>4. CASE ~(i <= n)
        BY <3>2, <4>2, <4>4
      <4> QED
        BY <4>3, <4>4
    <3> QED
      BY <3>1, <3>2
  <2>4. g = h
    BY <2>3
  <2>5. Flattening(g, seqs, n + 1)
    BY <2>4 DEF Flattening
  <2> QED
    BY <2>5
<1>3. Nat \subseteq S
  BY <1>1, <1>2, SetInduction
<1> QED
  BY <1>3

(* A flattened sequence is the last of its prefixes, each of which has one *)
(* sequence more than the one before.                                      *)
LEMMA FlattenSeqPrefixes ==
    ASSUME NEW U, NEW seqs \in Seq(Seq(U))
    PROVE  \E f \in [0..Len(seqs) -> Seq(U)] :
              /\ f[0] = <<>> /\ f[Len(seqs)] = FlattenSeq(seqs)
              /\ \A i \in 1..Len(seqs) : f[i] = f[i - 1] \o seqs[i]
<1> DEFINE k == Len(seqs)
<1>0. k \in Nat /\ \A i \in 1..k : seqs[i] \in Seq(U)
  OBVIOUS
<1>1. CASE k = 0
  <2>1. seqs = <<>> /\ FlattenSeq(seqs) = seqs
    BY <1>1 DEF FlattenSeq
  <2> DEFINE f == [i \in 0..0 |-> <<>>]
  <2>2. f \in [0..k -> Seq(U)] /\ f[0] = <<>> /\ 1..k = {}
    BY <1>1
  <2> QED
    BY <1>1, <2>1, <2>2
<1>2. CASE k # 0
  <2> DEFINE f == CHOOSE f : Flattening(f, seqs, k)
  <2>1. Flattening(f, seqs, k)
    BY <1>0, FlatteningExists
  <2>2. FlattenSeq(seqs) = f[k]
    BY <1>2 DEF FlattenSeq, Flattening
  <2> HIDE DEF f
  <2>3. \A i \in 1..k : f[i] = IF i = 1 THEN seqs[i] ELSE f[i - 1] \o seqs[i]
    BY <2>1 DEF Flattening
  <2> DEFINE g == [i \in 0..k |-> IF i = 0 THEN <<>> ELSE f[i]]
             S == {n \in Nat : n <= k => g[n] \in Seq(U)}
  <2>4. ASSUME NEW i \in 1..k, g[i - 1] \in Seq(U)
        PROVE  g[i] = g[i - 1] \o seqs[i] /\ g[i] \in Seq(U)
    <3>1. i - 1 \in 0..k /\ i \in 0..k
      BY <1>0
    <3>2. seqs[i] \in Seq(U)
      BY <1>0
    <3>3. CASE i = 1
      <4>1. g[i - 1] = <<>> /\ g[i] = seqs[i]
        BY <2>3, <3>1, <3>3
      <4>2. <<>> \o seqs[i] = seqs[i]
        BY <3>2, ConcatEmptySeq
      <4> QED
        BY <3>2, <4>1, <4>2
    <3>4. CASE i # 1
      <4>1. g[i - 1] = f[i - 1] /\ g[i] = f[i]
        BY <3>1, <3>4
      <4>2. g[i] = g[i - 1] \o seqs[i]
        BY <2>3, <3>4, <4>1
      <4>3. g[i - 1] \o seqs[i] \in Seq(U)
        <5> HIDE DEF g
        <5> QED
          BY <2>4, <3>2
      <4> QED
        BY <4>2, <4>3
    <3> QED
      BY <3>3, <3>4
  <2>5. 0 \in S
    BY <1>0
  <2>6. ASSUME NEW n \in Nat, n \in S PROVE n + 1 \in S
    <3> SUFFICES ASSUME n + 1 <= k PROVE g[n + 1] \in Seq(U)
      OBVIOUS
    <3>1. PICK i \in 1..k : i = n + 1 /\ i - 1 = n
      BY <1>0
    <3>2. g[i - 1] \in Seq(U)
      BY <1>0, <2>6, <3>1
    <3> QED
      BY <2>4, <3>1, <3>2
  <2>7. Nat \subseteq S
    BY <2>5, <2>6, SetInduction
  <2> HIDE DEF g
  <2>8. \A n \in 0..k : g[n] \in Seq(U)
    BY <1>0, <2>7
  <2>9. \A i \in 1..k : g[i] = g[i - 1] \o seqs[i]
    <3> SUFFICES ASSUME NEW i \in 1..k PROVE g[i] = g[i - 1] \o seqs[i]
      OBVIOUS
    <3>1. i - 1 \in 0..k
      BY <1>0
    <3> QED
      BY <2>4, <2>8, <3>1
  <2>10. g = [i \in 0..k |-> g[i]] /\ g[0] = <<>> /\ g[k] = f[k]
    BY <1>0, <1>2 DEF g
  <2>11. g \in [0..k -> Seq(U)]
    BY <2>8, <2>10
  <2> QED
    BY <2>2, <2>9, <2>10, <2>11
<1> QED
  BY <1>1, <1>2
-----------------------------------------------------------------------------
(***************************************************************************)
(* The parser's routines, up to a depth of m calls.                        *)
(***************************************************************************)
Routines == {"string", "value", "members", "elements"}

Step(doc, n, further) ==
    IF n = 0 THEN [routine \in Routines |-> [pos \in Nat |-> Got(<<"null">>, pos)]]
    ELSE [string   |-> [pos \in Nat |-> RestOfString(doc, pos, further)],
          value    |-> [pos \in Nat |-> ParseValue(doc, pos, further)],
          members  |-> [pos \in Nat |-> Members(doc, pos, further)],
          elements |-> [pos \in Nat |-> Elements(doc, pos, further)]]

ReadingTo(f, doc, m) == f = [n \in 0..m |-> Step(doc, n, f[n - 1])]

LEMMA StepAtZero ==
    ASSUME NEW doc, NEW f, NEW g PROVE Step(doc, 0, f) = Step(doc, 0, g)
BY DEF Step

LEMMA ReadingExists ==
    ASSUME NEW doc, NEW m \in Nat
    PROVE  \E f : ReadingTo(f, doc, m)
<1> DEFINE S == {n \in Nat : \E f : ReadingTo(f, doc, n)}
<1>1. 0 \in S
  <2> DEFINE f == [n \in 0..0 |-> Step(doc, 0, <<>>)]
             h == [n \in 0..0 |-> Step(doc, n, f[n - 1])]
  <2>1. \A n \in 0..0 : f[n] = h[n]
    BY StepAtZero
  <2>2. f = h
    BY <2>1
  <2>3. ReadingTo(f, doc, 0)
    BY <2>2 DEF ReadingTo
  <2> QED
    BY <2>3
<1>2. ASSUME NEW n \in Nat, n \in S PROVE n + 1 \in S
  <2>1. PICK f : ReadingTo(f, doc, n)
    BY <1>2
  <2>2. \A i \in 0..n : f[i] = Step(doc, i, f[i - 1])
    BY <2>1 DEF ReadingTo
  <2> DEFINE g == [i \in 0..(n + 1) |-> IF i <= n THEN f[i] ELSE Step(doc, i, f[i - 1])]
             h == [i \in 0..(n + 1) |-> Step(doc, i, g[i - 1])]
  <2>3. \A i \in 0..(n + 1) : g[i] = h[i]
    <3> SUFFICES ASSUME NEW i \in 0..(n + 1) PROVE g[i] = h[i]
      OBVIOUS
    <3>1. g[i] = Step(doc, i, f[i - 1])
      <4>1. CASE i <= n
        <5>1. i \in 0..n
          BY <4>1
        <5> QED
          BY <2>2, <4>1, <5>1
      <4>2. CASE ~(i <= n)
        BY <4>2
      <4> QED
        BY <4>1, <4>2
    <3>2. CASE i = 0
      <4>1. Step(doc, 0, f[0 - 1]) = Step(doc, 0, g[0 - 1])
        BY StepAtZero
      <4> QED
        BY <3>1, <3>2, <4>1
    <3>3. CASE i # 0
      <4>1. i - 1 \in 0..(n + 1) /\ i - 1 <= n
        BY <3>3
      <4>2. g[i - 1] = f[i - 1]
        BY <4>1
      <4> QED
        BY <3>1, <4>2
    <3> QED
      BY <3>2, <3>3
  <2>4. g = h
    BY <2>3
  <2>5. ReadingTo(g, doc, n + 1)
    BY <2>4 DEF ReadingTo
  <2> QED
    BY <2>5
<1>3. Nat \subseteq S
  BY <1>1, <1>2, SetInduction
<1> QED
  BY <1>3

(* A call reads on with the calls that may be one level deeper.            *)
LEMMA ReadingEquations ==
    ASSUME NEW U, NEW doc \in Seq(U), NEW n \in 1..(Len(doc) + 1), NEW pos \in Nat
    PROVE  LET R == Reading(doc) IN
           /\ R[n]["string"][pos] = RestOfString(doc, pos, R[n - 1])
           /\ R[n]["value"][pos] = ParseValue(doc, pos, R[n - 1])
           /\ R[n]["members"][pos] = Members(doc, pos, R[n - 1])
           /\ R[n]["elements"][pos] = Elements(doc, pos, R[n - 1])
<1> DEFINE R == CHOOSE f : ReadingTo(f, doc, Len(doc) + 1)
<1>1. ReadingTo(R, doc, Len(doc) + 1)
  <2>1. Len(doc) + 1 \in Nat
    OBVIOUS
  <2> QED
    BY <2>1, ReadingExists
<1>2. Reading(doc) = R
  BY DEF Reading, ReadingTo, Step, Routines
<1> HIDE DEF R
<1>3. n \in 0..(Len(doc) + 1) /\ n # 0
  OBVIOUS
<1>4. R[n] = Step(doc, n, R[n - 1])
  BY <1>1, <1>3 DEF ReadingTo
<1> QED
  BY <1>2, <1>3, <1>4 DEF Step
-----------------------------------------------------------------------------
(***************************************************************************)
(* Values up to a depth.                                                   *)
(***************************************************************************)
Nested(n, V) ==
    IF n = 0 THEN Leaves
    ELSE Leaves \cup ({"array"} \X Seq(V)) \cup ({"object"} \X Objects(V))

ValuesTo(f, m) == f = [n \in 0..m |-> Nested(n, f[n - 1])]

LEMMA NestedAtZero ==
    ASSUME NEW V, NEW W PROVE Nested(0, V) = Nested(0, W)
BY DEF Nested

LEMMA ValuesExists ==
    ASSUME NEW m \in Nat
    PROVE  \E f : ValuesTo(f, m)
<1> DEFINE S == {n \in Nat : \E f : ValuesTo(f, n)}
<1>1. 0 \in S
  <2> DEFINE f == [n \in 0..0 |-> Nested(0, <<>>)]
             h == [n \in 0..0 |-> Nested(n, f[n - 1])]
  <2>1. \A n \in 0..0 : f[n] = h[n]
    BY NestedAtZero
  <2>2. f = h
    BY <2>1
  <2>3. ValuesTo(f, 0)
    BY <2>2 DEF ValuesTo
  <2> QED
    BY <2>3
<1>2. ASSUME NEW n \in Nat, n \in S PROVE n + 1 \in S
  <2>1. PICK f : ValuesTo(f, n)
    BY <1>2
  <2>2. \A i \in 0..n : f[i] = Nested(i, f[i - 1])
    BY <2>1 DEF ValuesTo
  <2> DEFINE g == [i \in 0..(n + 1) |-> IF i <= n THEN f[i] ELSE Nested(i, f[i - 1])]
             h == [i \in 0..(n + 1) |-> Nested(i, g[i - 1])]
  <2>3. \A i \in 0..(n + 1) : g[i] = h[i]
    <3> SUFFICES ASSUME NEW i \in 0..(n + 1) PROVE g[i] = h[i]
      OBVIOUS
    <3>1. g[i] = Nested(i, f[i - 1])
      <4>1. CASE i <= n
        <5>1. i \in 0..n
          BY <4>1
        <5> QED
          BY <2>2, <4>1, <5>1
      <4>2. CASE ~(i <= n)
        BY <4>2
      <4> QED
        BY <4>1, <4>2
    <3>2. CASE i = 0
      <4>1. Nested(0, f[0 - 1]) = Nested(0, g[0 - 1])
        BY NestedAtZero
      <4> QED
        BY <3>1, <3>2, <4>1
    <3>3. CASE i # 0
      <4>1. i - 1 \in 0..(n + 1) /\ i - 1 <= n
        BY <3>3
      <4>2. g[i - 1] = f[i - 1]
        BY <4>1
      <4> QED
        BY <3>1, <4>2
    <3> QED
      BY <3>2, <3>3
  <2>4. g = h
    BY <2>3
  <2>5. ValuesTo(g, n + 1)
    BY <2>4 DEF ValuesTo
  <2> QED
    BY <2>5
<1>3. Nat \subseteq S
  BY <1>1, <1>2, SetInduction
<1> QED
  BY <1>3

LEMMA JsonValuesEquation ==
    ASSUME NEW n \in 0..Depth
    PROVE  JsonValues[n] = Nested(n, JsonValues[n - 1])
<1>1. ValuesTo(JsonValues, Depth)
  <2> DEFINE f == CHOOSE f : ValuesTo(f, Depth)
  <2>1. ValuesTo(f, Depth)
    BY ValuesExists, DepthAssumption
  <2>2. JsonValues = f
    BY DEF JsonValues, ValuesTo, Nested
  <2> QED
    BY <2>1, <2>2
<1> QED
  BY <1>1 DEF ValuesTo
-----------------------------------------------------------------------------
(***************************************************************************)
(* The texts of values up to a depth.                                      *)
(***************************************************************************)
Written(n, inside, writer) ==
    [v \in JsonValues[n] |-> Texts(v, IF n = 0 THEN <<>> ELSE inside, writer)]

WrittenTo(f, writer, m) == f = [n \in 0..m |-> Written(n, f[n - 1], writer)]

LEMMA WrittenAtZero ==
    ASSUME NEW f, NEW g, NEW writer PROVE Written(0, f, writer) = Written(0, g, writer)
BY DEF Written

LEMMA WrittenExists ==
    ASSUME NEW writer, NEW m \in Nat
    PROVE  \E f : WrittenTo(f, writer, m)
<1> DEFINE S == {n \in Nat : \E f : WrittenTo(f, writer, n)}
<1>1. 0 \in S
  <2> DEFINE f == [n \in 0..0 |-> Written(0, <<>>, writer)]
             h == [n \in 0..0 |-> Written(n, f[n - 1], writer)]
  <2>1. \A n \in 0..0 : f[n] = h[n]
    BY WrittenAtZero
  <2>2. f = h
    BY <2>1
  <2>3. WrittenTo(f, writer, 0)
    BY <2>2 DEF WrittenTo
  <2> QED
    BY <2>3
<1>2. ASSUME NEW n \in Nat, n \in S PROVE n + 1 \in S
  <2>1. PICK f : WrittenTo(f, writer, n)
    BY <1>2
  <2>2. \A i \in 0..n : f[i] = Written(i, f[i - 1], writer)
    BY <2>1 DEF WrittenTo
  <2> DEFINE g == [i \in 0..(n + 1) |-> IF i <= n THEN f[i] ELSE Written(i, f[i - 1], writer)]
             h == [i \in 0..(n + 1) |-> Written(i, g[i - 1], writer)]
  <2>3. \A i \in 0..(n + 1) : g[i] = h[i]
    <3> SUFFICES ASSUME NEW i \in 0..(n + 1) PROVE g[i] = h[i]
      OBVIOUS
    <3>1. g[i] = Written(i, f[i - 1], writer)
      <4>1. CASE i <= n
        <5>1. i \in 0..n
          BY <4>1
        <5> QED
          BY <2>2, <4>1, <5>1
      <4>2. CASE ~(i <= n)
        BY <4>2
      <4> QED
        BY <4>1, <4>2
    <3>2. CASE i = 0
      <4>1. Written(0, f[0 - 1], writer) = Written(0, g[0 - 1], writer)
        BY WrittenAtZero
      <4> QED
        BY <3>1, <3>2, <4>1
    <3>3. CASE i # 0
      <4>1. i - 1 \in 0..(n + 1) /\ i - 1 <= n
        BY <3>3
      <4>2. g[i - 1] = f[i - 1]
        BY <4>1
      <4> QED
        BY <3>1, <4>2
    <3> QED
      BY <3>2, <3>3
  <2>4. g = h
    BY <2>3
  <2>5. WrittenTo(g, writer, n + 1)
    BY <2>4 DEF WrittenTo
  <2> QED
    BY <2>5
<1>3. Nat \subseteq S
  BY <1>1, <1>2, SetInduction
<1> QED
  BY <1>3

LEMMA SerializeEquation ==
    ASSUME NEW writer
    PROVE  \E W : /\ \A v : Serialize(v, writer) = W[Depth][v]
                  /\ \A n \in 0..Depth : \A v \in JsonValues[n] :
                        W[n][v] = Texts(v, IF n = 0 THEN <<>> ELSE W[n - 1], writer)
<1> DEFINE W == CHOOSE f : WrittenTo(f, writer, Depth)
<1>1. WrittenTo(W, writer, Depth)
  BY WrittenExists, DepthAssumption
<1>2. \A v : Serialize(v, writer) = W[Depth][v]
  BY DEF Serialize, WrittenTo, Written
<1> HIDE DEF W
<1>3. \A n \in 0..Depth : W[n] = Written(n, W[n - 1], writer)
  BY <1>1 DEF WrittenTo
<1>4. ASSUME NEW n \in 0..Depth, NEW v \in JsonValues[n]
      PROVE  W[n][v] = Texts(v, IF n = 0 THEN <<>> ELSE W[n - 1], writer)
  BY <1>3 DEF Written
<1> QED
  BY <1>2, <1>4
-----------------------------------------------------------------------------
(***************************************************************************)
(* Texts that stand in a document.                                         *)
(***************************************************************************)
Marks == {"\"", "\\", "n", "u", "-", ",", ":", "[", "]", "{", "}", "t", "f"}

Comma == ","

LeftBrace == "{"

RightBrace == "}"

Quote == "\""

Words == {"true", "false", "null"}

Codes == {Code[c] : c \in DOMAIN Code} \cup {QuoteCode}

(* What texts are made of (coded characters only stand there as codes),    *)
(* and strings.                                                            *)
Units == (Characters \ DOMAIN Code) \cup Words \cup Digits \cup Codes \cup Marks

Contents == Units \cup Characters

LEMMA CodesAreCodes ==
    Codes = {"00e9", "0001", "d83d", "de00", "0022"}
BY DEF Codes, Code, QuoteCode

LEMMA CodedAreNoMarks == DOMAIN Code \cap ({"\"", "\\", "newline", "end"} \cup Marks) = {}
BY DEF Code, Marks

LEMMA NoUnitIsTheEnd == "end" \notin Units /\ "end" \notin Contents
BY CharactersAssumption, CodesAreCodes DEF Units, Contents, Marks, Words, Digits

LEMMA UnitsAreNotCoded == DOMAIN Code \cap Units = {}
BY CodesAreCodes, CodedAreNoMarks DEF Units, Words, Digits, Code

LEMMA MarksAreDifferent ==
    /\ Comma # RightBrace /\ Comma # "]" /\ LeftBrace # "]" /\ Quote # RightBrace
    /\ Comma \in Units /\ RightBrace \in Units /\ LeftBrace \in Units /\ Quote \in Units
    /\ Comma \notin Digits /\ RightBrace \notin Digits
BY DEF Comma, LeftBrace, RightBrace, Quote, Units, Marks, Digits

Stands(doc, pos, t) == \A i \in 1..Len(t) : Peek(doc, pos + i - 1) = t[i]

LEMMA TuplesAreSequences ==
    ASSUME NEW U, NEW a \in U, NEW b \in U, NEW c \in U
    PROVE  /\ <<a>> \in Seq(U) /\ Len(<<a>>) = 1
           /\ <<a, b>> \in Seq(U) /\ Len(<<a, b>>) = 2
           /\ <<a, b, c>> \in Seq(U) /\ Len(<<a, b, c>>) = 3
OBVIOUS

LEMMA OneUnit ==
    ASSUME NEW U, NEW a \in U
    PROVE  <<a>> \in Seq(U) /\ Len(<<a>>) = 1 /\ <<a>>[1] = a
OBVIOUS

LEMMA StandsFirst ==
    ASSUME NEW doc, NEW pos \in Nat, NEW t, Len(t) \in Nat \ {0}, Stands(doc, pos, t)
    PROVE  Peek(doc, pos) = t[1]
<1>1. 1 \in 1..Len(t) /\ pos + 1 - 1 = pos
  OBVIOUS
<1>2. Peek(doc, pos + 1 - 1) = t[1]
  BY <1>1 DEF Stands
<1> QED
  BY <1>1, <1>2

LEMMA StandsBothParts ==
    ASSUME NEW U, NEW a \in Seq(U), NEW b \in Seq(U), NEW doc, NEW pos \in Nat,
           Stands(doc, pos, a \o b)
    PROVE  Stands(doc, pos, a) /\ Stands(doc, pos + Len(a), b)
<1>1. \A i \in 1..(Len(a) + Len(b)) :
        Peek(doc, pos + i - 1) = IF i <= Len(a) THEN a[i] ELSE b[i - Len(a)]
  BY ConcatProperties DEF Stands
<1>2. Stands(doc, pos, a)
  <2> SUFFICES ASSUME NEW i \in 1..Len(a) PROVE Peek(doc, pos + i - 1) = a[i]
    BY DEF Stands
  <2>1. i \in 1..(Len(a) + Len(b)) /\ i <= Len(a)
    OBVIOUS
  <2> QED
    BY <1>1, <2>1
<1>3. Stands(doc, pos + Len(a), b)
  <2> SUFFICES ASSUME NEW i \in 1..Len(b) PROVE Peek(doc, pos + Len(a) + i - 1) = b[i]
    BY DEF Stands
  <2>1. PICK j \in 1..(Len(a) + Len(b)) : j = i + Len(a)
    OBVIOUS
  <2>2. ~(j <= Len(a)) /\ j - Len(a) = i /\ pos + j - 1 = pos + Len(a) + i - 1
    BY <2>1
  <2> QED
    BY <1>1, <2>2
<1> QED
  BY <1>2, <1>3

(* A text between two units.                                               *)
Enclosed(w, left, t, right) == w = <<left>> \o t \o <<right>>

LEMMA EnclosedIsAText ==
    ASSUME NEW left \in Units, NEW right \in Units, NEW t \in Seq(Units),
           NEW w, Enclosed(w, left, t, right)
    PROVE  w \in Seq(Units) /\ Len(w) = Len(t) + 2 /\ w[1] = left
<1>1. PICK a \in Seq(Units) : a = <<left>> /\ Len(a) = 1 /\ a[1] = left
  <2>1. PICK a : a = <<left>>
    OBVIOUS
  <2>2. a \in Seq(Units) /\ Len(a) = 1 /\ a[1] = left
    BY <2>1, OneUnit
  <2> QED
    BY <2>1, <2>2
<1>2. PICK b \in Seq(Units) : b = <<right>> /\ Len(b) = 1
  <2>1. PICK b : b = <<right>>
    OBVIOUS
  <2>2. b \in Seq(Units) /\ Len(b) = 1 /\ b[1] = right
    BY <2>1, OneUnit
  <2> QED
    BY <2>1, <2>2
<1>3. PICK m \in Nat : m = Len(t)
  OBVIOUS
<1>4. PICK at \in Seq(Units) : at = a \o t /\ Len(at) = 1 + m /\ at[1] = left
  <2>1. a \o t \in Seq(Units) /\ Len(a \o t) = Len(a) + Len(t)
        /\ \A i \in 1..(Len(a) + Len(t)) : (a \o t)[i] = IF i <= Len(a) THEN a[i] ELSE t[i - Len(a)]
    BY ConcatProperties
  <2>2. 1 \in 1..(Len(a) + Len(t)) /\ 1 <= Len(a)
    BY <1>1, <1>3
  <2>3. (a \o t)[1] = a[1]
    BY <2>1, <2>2
  <2> QED
    BY <1>1, <1>3, <2>1, <2>3
<1>5. at \o b \in Seq(Units) /\ Len(at \o b) = m + 2 /\ (at \o b)[1] = left
  <2>1. at \o b \in Seq(Units) /\ Len(at \o b) = Len(at) + Len(b)
        /\ \A i \in 1..(Len(at) + Len(b)) : (at \o b)[i] = IF i <= Len(at) THEN at[i] ELSE b[i - Len(at)]
    BY ConcatProperties
  <2>2. 1 \in 1..(Len(at) + Len(b)) /\ 1 <= Len(at) /\ Len(at) + Len(b) = m + 2
    BY <1>2, <1>4
  <2>3. (at \o b)[1] = at[1]
    BY <2>1, <2>2
  <2> QED
    BY <1>4, <2>1, <2>2, <2>3
<1> QED
  BY <1>1, <1>2, <1>3, <1>4, <1>5 DEF Enclosed

LEMMA StandsEnclosed ==
    ASSUME NEW left \in Units, NEW right \in Units, NEW t \in Seq(Units),
           NEW w, Enclosed(w, left, t, right),
           NEW doc, NEW pos \in Nat, Stands(doc, pos, w)
    PROVE  /\ Peek(doc, pos) = left /\ Stands(doc, pos + 1, t)
           /\ Peek(doc, pos + 1 + Len(t)) = right
<1>1. PICK a \in Seq(Units) : a = <<left>> /\ Len(a) = 1 /\ a[1] = left
  <2>1. PICK a : a = <<left>>
    OBVIOUS
  <2>2. a \in Seq(Units) /\ Len(a) = 1 /\ a[1] = left
    BY <2>1, OneUnit
  <2> QED
    BY <2>1, <2>2
<1>2. PICK b \in Seq(Units) : b = <<right>> /\ Len(b) = 1 /\ b[1] = right
  <2>1. PICK b : b = <<right>>
    OBVIOUS
  <2>2. b \in Seq(Units) /\ Len(b) = 1 /\ b[1] = right
    BY <2>1, OneUnit
  <2> QED
    BY <2>1, <2>2
<1>3. PICK m \in Nat : m = Len(t)
  OBVIOUS
<1>4. a \o t \in Seq(Units) /\ Len(a \o t) = 1 + m
  <2>1. a \o t \in Seq(Units) /\ Len(a \o t) = Len(a) + Len(t)
    BY ConcatProperties
  <2> QED
    BY <1>1, <1>3, <2>1
<1>5. Stands(doc, pos, a \o t) /\ Stands(doc, pos + (1 + m), b)
  <2>1. Stands(doc, pos, (a \o t) \o b)
    BY <1>1, <1>2 DEF Enclosed
  <2> QED
    BY <1>4, <2>1, StandsBothParts
<1>6. Stands(doc, pos, a) /\ Stands(doc, pos + 1, t)
  <2>1. Stands(doc, pos, a) /\ Stands(doc, pos + Len(a), t)
    BY <1>5, StandsBothParts
  <2> QED
    BY <1>1, <2>1
<1>7. Peek(doc, pos) = left
  <2>1. Len(a) \in Nat \ {0}
    BY <1>1
  <2> QED
    BY <1>1, <1>6, <2>1, StandsFirst
<1>8. Peek(doc, pos + (1 + m)) = right
  <2>1. Len(b) \in Nat \ {0} /\ pos + (1 + m) \in Nat
    BY <1>2
  <2> QED
    BY <1>2, <1>5, <2>1, StandsFirst
<1>9. pos + (1 + m) = pos + 1 + m
  OBVIOUS
<1> QED
  BY <1>3, <1>6, <1>7, <1>8, <1>9

(* Where the parts of a flattened sequence stand.                          *)
LEMMA StandsEachPart ==
    ASSUME NEW U, NEW seqs \in Seq(Seq(U)), NEW doc, NEW pos \in Nat,
           Stands(doc, pos, FlattenSeq(seqs))
    PROVE  \E at \in [1..(Len(seqs) + 1) -> Nat] :
              /\ at[1] = pos /\ at[Len(seqs) + 1] = pos + Len(FlattenSeq(seqs))
              /\ \A i \in 1..Len(seqs) :
                    /\ pos <= at[i] /\ at[i + 1] = at[i] + Len(seqs[i])
                    /\ Stands(doc, at[i], seqs[i])
<1>0. PICK k \in Nat : k = Len(seqs)
  OBVIOUS
<1>1. PICK f \in [0..k -> Seq(U)] :
        /\ f[0] = <<>> /\ f[k] = FlattenSeq(seqs)
        /\ \A i \in 1..k : f[i] = f[i - 1] \o seqs[i]
  BY <1>0, FlattenSeqPrefixes
<1>2. ASSUME NEW i \in 1..k, Stands(doc, pos, f[i])
      PROVE  Stands(doc, pos, f[i - 1]) /\ Stands(doc, pos + Len(f[i - 1]), seqs[i])
  <2>1. i - 1 \in 0..k /\ f[i - 1] \in Seq(U) /\ seqs[i] \in Seq(U)
    <3>1. i - 1 \in 0..k /\ i \in 1..Len(seqs)
      BY <1>0
    <3>2. f[i - 1] \in Seq(U)
      BY <3>1
    <3>3. seqs[i] \in Seq(U)
      BY <3>1
    <3> QED
      BY <3>1, <3>2, <3>3
  <2>2. Stands(doc, pos, f[i - 1] \o seqs[i])
    BY <1>1, <1>2
  <2> QED
    BY <2>1, <2>2, StandsBothParts
<1> DEFINE S == {n \in Nat : n <= k => Stands(doc, pos, f[k - n])}
<1>3. 0 \in S
  BY <1>0, <1>1
<1>4. ASSUME NEW n \in Nat, n \in S PROVE n + 1 \in S
  <2> SUFFICES ASSUME n + 1 <= k PROVE Stands(doc, pos, f[k - (n + 1)])
    OBVIOUS
  <2>0. k - n \in 1..k
    OBVIOUS
  <2>1. PICK i \in 1..k : i = k - n
    BY <2>0
  <2>2. Stands(doc, pos, f[i])
    BY <1>0, <1>4, <2>1
  <2>3. Stands(doc, pos, f[i - 1]) /\ i - 1 = k - (n + 1)
    BY <1>2, <2>1, <2>2
  <2> QED
    BY <2>3
<1>5. Nat \subseteq S
  BY <1>3, <1>4, SetInduction
<1>6. \A i \in 1..k : Stands(doc, pos, f[i])
  <2> SUFFICES ASSUME NEW i \in 1..k PROVE Stands(doc, pos, f[i])
    OBVIOUS
  <2>1. k - i \in Nat /\ k - i <= k /\ k - (k - i) = i
    BY <1>0
  <2>2. k - i \in S
    BY <1>5, <2>1
  <2> QED
    BY <2>1, <2>2
<1> DEFINE at == [i \in 1..(k + 1) |-> pos + Len(f[i - 1])]
<1>7. \A i \in 0..k : Len(f[i]) \in Nat
  BY <1>1
<1>8. at \in [1..(k + 1) -> Nat]
  <2> SUFFICES ASSUME NEW i \in 1..(k + 1) PROVE pos + Len(f[i - 1]) \in Nat
    OBVIOUS
  <2>1. i - 1 \in 0..k
    BY <1>0
  <2> QED
    BY <1>7, <2>1
<1>9. at[1] = pos /\ at[k + 1] = pos + Len(FlattenSeq(seqs))
  <2>1. at[1] = pos + Len(f[1 - 1]) /\ at[k + 1] = pos + Len(f[k + 1 - 1])
    BY <1>0
  <2>2. 1 - 1 = 0 /\ k + 1 - 1 = k /\ Len(<<>>) = 0
    BY <1>0
  <2> HIDE DEF at
  <2> QED
    BY <1>1, <2>1, <2>2
<1>10. ASSUME NEW i \in 1..k
       PROVE  /\ pos <= at[i] /\ at[i + 1] = at[i] + Len(seqs[i])
              /\ Stands(doc, at[i], seqs[i])
  <2>1. i \in 0..k /\ i - 1 \in 0..k /\ i \in 1..(k + 1) /\ i + 1 \in 1..(k + 1) /\ i + 1 - 1 = i
    BY <1>0
  <2>2. at[i] = pos + Len(f[i - 1]) /\ at[i + 1] = pos + Len(f[i])
    BY <2>1
  <2> HIDE DEF at
  <2>3. f[i - 1] \in Seq(U) /\ seqs[i] \in Seq(U) /\ f[i] = f[i - 1] \o seqs[i]
    <3>1. f[i - 1] \in Seq(U)
      BY <2>1
    <3>2. seqs[i] \in Seq(U)
      BY <1>0
    <3> QED
      BY <1>1, <3>1, <3>2
  <2>4. Len(f[i]) = Len(f[i - 1]) + Len(seqs[i])
    BY <2>3, ConcatProperties
  <2>5. Stands(doc, pos + Len(f[i - 1]), seqs[i])
    BY <1>2, <1>6
  <2>6. Len(f[i - 1]) \in Nat /\ Len(seqs[i]) \in Nat
    BY <2>3
  <2>7. at[i + 1] = at[i] + Len(seqs[i])
    <3>1. PICK m \in Nat, n \in Nat : m = Len(f[i - 1]) /\ n = Len(seqs[i])
      BY <2>6
    <3>2. at[i] = pos + m /\ at[i + 1] = pos + (m + n)
      BY <2>2, <2>4, <3>1
    <3>3. at[i + 1] = at[i] + n
      BY <3>2
    <3> QED
      BY <3>1, <3>3
  <2>8. pos <= at[i]
    BY <2>2, <2>6
  <2> QED
    BY <2>2, <2>5, <2>7, <2>8
<1> HIDE DEF at
<1> QED
  BY <1>0, <1>8, <1>9, <1>10
-----------------------------------------------------------------------------
(***************************************************************************)
(* Strings.                                                                *)
(***************************************************************************)
LEMMA CodesAreDecoded ==
    /\ Decoded[QuoteCode] = "\"" /\ DOMAIN Decoded = Codes
    /\ \A c \in DOMAIN Code : Decoded[Code[c]] = c
<1>1. DOMAIN Decoded = Codes
  BY DEF Decoded, Codes
<1>2. Decoded[QuoteCode] = "\""
  BY DEF Decoded
<1>3. ASSUME NEW c \in DOMAIN Code PROVE Decoded[Code[c]] = c
  <2>1. Code[c] # QuoteCode /\ \A d \in DOMAIN Code : Code[d] = Code[c] => d = c
    BY DEF Code, QuoteCode
  <2>2. Decoded[Code[c]] = CHOOSE d \in DOMAIN Code : Code[d] = Code[c]
    BY <2>1 DEF Decoded
  <2> QED
    BY <2>1, <2>2
<1> QED
  BY <1>1, <1>2, <1>3

(* An escape is made of units and as long as it takes,                     *)
LEMMA EscapeIsShort ==
    ASSUME NEW c \in Contents, NEW writer
    PROVE  Escape(c, writer) \in Seq(Units) /\ Len(Escape(c, writer)) \in 1..3
<1>1. "\"" \in Units /\ "\\" \in Units /\ "u" \in Units /\ "n" \in Units /\ QuoteCode \in Units
  BY DEF Units, Marks, Codes
<1>2. \A d \in DOMAIN Code : Code[d] \in Units
  BY DEF Units, Codes
<1>3. CASE c = "\"" /\ writer = "ui"
  <2>1. Escape(c, writer) = <<"\\", "u", QuoteCode>>
    BY <1>3, CodedAreNoMarks DEF Escape
  <2>2. <<"\\", "u", QuoteCode>> \in Seq(Units) /\ Len(<<"\\", "u", QuoteCode>>) = 3
    BY <1>1, TuplesAreSequences
  <2> QED
    BY <2>1, <2>2
<1>4. CASE c \in {"\"", "\\", "newline"} /\ ~(c = "\"" /\ writer = "ui")
  <2>1. Escape(c, writer) = <<"\\", Backslash(c)>>
    BY <1>4, CodedAreNoMarks DEF Escape
  <2>2. Backslash(c) \in Units
    BY <1>1, <1>4 DEF Backslash
  <2>3. <<"\\", Backslash(c)>> \in Seq(Units) /\ Len(<<"\\", Backslash(c)>>) = 2
    BY <1>1, <2>2, TuplesAreSequences
  <2> QED
    BY <2>1, <2>3
<1>5. CASE c \notin {"\"", "\\", "newline"} /\ c \in DOMAIN Code
  <2>1. Escape(c, writer) = <<"\\", "u", Code[c]>>
    BY <1>5 DEF Escape
  <2>2. Code[c] \in Units
    BY <1>2, <1>5
  <2>3. <<"\\", "u", Code[c]>> \in Seq(Units) /\ Len(<<"\\", "u", Code[c]>>) = 3
    BY <1>1, <2>2, TuplesAreSequences
  <2> QED
    BY <2>1, <2>3
<1>6. CASE c \notin {"\"", "\\", "newline"} /\ c \notin DOMAIN Code
  <2>1. Escape(c, writer) = <<c>>
    BY <1>6 DEF Escape
  <2>2. c \in Units
    BY <1>6 DEF Units, Contents
  <2>3. <<c>> \in Seq(Units) /\ Len(<<c>>) = 1
    BY <2>2, TuplesAreSequences
  <2> QED
    BY <2>1, <2>3
<1> QED
  BY <1>3, <1>4, <1>5, <1>6

(* and is read as the unit it was made from.                               *)
LEMMA EscapeIsRead ==
    ASSUME NEW c \in Contents, NEW writer, NEW doc, NEW pos \in Nat, NEW further,
           Stands(doc, pos, Escape(c, writer))
    PROVE  RestOfString(doc, pos, further)
             = Got(<<c>> \o further["string"][pos + Len(Escape(c, writer))].value,
                   further["string"][pos + Len(Escape(c, writer))].pos)
<1>1. c # "end"
  BY NoUnitIsTheEnd
<1>2. CASE c = "\"" /\ writer = "ui"
  <2>1. Escape(c, writer) = <<"\\", "u", QuoteCode>>
    BY <1>2, CodedAreNoMarks DEF Escape
  <2>2. Peek(doc, pos) = "\\" /\ Peek(doc, pos + 1) = "u" /\ Peek(doc, pos + 2) = QuoteCode
    BY <2>1 DEF Stands
  <2>3. QuoteCode \in DOMAIN Decoded /\ Decoded[QuoteCode] = c
    BY <1>2, CodesAreDecoded DEF Codes
  <2> QED
    BY <2>1, <2>2, <2>3 DEF RestOfString
<1>3. CASE c \in {"\"", "\\", "newline"} /\ ~(c = "\"" /\ writer = "ui")
  <2>1. Escape(c, writer) = <<"\\", Backslash(c)>>
    BY <1>3, CodedAreNoMarks DEF Escape
  <2>2. Peek(doc, pos) = "\\" /\ Peek(doc, pos + 1) = Backslash(c)
    BY <2>1 DEF Stands
  <2>3. Backslash(c) \notin {"u", "end"} /\ Backslashed(Backslash(c)) = c
    BY <1>3 DEF Backslash, Backslashed
  <2> QED
    BY <2>1, <2>2, <2>3 DEF RestOfString
<1>4. CASE c \notin {"\"", "\\", "newline"} /\ c \in DOMAIN Code
  <2>1. Escape(c, writer) = <<"\\", "u", Code[c]>>
    BY <1>4 DEF Escape
  <2>2. Peek(doc, pos) = "\\" /\ Peek(doc, pos + 1) = "u" /\ Peek(doc, pos + 2) = Code[c]
    BY <2>1 DEF Stands
  <2>3. Code[c] \in DOMAIN Decoded /\ Decoded[Code[c]] = c
    BY <1>4, CodesAreDecoded DEF Codes
  <2> QED
    BY <2>1, <2>2, <2>3 DEF RestOfString
<1>5. CASE c \notin {"\"", "\\", "newline"} /\ c \notin DOMAIN Code
  <2>1. Escape(c, writer) = <<c>>
    BY <1>5 DEF Escape
  <2>2. Peek(doc, pos) = c
    BY <2>1 DEF Stands
  <2> QED
    BY <1>1, <1>5, <2>1, <2>2 DEF RestOfString
<1> QED
  BY <1>2, <1>3, <1>4, <1>5

Escapes(s, writer) == [i \in DOMAIN s |-> Escape(s[i], writer)]

LEMMA EscapesAreTexts ==
    ASSUME NEW s \in Seq(Contents), NEW writer
    PROVE  /\ Escapes(s, writer) \in Seq(Seq(Units)) /\ Len(Escapes(s, writer)) = Len(s)
           /\ \A i \in 1..Len(s) : Escapes(s, writer)[i] = Escape(s[i], writer)
<1>1. DOMAIN s = 1..Len(s) /\ Len(s) \in Nat /\ \A i \in 1..Len(s) : s[i] \in Contents
  OBVIOUS
<1>2. Escapes(s, writer) = [i \in 1..Len(s) |-> Escape(s[i], writer)]
  BY <1>1 DEF Escapes
<1>3. \A i \in 1..Len(s) : Escape(s[i], writer) \in Seq(Units)
  BY <1>1, EscapeIsShort
<1> QED
  BY <1>1, <1>2, <1>3

LEMMA FlattenSeqIsAText ==
    ASSUME NEW U, NEW seqs \in Seq(Seq(U))
    PROVE  FlattenSeq(seqs) \in Seq(U)
<1>1. PICK f \in [0..Len(seqs) -> Seq(U)] : f[Len(seqs)] = FlattenSeq(seqs)
  BY FlattenSeqPrefixes
<1>2. Len(seqs) \in 0..Len(seqs)
  OBVIOUS
<1> QED
  BY <1>1, <1>2

(* A quoted string: a quote, the escapes, a quote.                         *)
LEMMA QuotedParts ==
    ASSUME NEW s \in Seq(Contents), NEW writer
    PROVE  /\ FlattenSeq(Escapes(s, writer)) \in Seq(Units) /\ Quoted(s, writer) \in Seq(Units)
           /\ Len(Quoted(s, writer)) = Len(FlattenSeq(Escapes(s, writer))) + 2
           /\ Quoted(s, writer)[1] = "\""
           /\ \A doc : \A pos \in Nat :
                Stands(doc, pos, Quoted(s, writer)) =>
                    /\ Peek(doc, pos) = "\"" /\ Stands(doc, pos + 1, FlattenSeq(Escapes(s, writer)))
                    /\ Peek(doc, pos + 1 + Len(FlattenSeq(Escapes(s, writer)))) = "\""
<1>1. PICK q \in Units : q = "\""
  BY DEF Units, Marks
<1>2. PICK inner \in Seq(Units) : inner = FlattenSeq(Escapes(s, writer))
  BY EscapesAreTexts, FlattenSeqIsAText
<1>3. PICK w : w = Quoted(s, writer) /\ Enclosed(w, q, inner, q)
  BY <1>1, <1>2 DEF Quoted, Escapes, Enclosed
<1>4. w \in Seq(Units) /\ Len(w) = Len(inner) + 2 /\ w[1] = q
  BY <1>3, EnclosedIsAText
<1>5. ASSUME NEW doc, NEW pos \in Nat, Stands(doc, pos, w)
      PROVE  /\ Peek(doc, pos) = q /\ Stands(doc, pos + 1, inner)
             /\ Peek(doc, pos + 1 + Len(inner)) = q
  BY <1>3, <1>5, StandsEnclosed
<1> QED
  BY <1>1, <1>2, <1>3, <1>4, <1>5

(* It is read as the string it was made from, wherever it stands, if as    *)
(* many calls may be made as it is long.                                   *)
LEMMA StringIsRead ==
    ASSUME NEW doc \in Seq(Units), NEW s \in Seq(Contents), NEW writer, NEW pos \in Nat,
           Stands(doc, pos, Quoted(s, writer)),
           NEW n \in 1..(Len(doc) + 1), Len(Quoted(s, writer)) <= n + 1
    PROVE  Reading(doc)[n]["string"][pos + 1] = Got(s, pos + Len(Quoted(s, writer)))
<1> DEFINE R == Reading(doc)
           E == Escapes(s, writer)
<1>1. PICK k \in Nat : k = Len(s)
  OBVIOUS
<1>2. PICK len \in Nat : len = Len(FlattenSeq(E))
  <2>1. FlattenSeq(E) \in Seq(Units)
    BY QuotedParts
  <2> HIDE DEF E
  <2> QED
    BY <2>1
<1>3. E \in Seq(Seq(Units)) /\ Len(E) = k /\ \A i \in 1..k : E[i] = Escape(s[i], writer)
  BY <1>1, EscapesAreTexts
<1>4. Stands(doc, pos + 1, FlattenSeq(E)) /\ Peek(doc, pos + 1 + len) = "\""
      /\ Len(Quoted(s, writer)) = len + 2
  BY <1>2, QuotedParts
<1> HIDE DEF E, R
<1>5. PICK at \in [1..(k + 1) -> Nat] :
        /\ at[1] = pos + 1 /\ at[k + 1] = pos + 1 + len
        /\ \A i \in 1..k : at[i + 1] = at[i] + Len(E[i]) /\ Stands(doc, at[i], E[i])
  <2>1. pos + 1 \in Nat
    OBVIOUS
  <2>2. \E at \in [1..(Len(E) + 1) -> Nat] :
          /\ at[1] = pos + 1 /\ at[Len(E) + 1] = pos + 1 + Len(FlattenSeq(E))
          /\ \A i \in 1..Len(E) :
                /\ pos + 1 <= at[i] /\ at[i + 1] = at[i] + Len(E[i])
                /\ Stands(doc, at[i], E[i])
    BY <1>3, <1>4, <2>1, StandsEachPart
  <2> QED
    BY <1>2, <1>3, <2>2
<1> DEFINE end == at[k + 1]
           Rest(i) == /\ at[i] <= end
                      /\ \A m \in 1..(Len(doc) + 1) : end + 1 - at[i] <= m =>
                            R[m]["string"][at[i]] = Got(SubSeq(s, i, k), end + 1)
           S == {j \in Nat : j <= k => Rest(k + 1 - j)}
<1>6. Rest(k + 1)
  <2>1. end \in Nat
    BY <1>5
  <2>2. ASSUME NEW m \in 1..(Len(doc) + 1)
        PROVE  R[m]["string"][end] = Got(SubSeq(s, k + 1, k), end + 1)
    <3>1. R[m]["string"][end] = RestOfString(doc, end, R[m - 1])
      BY <2>1, ReadingEquations DEF R
    <3>2. Peek(doc, end) = "\""
      BY <1>4, <1>5
    <3>3. RestOfString(doc, end, R[m - 1]) = Got(<<>>, end + 1)
      BY <3>2 DEF RestOfString, Expect
    <3>4. SubSeq(s, k + 1, k) = <<>>
      BY SubSeqEmpty
    <3> QED
      BY <3>1, <3>3, <3>4
  <2> QED
    BY <2>1, <2>2
<1>7. ASSUME NEW i \in 1..k, Rest(i + 1) PROVE Rest(i)
  <2>1. at[i] \in Nat /\ at[i + 1] \in Nat /\ end \in Nat
    BY <1>5
  <2>2. s[i] \in Contents /\ E[i] = Escape(s[i], writer) /\ Len(E[i]) \in 1..3
    <3>1. s[i] \in Contents
      BY <1>1
    <3> QED
      BY <1>3, <3>1, EscapeIsShort
  <2>3. at[i + 1] = at[i] + Len(E[i]) /\ Stands(doc, at[i], Escape(s[i], writer))
    BY <1>5, <2>2
  <2>4. at[i] < at[i + 1] /\ at[i + 1] <= end
    <3>1. PICK e \in 1..3 : e = Len(E[i])
      BY <2>2
    <3>2. at[i + 1] = at[i] + e
      BY <2>3, <3>1
    <3> QED
      BY <1>7, <2>1, <3>2
  <2>5. ASSUME NEW m \in 1..(Len(doc) + 1), end + 1 - at[i] <= m
        PROVE  R[m]["string"][at[i]] = Got(SubSeq(s, i, k), end + 1)
    <3>1. m - 1 \in 1..(Len(doc) + 1) /\ end + 1 - at[i + 1] <= m - 1
      <4>1. PICK a \in Nat, b \in Nat, e \in Nat : a = at[i] /\ b = at[i + 1] /\ e = end
        BY <2>1
      <4>2. a < b /\ b <= e /\ e + 1 - a <= m
        BY <2>4, <2>5, <4>1
      <4>3. m - 1 \in 1..(Len(doc) + 1) /\ e + 1 - b <= m - 1
        BY <4>2
      <4> HIDE DEF end
      <4> QED
        BY <4>1, <4>3
    <3>2. R[m - 1]["string"][at[i + 1]] = Got(SubSeq(s, i + 1, k), end + 1)
      BY <1>7, <3>1
    <3>3. R[m]["string"][at[i]] = RestOfString(doc, at[i], R[m - 1])
      BY <2>1, ReadingEquations DEF R
    <3>4. RestOfString(doc, at[i], R[m - 1])
            = Got(<<s[i]>> \o R[m - 1]["string"][at[i + 1]].value, R[m - 1]["string"][at[i + 1]].pos)
      <4>1. PICK a \in Nat, b \in Nat, c \in Contents : a = at[i] /\ b = at[i + 1] /\ c = s[i]
        BY <2>1, <2>2
      <4>2. Stands(doc, a, Escape(c, writer)) /\ a + Len(Escape(c, writer)) = b
        BY <2>2, <2>3, <4>1
      <4>3. RestOfString(doc, a, R[m - 1])
              = Got(<<c>> \o R[m - 1]["string"][a + Len(Escape(c, writer))].value,
                    R[m - 1]["string"][a + Len(Escape(c, writer))].pos)
        BY <4>2, EscapeIsRead
      <4> QED
        BY <4>1, <4>2, <4>3
    <3>5. SubSeq(s, i, k) = <<s[i]>> \o SubSeq(s, i + 1, k)
      <4>1. i \in 1..Len(s) /\ k \in i..Len(s)
        BY <1>1
      <4> QED
        BY <4>1, SubSeqRecursiveFirst
    <3> QED
      BY <3>2, <3>3, <3>4, <3>5 DEF Got
  <2> QED
    BY <2>1, <2>4, <2>5
<1> HIDE DEF Rest
<1>8. 0 \in S
  BY <1>6
<1>9. ASSUME NEW j \in Nat, j \in S PROVE j + 1 \in S
  <2> SUFFICES ASSUME j + 1 <= k PROVE Rest(k + 1 - (j + 1))
    OBVIOUS
  <2>1. k - j \in 1..k /\ k - j + 1 = k + 1 - j /\ k + 1 - (j + 1) = k - j /\ j <= k
    OBVIOUS
  <2>2. Rest(k - j + 1)
    BY <1>9, <2>1
  <2> QED
    BY <1>7, <2>1, <2>2
<1>10. Nat \subseteq S
  BY <1>8, <1>9, SetInduction
<1>11. Rest(1)
  <2>1. Rest(k + 1 - k)
    BY <1>10
  <2>2. k + 1 - k = 1
    OBVIOUS
  <2> QED
    BY <2>1, <2>2
<1>12. at[1] = pos + 1 /\ end + 1 - at[1] <= n /\ end + 1 = pos + Len(Quoted(s, writer))
  <2>1. len + 2 <= n + 1
    BY <1>4
  <2>2. pos + 1 + len + 1 - (pos + 1) <= n /\ pos + 1 + len + 1 = pos + (len + 2)
    BY <2>1
  <2> QED
    BY <1>4, <1>5, <2>2
<1>13. SubSeq(s, 1, k) = s
  BY <1>1, SubSeqFull
<1> QED
  BY <1>11, <1>12, <1>13 DEF Rest, R

LEMMA QuotedIsRead ==
    ASSUME NEW doc \in Seq(Units), NEW s \in Seq(Contents), NEW writer, NEW pos \in Nat,
           Stands(doc, pos, Quoted(s, writer)),
           NEW n \in 1..(Len(doc) + 1), Len(Quoted(s, writer)) <= n
    PROVE  ParseString(doc, pos, Reading(doc)[n - 1]) = Got(s, pos + Len(Quoted(s, writer)))
<1>1. Peek(doc, pos) = "\"" /\ Len(Quoted(s, writer)) = Len(FlattenSeq(Escapes(s, writer))) + 2
  BY QuotedParts
<1>2. PICK len \in Nat : len = Len(FlattenSeq(Escapes(s, writer)))
  <2>1. FlattenSeq(Escapes(s, writer)) \in Seq(Units)
    BY QuotedParts
  <2> QED
    BY <2>1
<1>3. PICK m \in 1..(Len(doc) + 1) : m = n - 1 /\ Len(Quoted(s, writer)) <= m + 1
  <2>1. len + 2 <= n
    BY <1>1, <1>2
  <2>2. n - 1 \in 1..(Len(doc) + 1) /\ len + 2 <= (n - 1) + 1
    BY <2>1
  <2> QED
    BY <1>1, <1>2, <2>2
<1>4. Reading(doc)[m]["string"][pos + 1] = Got(s, pos + Len(Quoted(s, writer)))
  BY <1>3, StringIsRead
<1> QED
  BY <1>1, <1>3, <1>4 DEF ParseString
-----------------------------------------------------------------------------
(***************************************************************************)
(* Values that are read where they stand, if as many calls may be made as  *)
(* their text is long.                                                     *)
(***************************************************************************)
IsRead(doc, pos, t, v) ==
    \A n \in 1..(Len(doc) + 1) :
        Len(t) <= n => Reading(doc)[n]["value"][pos] = Got(v, pos + Len(t))

(* What a routine makes of the text from one position up to another, if as *)
(* many calls may be made as there are units between them.                 *)
Reads(routine, doc, from, to, v) ==
    \A n \in 1..(Len(doc) + 1) : to - from <= n => Reading(doc)[n][routine][from] = Got(v, to)

LEMMA StringValueIsRead ==
    ASSUME NEW doc \in Seq(Units), NEW s \in Seq(Contents), NEW writer, NEW pos \in Nat,
           Stands(doc, pos, Quoted(s, writer))
    PROVE  IsRead(doc, pos, Quoted(s, writer), <<"string", s>>)
<1> SUFFICES ASSUME NEW n \in 1..(Len(doc) + 1), Len(Quoted(s, writer)) <= n
             PROVE  Reading(doc)[n]["value"][pos]
                      = Got(<<"string", s>>, pos + Len(Quoted(s, writer)))
  BY DEF IsRead
<1>1. Reading(doc)[n]["value"][pos] = ParseValue(doc, pos, Reading(doc)[n - 1])
  BY ReadingEquations
<1>2. Peek(doc, pos) = "\""
  BY QuotedParts
<1>3. PICK s1 : s1 = ParseString(doc, pos, Reading(doc)[n - 1])
                /\ s1 = Got(s, pos + Len(Quoted(s, writer)))
  BY QuotedIsRead
<1>4. ParseValue(doc, pos, Reading(doc)[n - 1]) = Got(<<"string", s1.value>>, s1.pos)
  BY <1>2, <1>3, Zenon DEF ParseValue
<1>5. s1.value = s /\ s1.pos = pos + Len(Quoted(s, writer))
  BY <1>3 DEF Got
<1> QED
  BY <1>1, <1>4, <1>5

(* The elements of an array: each is read, and a comma follows it, or the  *)
(* end of the array.                                                       *)
ElementStands(doc, from, t, v, to) ==
    /\ from <= Len(doc) /\ IsRead(doc, from, t, v)
    /\ Len(t) \in Nat \ {0} /\ to = from + Len(t) + 1

LEMMA ElementIsNext ==
    ASSUME NEW doc \in Seq(Units), NEW from \in Nat, NEW t, NEW v, NEW to \in Nat,
           ElementStands(doc, from, t, v, to)
    PROVE  /\ from + 1 < to
           /\ \A n \in 1..(Len(doc) + 1) : to - from <= n =>
                \E v1 : /\ v1 = ParseValue(doc, from, Reading(doc)[n - 1])
                        /\ v1.value = v /\ v1.pos = to - 1
                        /\ ~(from > Len(doc)) /\ v1.pos # from
<1>1. PICK len \in Nat \ {0} : len = Len(t)
  BY DEF ElementStands
<1>2. from <= Len(doc) /\ IsRead(doc, from, t, v) /\ to = from + len + 1
  BY <1>1 DEF ElementStands
<1>3. from + 1 < to /\ to - 1 = from + len /\ to - 1 # from /\ ~(from > Len(doc))
  BY <1>2
<1>4. ASSUME NEW n \in 1..(Len(doc) + 1), to - from <= n
      PROVE  ParseValue(doc, from, Reading(doc)[n - 1]) = Got(v, to - 1)
  <2>1. len <= n
    BY <1>2, <1>4
  <2>2. Reading(doc)[n]["value"][from] = Got(v, to - 1)
    BY <1>1, <1>2, <1>3, <2>1 DEF IsRead
  <2> QED
    BY <2>2, ReadingEquations
<1> QED
  BY <1>3, <1>4 DEF Got

LEMMA LastElementIsRead ==
    ASSUME NEW doc \in Seq(Units), NEW from \in Nat, NEW t, NEW v, NEW to \in Nat,
           ElementStands(doc, from, t, v, to), Peek(doc, to - 1) = "]"
    PROVE  Reads("elements", doc, from, to, <<"array", <<v>>>>)
<1> SUFFICES ASSUME NEW n \in 1..(Len(doc) + 1), to - from <= n
             PROVE  Reading(doc)[n]["elements"][from] = Got(<<"array", <<v>>>>, to)
  BY DEF Reads
<1>1. PICK v1 : /\ v1 = ParseValue(doc, from, Reading(doc)[n - 1])
                /\ v1.value = v /\ v1.pos = to - 1
                /\ ~(from > Len(doc)) /\ v1.pos # from
  BY ElementIsNext
<1>2. Reading(doc)[n]["elements"][from] = Elements(doc, from, Reading(doc)[n - 1])
  BY ReadingEquations
<1>3. Expect(doc, to - 1, "]") = to
  BY DEF Expect
<1>4. Elements(doc, from, Reading(doc)[n - 1]) = Got(<<"array", <<v>>>>, to)
  BY <1>1, <1>3, MarksAreDifferent DEF Elements, Comma
<1> QED
  BY <1>2, <1>4

LEMMA ElementIsRead ==
    ASSUME NEW doc \in Seq(Units), NEW from \in Nat, NEW t, NEW v, NEW to \in Nat,
           ElementStands(doc, from, t, v, to), Peek(doc, to - 1) = Comma, NEW others,
           NEW end \in Nat, to <= end, Reads("elements", doc, to, end, <<"array", others>>)
    PROVE  Reads("elements", doc, from, end, <<"array", <<v>> \o others>>)
<1> SUFFICES ASSUME NEW n \in 1..(Len(doc) + 1), end - from <= n
             PROVE  Reading(doc)[n]["elements"][from] = Got(<<"array", <<v>> \o others>>, end)
  BY DEF Reads
<1>0. from + 1 < to /\ to - 1 + 1 = to
  BY ElementIsNext
<1>1. PICK v1 : /\ v1 = ParseValue(doc, from, Reading(doc)[n - 1])
                /\ v1.value = v /\ v1.pos = to - 1
                /\ ~(from > Len(doc)) /\ v1.pos # from
  <2>1. to - from <= n
    BY <1>0
  <2> QED
    BY <2>1, ElementIsNext
<1>2. Reading(doc)[n]["elements"][from] = Elements(doc, from, Reading(doc)[n - 1])
  BY ReadingEquations
<1>3. Reading(doc)[n - 1]["elements"][to] = Got(<<"array", others>>, end)
  <2>1. n - 1 \in 1..(Len(doc) + 1) /\ end - to <= n - 1
    BY <1>0
  <2> QED
    BY <2>1 DEF Reads
<1>4. PICK rest : rest = Reading(doc)[n - 1]["elements"][v1.pos + 1]
                  /\ rest = Got(<<"array", others>>, end)
  BY <1>0, <1>1, <1>3
<1>5. rest.value[2] = others /\ rest.pos = end
  BY <1>4 DEF Got
<1>6. Elements(doc, from, Reading(doc)[n - 1]) = Got(<<"array", <<v>> \o others>>, end)
  BY <1>1, <1>4, <1>5 DEF Elements, Comma
<1> QED
  BY <1>2, <1>6

ElementsStand(doc, start, ts, vs, k) ==
    \A i \in 1..k :
        /\ ElementStands(doc, start[i], ts[i], vs[i], start[i + 1])
        /\ Peek(doc, start[i + 1] - 1) = IF i = k THEN "]" ELSE Comma

LEMMA RestOfSequence ==
    ASSUME NEW V, NEW vs \in Seq(V), NEW k \in Nat \ {0}, Len(vs) = k
    PROVE  /\ SubSeq(vs, k, k) = <<vs[k]>> /\ SubSeq(vs, 1, k) = vs
           /\ \A i \in 1..k : SubSeq(vs, i, k) = <<vs[i]>> \o SubSeq(vs, i + 1, k)
<1>1. SubSeq(vs, 1, k) = vs
  BY SubSeqFull
<1>2. \A i \in 1..k : SubSeq(vs, i, k) = <<vs[i]>> \o SubSeq(vs, i + 1, k)
  <2> SUFFICES ASSUME NEW i \in 1..k
               PROVE  SubSeq(vs, i, k) = <<vs[i]>> \o SubSeq(vs, i + 1, k)
    OBVIOUS
  <2>1. i \in 1..Len(vs) /\ k \in i..Len(vs)
    OBVIOUS
  <2> QED
    BY <2>1, SubSeqRecursiveFirst
<1>3. SubSeq(vs, k, k) = <<vs[k]>>
  <2>1. SubSeq(vs, k, k) = <<vs[k]>> \o SubSeq(vs, k + 1, k)
    BY <1>2, FirstAndLast
  <2>2. SubSeq(vs, k + 1, k) = <<>>
    BY SubSeqEmpty
  <2>3. PICK v \in V : v = vs[k]
    OBVIOUS
  <2>4. PICK s : s = <<v>>
    OBVIOUS
  <2>5. s \in Seq(V)
    BY <2>4, OneUnit
  <2>6. s \o <<>> = s
    BY <2>5, ConcatEmptySeq
  <2> QED
    BY <2>1, <2>2, <2>3, <2>4, <2>6
<1> QED
  BY <1>1, <1>2, <1>3

LEMMA ElementsAreRead ==
    ASSUME NEW doc \in Seq(Units), NEW k \in Nat \ {0}, NEW V, NEW vs \in Seq(V), Len(vs) = k,
           NEW ts, NEW start \in [1..(k + 1) -> Nat], ElementsStand(doc, start, ts, vs, k)
    PROVE  Reads("elements", doc, start[1], start[k + 1], <<"array", vs>>)
<1> DEFINE From(i) == SubSeq(vs, i, k)
<1>a. From(k) = <<vs[k]>> /\ From(1) = vs /\ \A i \in 1..k : From(i) = <<vs[i]>> \o From(i + 1)
  BY RestOfSequence
<1> HIDE DEF From
<1>0. PICK end \in Nat : end = start[k + 1]
  OBVIOUS
<1> DEFINE Rest(i) == start[i] <= end /\ Reads("elements", doc, start[i], end, <<"array", From(i)>>)
           T == {i \in 1..k : Rest(i)}
<1>1. ASSUME NEW i \in 1..k, i # k => Rest(i + 1) PROVE Rest(i)
  <2>1. PICK a \in Nat, b \in Nat : a = start[i] /\ b = start[i + 1]
    <3>1. i \in 1..(k + 1) /\ i + 1 \in 1..(k + 1)
      OBVIOUS
    <3>2. start[i] \in Nat /\ start[i + 1] \in Nat
      BY <3>1
    <3> QED
      BY <3>2
  <2>2. PICK t, v : t = ts[i] /\ v = vs[i]
    OBVIOUS
  <2>3. ElementStands(doc, a, t, v, b)
        /\ Peek(doc, b - 1) = IF i = k THEN "]" ELSE Comma
    BY <2>1, <2>2 DEF ElementsStand
  <2>4. a < b
    BY <2>3, ElementIsNext
  <2>5. CASE i = k
    <3>1. Reads("elements", doc, a, b, <<"array", <<v>>>>)
      BY <2>3, <2>5, LastElementIsRead
    <3>2. b = end /\ From(i) = <<v>>
      BY <1>a, <1>0, <2>1, <2>2, <2>5
    <3> QED
      BY <2>1, <2>4, <3>1, <3>2
  <2>6. CASE i # k
    <3>1. PICK others : others = From(i + 1)
      OBVIOUS
    <3>2. b <= end /\ Reads("elements", doc, b, end, <<"array", others>>)
      BY <1>1, <2>1, <2>6, <3>1
    <3>3. Reads("elements", doc, a, end, <<"array", <<v>> \o others>>)
      BY <2>3, <2>6, <3>2, ElementIsRead
    <3>4. From(i) = <<v>> \o others
      BY <1>a, <2>2, <3>1
    <3> QED
      BY <2>1, <2>4, <3>2, <3>3, <3>4
  <2> QED
    BY <2>5, <2>6
<1> HIDE DEF Rest
<1>2. k \in T
  <2>1. PICK i \in 1..k : i = k
    BY FirstAndLast, Zenon
  <2>2. Rest(i)
    BY <1>1, <2>1
  <2> QED
    BY <2>1, <2>2
<1>3. \A i \in 1..k : i # k /\ i + 1 \in T => i \in T
  BY <1>1
<1>4. 1..k \subseteq T
  <2> HIDE DEF T
  <2> QED
    BY <1>2, <1>3, IndexInduction
<1>5. Rest(1)
  <2>1. PICK i \in 1..k : i = 1
    BY FirstAndLast, Zenon
  <2>2. Rest(i)
    BY <1>4
  <2> QED
    BY <2>1, <2>2
<1> QED
  BY <1>a, <1>0, <1>5 DEF Rest

(* A member: its key, a colon and its value, from one position up to the   *)
(* one behind the comma or brace that follows.                             *)
MemberStands(doc, writer, from, key, t, v, to) ==
    /\ from <= Len(doc) /\ Stands(doc, from, Quoted(key, writer))
    /\ Peek(doc, from + Len(Quoted(key, writer))) = ":"
    /\ IsRead(doc, from + Len(Quoted(key, writer)) + 1, t, v)
    /\ to = from + Len(Quoted(key, writer)) + 1 + Len(t) + 1

LEMMA QuotedLength ==
    ASSUME NEW s \in Seq(Contents), NEW writer
    PROVE  Len(Quoted(s, writer)) \in Nat \ {0, 1}
<1>1. PICK t \in Seq(Units) : Len(Quoted(s, writer)) = Len(t) + 2
  BY QuotedParts
<1>2. PICK len \in Nat : len = Len(t)
  OBVIOUS
<1> QED
  BY <1>1, <1>2

LEMMA MemberIsNext ==
    ASSUME NEW doc \in Seq(Units), NEW writer, NEW from \in Nat, NEW key \in Seq(Contents),
           NEW t \in Seq(Units), NEW v, NEW to \in Nat, MemberStands(doc, writer, from, key, t, v, to)
    PROVE  /\ from < to
           /\ from + 2 < to
           /\ \A n \in 1..(Len(doc) + 1) : to - from <= n =>
                \E key1, v1 :
                  /\ key1 = ParseString(doc, from, Reading(doc)[n - 1])
                  /\ v1 = Reading(doc)[n - 1]["value"][key1.pos + 1]
                  /\ key1.value = key /\ v1 = Got(v, to - 1)
                  /\ ~(from > Len(doc)) /\ HasValue(doc, key1.pos)
<1>1. PICK q \in Nat \ {0, 1}, len \in Nat : q = Len(Quoted(key, writer)) /\ len = Len(t)
  <2>1. PICK q \in Nat \ {0, 1} : q = Len(Quoted(key, writer))
    BY QuotedLength
  <2>2. PICK len \in Nat : len = Len(t)
    OBVIOUS
  <2> QED
    BY <2>1, <2>2
<1>2. PICK c \in Nat : c = from + q
  OBVIOUS
<1>3. /\ from <= Len(doc) /\ Stands(doc, from, Quoted(key, writer))
      /\ Peek(doc, c) = ":" /\ IsRead(doc, c + 1, t, v) /\ to = c + 1 + len + 1
  BY <1>1, <1>2 DEF MemberStands
<1>4. from < to /\ from + 2 < to
  BY <1>1, <1>2, <1>3
<1>5. ASSUME NEW n \in 1..(Len(doc) + 1), to - from <= n
      PROVE  /\ ParseString(doc, from, Reading(doc)[n - 1]) = Got(key, c)
             /\ Reading(doc)[n - 1]["value"][c + 1] = Got(v, to - 1)
  <2>1. q <= n /\ n - 1 \in 1..(Len(doc) + 1) /\ len <= n - 1 /\ to - 1 = c + 1 + len
    BY <1>1, <1>2, <1>3, <1>5
  <2>2. ParseString(doc, from, Reading(doc)[n - 1]) = Got(key, c)
    BY <1>1, <1>2, <1>3, <2>1, QuotedIsRead
  <2>3. Reading(doc)[n - 1]["value"][c + 1] = Got(v, to - 1)
    BY <1>1, <1>3, <2>1 DEF IsRead
  <2> QED
    BY <2>2, <2>3
<1>6. ~(from > Len(doc)) /\ HasValue(doc, c)
  BY <1>3 DEF HasValue
<1> QED
  BY <1>4, <1>5, <1>6 DEF Got

LEMMA LastMemberIsRead ==
    ASSUME NEW doc \in Seq(Units), NEW writer, NEW from \in Nat, NEW key \in Seq(Contents),
           NEW t \in Seq(Units), NEW v, NEW to \in Nat, MemberStands(doc, writer, from, key, t, v, to),
           Peek(doc, to - 1) = RightBrace
    PROVE  Reads("members", doc, from, to, <<"object", {<<key, v>>}>>)
<1> SUFFICES ASSUME NEW n \in 1..(Len(doc) + 1), to - from <= n
             PROVE  Reading(doc)[n]["members"][from] = Got(<<"object", {<<key, v>>}>>, to)
  BY DEF Reads
<1>0. from < to /\ from + 2 < to
  BY MemberIsNext
<1>1. PICK key1, v1 :
        /\ key1 = ParseString(doc, from, Reading(doc)[n - 1])
        /\ v1 = Reading(doc)[n - 1]["value"][key1.pos + 1]
        /\ key1.value = key /\ v1 = Got(v, to - 1)
        /\ ~(from > Len(doc)) /\ HasValue(doc, key1.pos)
  BY MemberIsNext
<1>2. Reading(doc)[n]["members"][from] = Members(doc, from, Reading(doc)[n - 1])
  BY ReadingEquations
<1>3. {} \cup {m \in {<<key, v>>} : \A o \in {} : o[1] # m[1]} = {<<key, v>>}
  OBVIOUS
<1>4. v1.value = v /\ v1.pos = to - 1 /\ Expect(doc, to - 1, RightBrace) = to
  BY <1>0, <1>1 DEF Got, Expect
<1>5. Members(doc, from, Reading(doc)[n - 1])
        = Got(<<"object", {} \cup {m \in {<<key, v>>} : \A o \in {} : o[1] # m[1]}>>, to)
  BY <1>1, <1>4, MarksAreDifferent DEF Members, Comma, RightBrace
<1> QED
  BY <1>2, <1>3, <1>5

LEMMA MemberIsRead ==
    ASSUME NEW doc \in Seq(Units), NEW writer, NEW from \in Nat, NEW key \in Seq(Contents),
           NEW t \in Seq(Units), NEW v, NEW to \in Nat, MemberStands(doc, writer, from, key, t, v, to),
           Peek(doc, to - 1) = Comma, NEW others, \A o \in others : o[1] # key,
           NEW end \in Nat, to <= end, Reads("members", doc, to, end, <<"object", others>>)
    PROVE  Reads("members", doc, from, end, <<"object", others \cup {<<key, v>>}>>)
<1> SUFFICES ASSUME NEW n \in 1..(Len(doc) + 1), end - from <= n
             PROVE  Reading(doc)[n]["members"][from]
                      = Got(<<"object", others \cup {<<key, v>>}>>, end)
  BY DEF Reads
<1>0. from < to /\ from + 2 < to
  BY MemberIsNext
<1>1. PICK key1, v1 :
        /\ key1 = ParseString(doc, from, Reading(doc)[n - 1])
        /\ v1 = Reading(doc)[n - 1]["value"][key1.pos + 1]
        /\ key1.value = key /\ v1 = Got(v, to - 1)
        /\ ~(from > Len(doc)) /\ HasValue(doc, key1.pos)
  <2>1. to - from <= n
    BY <1>0
  <2> QED
    BY <2>1, MemberIsNext
<1>2. Reading(doc)[n]["members"][from] = Members(doc, from, Reading(doc)[n - 1])
  BY ReadingEquations
<1>3. {m \in {<<key, v>>} : \A o \in others : o[1] # m[1]} = {<<key, v>>}
  OBVIOUS
<1>4. v1.value = v /\ v1.pos = to - 1 /\ to - 1 + 1 = to
  BY <1>0, <1>1 DEF Got
<1>5. Reading(doc)[n - 1]["members"][to] = Got(<<"object", others>>, end)
  <2>1. n - 1 \in 1..(Len(doc) + 1) /\ end - to <= n - 1
    BY <1>0
  <2> QED
    BY <2>1 DEF Reads
<1>6. PICK rest : rest = Reading(doc)[n - 1]["members"][v1.pos + 1] /\ rest = Got(<<"object", others>>, end)
  BY <1>4, <1>5
<1>7. rest.value[2] = others /\ rest.pos = end
  BY <1>6 DEF Got
<1>8. Members(doc, from, Reading(doc)[n - 1])
        = Got(<<"object", others \cup {m \in {<<key, v>>} : \A o \in others : o[1] # m[1]}>>, end)
  BY <1>1, <1>4, <1>6, <1>7, MarksAreDifferent DEF Members, Comma, RightBrace
<1> QED
  BY <1>2, <1>3, <1>8

(* The members of an object, with different keys, in any order.            *)
AllDifferent(keys, k) == \A i, j \in 1..k : i # j => keys[i] # keys[j]

MembersOf(keys, vs, k) == {<<keys[j], vs[j]>> : j \in 1..k}

MembersStand(doc, writer, start, keys, ts, vs, k) ==
    \A i \in 1..k :
        /\ MemberStands(doc, writer, start[i], keys[i], ts[i], vs[i], start[i + 1])
        /\ Peek(doc, start[i + 1] - 1) = IF i = k THEN RightBrace ELSE Comma

LEMMA RestOfInterval ==
    ASSUME NEW k \in Nat, NEW i \in 1..k
    PROVE  i..k = (i + 1)..k \cup {i} /\ \A j \in (i + 1)..k : j \in 1..k /\ j # i
OBVIOUS

LEMMA MembersAreRead ==
    ASSUME NEW doc \in Seq(Units), NEW writer, NEW k \in Nat \ {0}, NEW vs,
           NEW keys \in [1..k -> Seq(Contents)], AllDifferent(keys, k),
           NEW ts \in [1..k -> Seq(Units)], NEW start \in [1..(k + 1) -> Nat],
           MembersStand(doc, writer, start, keys, ts, vs, k)
    PROVE  Reads("members", doc, start[1], start[k + 1], <<"object", MembersOf(keys, vs, k)>>)
<1> DEFINE From(i) == {<<keys[j], vs[j]>> : j \in i..k}
<1>0. PICK end \in Nat : end = start[k + 1]
  OBVIOUS
<1> DEFINE Rest(i) == start[i] <= end /\ Reads("members", doc, start[i], end, <<"object", From(i)>>)
           T == {i \in 1..k : Rest(i)}
<1>1. ASSUME NEW i \in 1..k, i # k => Rest(i + 1) PROVE Rest(i)
  <2>1. PICK a \in Nat, b \in Nat : a = start[i] /\ b = start[i + 1]
    <3>1. i \in 1..(k + 1) /\ i + 1 \in 1..(k + 1)
      OBVIOUS
    <3>2. start[i] \in Nat /\ start[i + 1] \in Nat
      BY <3>1
    <3> QED
      BY <3>2
  <2>0. PICK v : v = vs[i]
    OBVIOUS
  <2>2. PICK key \in Seq(Contents), t \in Seq(Units) : key = keys[i] /\ t = ts[i] /\ v = vs[i]
    BY <2>0
  <2>3. MemberStands(doc, writer, a, key, t, v, b)
        /\ Peek(doc, b - 1) = IF i = k THEN RightBrace ELSE Comma
    BY <2>1, <2>2 DEF MembersStand
  <2>4. a < b
    BY <2>3, MemberIsNext
  <2>5. CASE i = k
    <3>1. From(i) = {<<key, v>>}
      BY <2>2, <2>5
    <3> HIDE DEF From
    <3>2. Reads("members", doc, a, b, <<"object", {<<key, v>>}>>)
      BY <2>3, <2>5, LastMemberIsRead
    <3>3. b = end
      BY <1>0, <2>1, <2>5
    <3> QED
      BY <2>1, <2>4, <3>1, <3>2, <3>3
  <2>6. CASE i # k
    <3>1. From(i) = From(i + 1) \cup {<<key, v>>}
      BY <2>2, RestOfInterval
    <3>2. ASSUME NEW o \in From(i + 1) PROVE o[1] # key
      <4>1. PICK j \in (i + 1)..k : o = <<keys[j], vs[j]>>
        OBVIOUS
      <4>2. j \in 1..k /\ j # i
        BY RestOfInterval
      <4>3. keys[j] # keys[i]
        BY <4>2 DEF AllDifferent
      <4> QED
        BY <2>2, <4>1, <4>3
    <3> HIDE DEF From
    <3>3. b <= end /\ Reads("members", doc, b, end, <<"object", From(i + 1)>>)
      BY <1>1, <2>1, <2>6
    <3>4. Reads("members", doc, a, end, <<"object", From(i + 1) \cup {<<key, v>>}>>)
      <4>1. PICK others : others = From(i + 1)
        OBVIOUS
      <4> QED
        BY <2>3, <2>6, <3>2, <3>3, <4>1, MemberIsRead
    <3> QED
      BY <2>1, <2>4, <3>1, <3>3, <3>4
  <2> QED
    BY <2>5, <2>6
<1> HIDE DEF Rest
<1>2. k \in T
  <2>1. PICK i \in 1..k : i = k
    BY FirstAndLast, Zenon
  <2>2. Rest(i)
    BY <1>1, <2>1
  <2> QED
    BY <2>1, <2>2
<1>3. \A i \in 1..k : i # k /\ i + 1 \in T => i \in T
  BY <1>1
<1>4. 1..k \subseteq T
  <2> HIDE DEF T
  <2> QED
    BY <1>2, <1>3, IndexInduction
<1>5. Rest(1)
  <2>1. PICK i \in 1..k : i = 1
    BY FirstAndLast, Zenon
  <2>2. Rest(i)
    BY <1>4
  <2> QED
    BY <2>1, <2>2
<1> QED
  BY <1>0, <1>5 DEF Rest, MembersOf

LEMMA FunctionIsASequence ==
    ASSUME NEW S, NEW k \in Nat, NEW f \in [1..k -> S]
    PROVE  f \in Seq(S) /\ Len(f) = k
OBVIOUS

LEMMA CommaParts ==
    ASSUME NEW t \in Seq(Units)
    PROVE  /\ <<Comma>> \o t \in Seq(Units) /\ Len(<<Comma>> \o t) = Len(t) + 1
           /\ \A doc : \A pos \in Nat :
                Stands(doc, pos, <<Comma>> \o t) => Peek(doc, pos) = Comma /\ Stands(doc, pos + 1, t)
<1>0. PICK c \in Units : c = Comma
  BY MarksAreDifferent
<1>1. PICK comma \in Seq(Units) : comma = <<c>> /\ Len(comma) = 1 /\ comma[1] = c
  <2>1. PICK a : a = <<c>>
    OBVIOUS
  <2>2. a \in Seq(Units) /\ Len(a) = 1 /\ a[1] = c
    BY <2>1, OneUnit
  <2> QED
    BY <2>1, <2>2
<1>2. comma \o t \in Seq(Units) /\ Len(comma \o t) = Len(comma) + Len(t)
  BY ConcatProperties
<1>3. Len(comma \o t) = Len(t) + 1
  <2>1. PICK m \in Nat : m = Len(t)
    OBVIOUS
  <2> QED
    BY <1>1, <1>2, <2>1
<1>4. ASSUME NEW doc, NEW pos \in Nat, Stands(doc, pos, comma \o t)
      PROVE  Peek(doc, pos) = c /\ Stands(doc, pos + 1, t)
  <2>1. Stands(doc, pos, comma) /\ Stands(doc, pos + Len(comma), t)
    BY <1>4, StandsBothParts
  <2>2. Len(comma) \in Nat \ {0}
    BY <1>1
  <2>3. Peek(doc, pos) = comma[1]
    BY <2>1, <2>2, StandsFirst
  <2> QED
    BY <1>1, <2>1, <2>3
<1> QED
  BY <1>0, <1>1, <1>2, <1>3, <1>4

Separate(ts) == [i \in DOMAIN ts |-> IF i = 1 THEN ts[i] ELSE <<Comma>> \o ts[i]]

LEMMA SeparatedIsAText ==
    ASSUME NEW ts \in Seq(Seq(Units))
    PROVE  /\ Separated(ts) \in Seq(Units) /\ Separated(ts) = FlattenSeq(Separate(ts))
           /\ Separate(ts) \in Seq(Seq(Units)) /\ Len(Separate(ts)) = Len(ts)
           /\ \A i \in 1..Len(ts) :
                Separate(ts)[i] = IF i = 1 THEN ts[i] ELSE <<Comma>> \o ts[i]
<1>1. DOMAIN ts = 1..Len(ts) /\ Len(ts) \in Nat /\ \A i \in 1..Len(ts) : ts[i] \in Seq(Units)
  OBVIOUS
<1>2. Separate(ts) = [i \in 1..Len(ts) |-> IF i = 1 THEN ts[i] ELSE <<Comma>> \o ts[i]]
  BY <1>1 DEF Separate
<1>3. \A i \in 1..Len(ts) : (IF i = 1 THEN ts[i] ELSE <<Comma>> \o ts[i]) \in Seq(Units)
  BY <1>1, CommaParts
<1>4. Separate(ts) \in Seq(Seq(Units)) /\ Len(Separate(ts)) = Len(ts)
  <2>1. PICK k \in Nat : k = Len(ts)
    BY <1>1
  <2>2. \A i \in 1..k : Separate(ts)[i] \in Seq(Units)
    BY <1>2, <1>3, <2>1
  <2>3. Separate(ts) = [i \in 1..k |-> Separate(ts)[i]]
    BY <1>2, <2>1
  <2>4. Separate(ts) \in [1..k -> Seq(Units)]
    BY <2>2, <2>3
  <2> QED
    BY <2>1, <2>4, FunctionIsASequence
<1>5. Separated(ts) = FlattenSeq(Separate(ts))
  BY DEF Separated, Separate, Comma
<1>6. Separated(ts) \in Seq(Units)
  BY <1>4, <1>5, FlattenSeqIsAText
<1> QED
  BY <1>1, <1>2, <1>4, <1>5, <1>6

(* Where the texts stand, each with a comma after it but the last.         *)
StandSeparated(doc, start, ts, k, pos, end) ==
    /\ start \in [1..(k + 1) -> Nat] /\ start[1] = pos /\ start[k + 1] = end
    /\ \A i \in 1..k :
          /\ pos <= start[i] /\ start[i + 1] = start[i] + Len(ts[i]) + 1
          /\ Stands(doc, start[i], ts[i])
          /\ i # k => Peek(doc, start[i] + Len(ts[i])) = Comma

LEMMA SeparatedStands ==
    ASSUME NEW ts \in Seq(Seq(Units)), NEW k \in Nat \ {0}, Len(ts) = k,
           NEW doc, NEW pos \in Nat, Stands(doc, pos, Separated(ts))
    PROVE  \E start : StandSeparated(doc, start, ts, k, pos, pos + Len(Separated(ts)) + 1)
<1>1. PICK parts \in Seq(Seq(Units)) :
        /\ Len(parts) = k /\ Separated(ts) = FlattenSeq(parts)
        /\ \A i \in 1..k : parts[i] = IF i = 1 THEN ts[i] ELSE <<Comma>> \o ts[i]
  BY SeparatedIsAText
<1>2. PICK at \in [1..(k + 1) -> Nat] :
        /\ at[1] = pos /\ at[k + 1] = pos + Len(Separated(ts))
        /\ \A i \in 1..k :
              /\ pos <= at[i] /\ at[i + 1] = at[i] + Len(parts[i]) /\ Stands(doc, at[i], parts[i])
  <2>1. Stands(doc, pos, FlattenSeq(parts))
    BY <1>1
  <2>2. \E at \in [1..(Len(parts) + 1) -> Nat] :
          /\ at[1] = pos /\ at[Len(parts) + 1] = pos + Len(FlattenSeq(parts))
          /\ \A i \in 1..Len(parts) :
                /\ pos <= at[i] /\ at[i + 1] = at[i] + Len(parts[i])
                /\ Stands(doc, at[i], parts[i])
    BY <2>1, StandsEachPart
  <2> QED
    BY <1>1, <2>2
<1> DEFINE start == [i \in 1..(k + 1) |-> IF i = 1 THEN at[i] ELSE at[i] + 1]
<1>3. start \in [1..(k + 1) -> Nat]
  OBVIOUS
<1>4. start[1] = pos /\ start[k + 1] = pos + Len(Separated(ts)) + 1
  <2>1. 1 \in 1..(k + 1) /\ k + 1 \in 1..(k + 1) /\ k + 1 # 1
    OBVIOUS
  <2>2. start[1] = at[1] /\ start[k + 1] = at[k + 1] + 1
    BY <2>1
  <2> QED
    BY <1>2, <2>2
<1>5. ASSUME NEW i \in 1..k
      PROVE  /\ start[i + 1] = start[i] + Len(ts[i]) + 1 /\ start[i + 1] = at[i + 1] + 1
             /\ Stands(doc, start[i], ts[i]) /\ pos <= start[i]
  <2>1. i \in 1..(k + 1) /\ i + 1 \in 1..(k + 1) /\ i + 1 # 1
    OBVIOUS
  <2>2. PICK t \in Seq(Units), len \in Nat, a \in Nat, b \in Nat :
          t = ts[i] /\ len = Len(ts[i]) /\ a = at[i] /\ b = at[i + 1]
    <3>1. ts[i] \in Seq(Units)
      OBVIOUS
    <3>2. Len(ts[i]) \in Nat /\ at[i] \in Nat /\ at[i + 1] \in Nat
      BY <2>1, <3>1
    <3> QED
      BY <3>1, <3>2
  <2>3. start[i] = (IF i = 1 THEN a ELSE a + 1) /\ start[i + 1] = b + 1
    BY <2>1, <2>2
  <2> HIDE DEF start
  <2>4. b = a + Len(parts[i]) /\ Stands(doc, a, parts[i]) /\ pos <= a
    BY <1>2, <2>2
  <2>5. CASE i = 1
    <3>1. parts[i] = t
      BY <1>1, <2>2, <2>5
    <3> QED
      BY <2>2, <2>3, <2>4, <2>5, <3>1
  <2>6. CASE i # 1
    <3>1. parts[i] = <<Comma>> \o t
      BY <1>1, <2>2, <2>6
    <3>2. Len(parts[i]) = len + 1 /\ Stands(doc, a + 1, t)
      BY <2>2, <2>4, <3>1, CommaParts
    <3>3. b + 1 = a + 1 + len + 1
      BY <2>4, <3>2
    <3> QED
      BY <2>2, <2>3, <2>4, <2>6, <3>2, <3>3
  <2> QED
    BY <2>5, <2>6
<1>6. ASSUME NEW i \in 1..k, i # k
      PROVE  Peek(doc, start[i] + Len(ts[i])) = Comma
  <2>1. PICK j \in 1..k : j = i + 1 /\ j # 1
    BY <1>6
  <2>2. Stands(doc, at[j], <<Comma>> \o ts[j]) /\ ts[j] \in Seq(Units) /\ at[j] \in Nat
    <3>1. ts[j] \in Seq(Units)
      OBVIOUS
    <3>2. at[j] \in Nat
      OBVIOUS
    <3>3. parts[j] = <<Comma>> \o ts[j]
      BY <1>1, <2>1
    <3> QED
      BY <1>2, <3>1, <3>2, <3>3
  <2>3. Peek(doc, at[j]) = Comma
    BY <2>2, CommaParts
  <2>4. PICK a \in Nat, len \in Nat : a = start[i] /\ len = Len(ts[i])
    <3>1. start[i] \in Nat
      <4>1. i \in 1..(k + 1)
        OBVIOUS
      <4> HIDE DEF start
      <4> QED
        BY <1>3, <4>1
    <3>2. ts[i] \in Seq(Units)
      OBVIOUS
    <3>3. Len(ts[i]) \in Nat
      BY <3>2
    <3> QED
      BY <3>1, <3>3
  <2> HIDE DEF start
  <2>5. PICK b \in Nat : b = at[j]
    BY <2>2
  <2>6. b + 1 = a + len + 1
    BY <1>5, <2>1, <2>4, <2>5
  <2>7. b = a + len
    BY <2>6
  <2> QED
    BY <2>3, <2>4, <2>5, <2>7
<1> HIDE DEF start
<1>7. StandSeparated(doc, start, ts, k, pos, pos + Len(Separated(ts)) + 1)
  BY <1>3, <1>4, <1>5, <1>6 DEF StandSeparated
<1> QED
  BY <1>7

LEMMA WordIsRead ==
    ASSUME NEW doc \in Seq(Units), NEW pos \in Nat, NEW t, NEW v, Stands(doc, pos, t),
           NEW word, t = <<word>>,
           \/ word = "null" /\ v = <<"null">>
           \/ word \in {"true", "false"} /\ v = <<"bool", word = "true">>
    PROVE  IsRead(doc, pos, t, v)
<1>1. Len(t) = 1 /\ t[1] = word
  OBVIOUS
<1>2. Peek(doc, pos) = word
  <2>1. Len(t) \in Nat \ {0}
    BY <1>1
  <2> QED
    BY <1>1, <2>1, StandsFirst
<1> SUFFICES ASSUME NEW n \in 1..(Len(doc) + 1)
             PROVE  Reading(doc)[n]["value"][pos] = Got(v, pos + 1)
  BY <1>1 DEF IsRead
<1>3. Reading(doc)[n]["value"][pos] = ParseValue(doc, pos, Reading(doc)[n - 1])
  BY ReadingEquations
<1>4. CASE word = "null"
  BY <1>2, <1>3, <1>4 DEF ParseValue
<1>5. CASE word = "true"
  BY <1>2, <1>3, <1>5 DEF ParseValue
<1>6. CASE word = "false"
  BY <1>2, <1>3, <1>6 DEF ParseValue
<1> QED
  BY <1>4, <1>5, <1>6

(* The digits from a position up to the first unit that is none.           *)
LEMMA DigitsEnd ==
    ASSUME NEW doc \in Seq(Units), NEW start \in Nat \ {0}, NEW end \in start..(Len(doc) + 1),
           \A q \in start..(end - 1) : Peek(doc, q) \in Digits, Peek(doc, end) \notin Digits
    PROVE  Min({q \in start..(Len(doc) + 1) : Peek(doc, q) \notin Digits}) = end
<1> DEFINE S == {q \in start..(Len(doc) + 1) : Peek(doc, q) \notin Digits}
<1>0. Len(doc) \in Nat
  OBVIOUS
<1>1. end \in S
  OBVIOUS
<1>2. \A q \in S : end <= q
  <2> SUFFICES ASSUME NEW q \in S, q < end PROVE FALSE
    BY <1>0
  <2>1. q \in start..(end - 1)
    BY <1>0
  <2> QED
    BY <2>1
<1>3. \A q \in S : (\A r \in S : q <= r) => q = end
  <2> SUFFICES ASSUME NEW q \in S, \A r \in S : q <= r PROVE q = end
    OBVIOUS
  <2>1. q <= end /\ end <= q
    BY <1>1, <1>2
  <2> QED
    BY <1>0, <2>1
<1> HIDE DEF S
<1>4. Min(S) = CHOOSE q \in S : \A r \in S : q <= r
  BY DEF Min
<1>5. \E q \in S : \A r \in S : q <= r
  BY <1>1, <1>2
<1>6. Min(S) \in S /\ \A r \in S : Min(S) <= r
  BY <1>4, <1>5
<1>7. Min(S) = end
  BY <1>3, <1>6
<1> QED
  BY <1>7 DEF S

LEMMA NumeralParts ==
    ASSUME NEW s \in Numerals
    PROVE  /\ s \in Seq(Units) /\ Len(s) \in Nat \ {0} /\ s[Len(s)] \in Digits
           /\ s[1] \in Digits \cup {"-"}
           /\ s[1] = "-" => Len(s) # 1
           /\ \A i \in 1..Len(s) : i # 1 => s[i] \in Digits
<1>1. s \in Seq(Digits \cup {"-"}) /\ s # <<>> /\ s[Len(s)] \in Digits
      /\ \A i \in 1..Len(s) : s[i] = "-" => i = 1
  BY DEF Numerals
<1>2. Digits \cup {"-"} \subseteq Units /\ "-" \notin Digits
  BY DEF Units, Marks, Digits
<1>3. PICK k \in Nat \ {0} : k = Len(s)
  BY <1>1
<1>4. \A i \in 1..k : s[i] \in Digits \cup {"-"}
  BY <1>1, <1>3
<1>5. s \in Seq(Units)
  BY <1>1, <1>2
<1>6. s[1] \in Digits \cup {"-"}
  BY <1>4, FirstAndLast
<1>7. s[1] = "-" => k # 1
  BY <1>1, <1>2, <1>3
<1>8. \A i \in 1..k : i # 1 => s[i] \in Digits
  BY <1>1, <1>3, <1>4
<1> QED
  BY <1>1, <1>3, <1>5, <1>6, <1>7, <1>8

LEMMA NumberIsRead ==
    ASSUME NEW doc \in Seq(Units), NEW pos \in Nat \ {0}, NEW s \in Numerals,
           Stands(doc, pos, s), Peek(doc, pos + Len(s)) \notin Digits
    PROVE  IsRead(doc, pos, s, <<"number", s>>)
<1>1. PICK k \in Nat \ {0} : k = Len(s)
  BY NumeralParts
<1>2. \A i \in 1..k : Peek(doc, pos + i - 1) = s[i]
  BY <1>1 DEF Stands
<1>3. "-" \notin Digits /\ "end" \notin Digits
  BY DEF Digits
<1>4. PICK e \in Nat : e = pos + k
  OBVIOUS
<1>5. e - 1 <= Len(doc)
  <2>1. Peek(doc, e - 1) = s[k]
    <3>1. k \in 1..k /\ pos + k - 1 = e - 1
      BY <1>4
    <3> QED
      BY <1>2, <3>1
  <2>2. Peek(doc, e - 1) # "end"
    BY <1>1, <1>3, <2>1, NumeralParts
  <2> QED
    BY <2>2 DEF Peek
<1>6. Peek(doc, pos) = s[1]
  BY <1>1, StandsFirst
<1>7. PICK start \in {pos, pos + 1} : start = Expect(doc, pos, "-")
  BY DEF Expect
<1>8. start < e /\ start \in Nat \ {0}
  <2>1. CASE s[1] = "-"
    <3>1. k # 1
      BY <1>1, <2>1, NumeralParts
    <3> QED
      BY <1>4, <1>7, <3>1
  <2>2. CASE s[1] # "-"
    <3>1. start = pos
      BY <1>6, <1>7, <2>2 DEF Expect
    <3> QED
      BY <1>4, <3>1
  <2> QED
    BY <2>1, <2>2
<1>9. ASSUME NEW q \in start..(e - 1) PROVE Peek(doc, q) \in Digits
  <2>1. PICK i \in 1..k : i = q - pos + 1 /\ pos + i - 1 = q
    BY <1>4, <1>7
  <2>2. Peek(doc, q) = s[i]
    BY <1>2, <2>1
  <2>3. CASE i # 1
    BY <1>1, <2>2, <2>3, NumeralParts
  <2>4. CASE i = 1
    <3>1. start = pos
      BY <1>7, <2>1, <2>4
    <3>2. s[1] # "-"
      BY <1>6, <1>7, <3>1 DEF Expect
    <3> QED
      BY <2>2, <2>4, <3>2, NumeralParts
  <2> QED
    BY <2>3, <2>4
<1>10. Min({q \in start..(Len(doc) + 1) : Peek(doc, q) \notin Digits}) = e
  <2>1. e \in start..(Len(doc) + 1)
    <3>1. PICK d \in Nat : d = Len(doc)
      OBVIOUS
    <3> QED
      BY <1>5, <1>8, <3>1
  <2>2. Peek(doc, e) \notin Digits
    BY <1>1, <1>4
  <2> QED
    BY <1>8, <1>9, <2>1, <2>2, DigitsEnd
<1>11. SubSeq(doc, pos, e - 1) = s
  <2>1. PICK d \in Nat : d = Len(doc)
    OBVIOUS
  <2>2. pos \in 1..d /\ e - 1 \in 1..d /\ pos <= e - 1
    BY <1>4, <1>5, <2>1
  <2>3. \A i \in 1..k : doc[pos + i - 1] = s[i]
    <3> SUFFICES ASSUME NEW i \in 1..k PROVE doc[pos + i - 1] = s[i]
      OBVIOUS
    <3>1. pos + i - 1 <= Len(doc)
      BY <1>4, <1>5, <2>1
    <3> QED
      BY <1>2, <3>1 DEF Peek
  <2>4. SubSeq(doc, pos, e - 1) \in Seq(Units) /\ Len(SubSeq(doc, pos, e - 1)) = k
        /\ \A i \in 1..k : SubSeq(doc, pos, e - 1)[i] = doc[pos + i - 1]
    BY <1>4, <2>1, <2>2
  <2>5. s \in Seq(Units)
    BY NumeralParts
  <2> QED
    BY <1>1, <2>3, <2>4, <2>5
<1> SUFFICES ASSUME NEW n \in 1..(Len(doc) + 1)
             PROVE  Reading(doc)[n]["value"][pos] = Got(<<"number", s>>, e)
  BY <1>1, <1>4 DEF IsRead
<1>12. Reading(doc)[n]["value"][pos] = ParseValue(doc, pos, Reading(doc)[n - 1])
  BY ReadingEquations
<1>13. ParseValue(doc, pos, Reading(doc)[n - 1]) = ParseNumber(doc, pos)
  <2>1. Peek(doc, pos) \in Digits \cup {"-"}
    BY <1>6, NumeralParts
  <2> QED
    BY <2>1 DEF ParseValue, Digits
<1>14. ParseNumber(doc, pos) = Got(<<"number", s>>, e)
  <2>1. e # start
    BY <1>8
  <2> QED
    BY <1>7, <1>10, <1>11, <2>1 DEF ParseNumber
<1> QED
  BY <1>12, <1>13, <1>14

(* A text that is read as the value wherever it stands, if no digit        *)
(* follows.                                                                *)
Readable(t, v) ==
    /\ t \in Seq(Units) /\ Len(t) \in Nat \ {0} /\ t[1] # "]"
    /\ \A doc \in Seq(Units) : \A pos \in Nat \ {0} :
          Stands(doc, pos, t) /\ Peek(doc, pos + Len(t)) \notin Digits => IsRead(doc, pos, t, v)

LEMMA NothingSeparated == Separated(<<>>) = <<>> /\ Len(<<>>) = 0
<1>1. PICK e \in Seq(Seq(Units)) : e = <<>> /\ Len(e) = 0
  <2>1. PICK e : e = <<>>
    OBVIOUS
  <2>2. e \in Seq(Seq(Units)) /\ Len(e) = 0
    BY <2>1, EmptySeq
  <2> QED
    BY <2>1, <2>2
<1>2. Separate(e) \in Seq(Seq(Units)) /\ Len(Separate(e)) = 0 /\ Separated(e) = FlattenSeq(Separate(e))
  BY <1>1, SeparatedIsAText
<1>3. PICK f \in [0..0 -> Seq(Units)] : f[0] = <<>> /\ f[0] = FlattenSeq(Separate(e))
  <2>1. PICK s \in Seq(Seq(Units)) : s = Separate(e) /\ Len(s) = 0
    BY <1>2
  <2>2. \E f \in [0..Len(s) -> Seq(Units)] : f[0] = <<>> /\ f[Len(s)] = FlattenSeq(s)
    BY FlattenSeqPrefixes
  <2> QED
    BY <2>1, <2>2
<1> QED
  BY <1>1, <1>2, <1>3

LEMMA StandsInside ==
    ASSUME NEW doc \in Seq(Units), NEW pos \in Nat, NEW t \in Seq(Units), Len(t) \in Nat \ {0},
           Stands(doc, pos, t)
    PROVE  Peek(doc, pos) = t[1] /\ pos <= Len(doc)
<1>1. Peek(doc, pos) = t[1]
  BY StandsFirst
<1>2. t[1] \in Units
  OBVIOUS
<1>3. Peek(doc, pos) # "end"
  BY <1>1, <1>2, NoUnitIsTheEnd
<1> QED
  BY <1>1, <1>3 DEF Peek

LEMMA MarksAreUnits == Marks \subseteq Units
BY DEF Units

LEMMA ArrayIsReadable ==
    ASSUME NEW V, NEW vs \in Seq(V), NEW ts \in Seq(Seq(Units)), Len(ts) = Len(vs),
           \A i \in 1..Len(vs) : Readable(ts[i], vs[i]),
           NEW w, Enclosed(w, "[", Separated(ts), "]")
    PROVE  Readable(w, <<"array", vs>>)
<1>0. PICK left \in Units, right \in Units : left = "[" /\ right = "]"
  BY MarksAreUnits DEF Marks
<1>1. PICK sep \in Seq(Units), len \in Nat : sep = Separated(ts) /\ len = Len(sep)
  <2>1. Separated(ts) \in Seq(Units)
    BY SeparatedIsAText
  <2> QED
    BY <2>1
<1>2. Enclosed(w, left, sep, right)
  BY <1>0, <1>1
<1>3. w \in Seq(Units) /\ Len(w) = len + 2 /\ w[1] = left
  BY <1>1, <1>2, EnclosedIsAText
<1> SUFFICES ASSUME NEW doc \in Seq(Units), NEW pos \in Nat \ {0}, Stands(doc, pos, w)
             PROVE  IsRead(doc, pos, w, <<"array", vs>>)
  <2>1. Len(w) \in Nat \ {0} /\ w[1] # "]"
    BY <1>0, <1>3
  <2> QED
    BY <1>3, <2>1 DEF Readable
<1>4. Peek(doc, pos) = left /\ Stands(doc, pos + 1, sep) /\ Peek(doc, pos + 1 + len) = right
  <2>1. Peek(doc, pos) = left /\ Stands(doc, pos + 1, sep) /\ Peek(doc, pos + 1 + Len(sep)) = right
    BY <1>2, StandsEnclosed
  <2> QED
    BY <1>1, <2>1
<1> SUFFICES ASSUME NEW n \in 1..(Len(doc) + 1), len + 2 <= n
             PROVE  Reading(doc)[n]["value"][pos] = Got(<<"array", vs>>, pos + (len + 2))
  BY <1>3 DEF IsRead
<1>5. Reading(doc)[n]["value"][pos] = ParseValue(doc, pos, Reading(doc)[n - 1])
  BY ReadingEquations
<1>6. PICK k \in Nat : k = Len(vs) /\ k = Len(ts)
  OBVIOUS
<1>7. CASE k = 0
  <2>1. ts = <<>> /\ vs = <<>>
    BY <1>6, <1>7, EmptySeq
  <2>2. len = 0
    BY <1>1, <2>1, NothingSeparated
  <2>3. Peek(doc, pos + 1) = "]"
    BY <1>0, <1>4, <2>2
  <2>4. ParseValue(doc, pos, Reading(doc)[n - 1]) = Got(<<"array", <<>>>>, pos + 2)
    BY <1>0, <1>4, <2>3 DEF ParseValue
  <2> QED
    BY <1>5, <2>1, <2>2, <2>4
<1>8. CASE k # 0
  <2>0. k \in Nat \ {0} /\ pos + 1 \in Nat
    BY <1>8
  <2>1. PICK start \in [1..(k + 1) -> Nat] :
          /\ start[1] = pos + 1 /\ start[k + 1] = (pos + 1) + len + 1
          /\ \A i \in 1..k :
                /\ pos + 1 <= start[i] /\ start[i + 1] = start[i] + Len(ts[i]) + 1
                /\ Stands(doc, start[i], ts[i])
                /\ i # k => Peek(doc, start[i] + Len(ts[i])) = Comma
    <3>1. PICK p \in Nat : p = pos + 1
      BY <2>0
    <3>2. Stands(doc, p, Separated(ts)) /\ Len(ts) = k
      BY <1>1, <1>4, <1>6, <3>1
    <3>3. \E start : StandSeparated(doc, start, ts, k, p, p + Len(Separated(ts)) + 1)
      BY <2>0, <3>2, SeparatedStands
    <3> QED
      BY <1>1, <3>1, <3>3 DEF StandSeparated
  <2>2. ASSUME NEW i \in 1..k
        PROVE  /\ Len(ts[i]) \in Nat \ {0} /\ ts[i][1] # "]"
               /\ ElementStands(doc, start[i], ts[i], vs[i], start[i + 1])
               /\ Peek(doc, start[i + 1] - 1) = IF i = k THEN "]" ELSE Comma
    <3>1. PICK a \in Nat \ {0}, b \in Nat : a = start[i] /\ b = start[i + 1]
      <4>1. i \in 1..(k + 1) /\ i + 1 \in 1..(k + 1)
        BY <2>0
      <4>2. start[i] \in Nat /\ pos + 1 <= start[i] /\ start[i + 1] \in Nat
        BY <2>1, <4>1
      <4> QED
        BY <4>2
    <3>2. PICK t : t = ts[i] /\ Readable(t, vs[i])
      BY <1>6
    <3>3. t \in Seq(Units) /\ Len(t) \in Nat \ {0} /\ t[1] # "]"
      BY <3>2 DEF Readable
    <3>4. Stands(doc, a, t)
      BY <2>1, <3>1, <3>2
    <3>5. a <= Len(doc)
      BY <3>3, <3>4, StandsInside
    <3>6. PICK l \in Nat : l = Len(t) /\ b = a + l + 1
      BY <2>1, <3>1, <3>2, <3>3
    <3>7. Peek(doc, b - 1) = IF i = k THEN "]" ELSE Comma
      <4>1. CASE i = k
        <5>1. b = (pos + 1) + len + 1
          BY <2>1, <3>1, <4>1
        <5>2. b - 1 = pos + 1 + len
          BY <5>1
        <5> QED
          BY <1>0, <1>4, <4>1, <5>2
      <4>2. CASE i # k
        <5>1. Peek(doc, a + l) = Comma
          BY <2>1, <3>1, <3>2, <3>6, <4>2
        <5>2. b - 1 = a + l
          BY <3>6
        <5> QED
          BY <4>2, <5>1, <5>2
      <4> QED
        BY <4>1, <4>2
    <3>8. IsRead(doc, a, t, vs[i])
      <4>1. b - 1 = a + Len(t)
        BY <3>6
      <4>2. Peek(doc, a + Len(t)) \notin Digits
        BY <3>7, <4>1, MarksAreDifferent DEF Digits
      <4> QED
        BY <3>2, <3>4, <4>2 DEF Readable
    <3>9. ElementStands(doc, a, t, vs[i], b)
      BY <3>3, <3>5, <3>6, <3>8 DEF ElementStands
    <3> QED
      BY <3>1, <3>2, <3>3, <3>7, <3>9
  <2>3. Reads("elements", doc, start[1], start[k + 1], <<"array", vs>>)
    <3>1. ElementsStand(doc, start, ts, vs, k)
      BY <2>2 DEF ElementsStand
    <3> QED
      BY <1>6, <2>0, <3>1, ElementsAreRead
  <2>4. n - 1 \in 1..(Len(doc) + 1) /\ ((pos + 1) + len + 1) - (pos + 1) <= n - 1
    OBVIOUS
  <2>5. Reading(doc)[n - 1]["elements"][pos + 1] = Got(<<"array", vs>>, (pos + 1) + len + 1)
    BY <2>1, <2>3, <2>4 DEF Reads
  <2>6. Peek(doc, pos + 1) # "]"
    <3>1. PICK i \in 1..k : i = 1
      BY <2>0, FirstAndLast, Zenon
    <3>2. PICK t \in Seq(Units) : t = ts[i] /\ Len(t) \in Nat \ {0} /\ t[1] # "]"
      <4>1. ts[i] \in Seq(Units)
        BY <1>6
      <4> QED
        BY <2>2, <4>1
    <3>3. Stands(doc, pos + 1, t)
      BY <2>1, <3>1, <3>2
    <3> QED
      BY <2>0, <3>2, <3>3, StandsInside
  <2>7. ParseValue(doc, pos, Reading(doc)[n - 1]) = Reading(doc)[n - 1]["elements"][pos + 1]
    BY <1>0, <1>4, <2>6 DEF ParseValue
  <2>8. (pos + 1) + len + 1 = pos + (len + 2)
    OBVIOUS
  <2> QED
    BY <1>5, <2>5, <2>7, <2>8
<1> QED
  BY <1>7, <1>8

LEMMA MemberParts ==
    ASSUME NEW key \in Seq(Contents), NEW t \in Seq(Units), NEW writer
    PROVE  /\ Member(key, t, writer) \in Seq(Units) /\ Len(Member(key, t, writer)) \in Nat \ {0}
           /\ Len(Member(key, t, writer)) = Len(Quoted(key, writer)) + 1 + Len(t)
           /\ Member(key, t, writer)[1] = Quote
           /\ \A doc : \A pos \in Nat :
                Stands(doc, pos, Member(key, t, writer)) =>
                    /\ Stands(doc, pos, Quoted(key, writer))
                    /\ Peek(doc, pos + Len(Quoted(key, writer))) = ":"
                    /\ Stands(doc, pos + Len(Quoted(key, writer)) + 1, t)
<1>0. PICK c \in Units : c = ":"
  BY DEF Units, Marks
<1>1. PICK colon \in Seq(Units) : colon = <<c>> /\ Len(colon) = 1 /\ colon[1] = c
  <2>1. PICK a : a = <<c>>
    OBVIOUS
  <2>2. a \in Seq(Units) /\ Len(a) = 1 /\ a[1] = c
    BY <2>1, OneUnit
  <2> QED
    BY <2>1, <2>2
<1>2. PICK q \in Seq(Units) : q = Quoted(key, writer) /\ q[1] = Quote
  BY QuotedParts, Zenon DEF Quote
<1>3. PICK k \in Nat \ {0, 1}, len \in Nat : k = Len(q) /\ len = Len(t)
  <2>1. PICK k \in Nat \ {0, 1} : k = Len(q)
    BY <1>2, QuotedLength
  <2>2. PICK len \in Nat : len = Len(t)
    OBVIOUS
  <2> QED
    BY <2>1, <2>2
<1>4. PICK qc \in Seq(Units) : qc = q \o colon /\ Len(qc) = k + 1 /\ qc[1] = Quote
  <2>1. q \o colon \in Seq(Units) /\ Len(q \o colon) = Len(q) + Len(colon)
        /\ \A i \in 1..(Len(q) + Len(colon)) : (q \o colon)[i] = IF i <= Len(q) THEN q[i] ELSE colon[i - Len(q)]
    BY ConcatProperties
  <2>2. 1 \in 1..(Len(q) + Len(colon)) /\ 1 <= Len(q)
    BY <1>1, <1>3
  <2>3. (q \o colon)[1] = q[1]
    BY <2>1, <2>2
  <2> QED
    BY <1>1, <1>2, <1>3, <2>1, <2>3
<1>5. PICK w \in Seq(Units) : w = qc \o t /\ Len(w) = k + 1 + len /\ w[1] = Quote
  <2>1. qc \o t \in Seq(Units) /\ Len(qc \o t) = Len(qc) + Len(t)
        /\ \A i \in 1..(Len(qc) + Len(t)) : (qc \o t)[i] = IF i <= Len(qc) THEN qc[i] ELSE t[i - Len(qc)]
    BY ConcatProperties
  <2>2. 1 \in 1..(Len(qc) + Len(t)) /\ 1 <= Len(qc)
    BY <1>3, <1>4
  <2>3. (qc \o t)[1] = qc[1]
    BY <2>1, <2>2
  <2> QED
    BY <1>3, <1>4, <2>1, <2>3
<1>6. Member(key, t, writer) = w
  BY <1>0, <1>1, <1>2, <1>4, <1>5, Zenon DEF Member
<1>7. ASSUME NEW doc, NEW pos \in Nat, Stands(doc, pos, w)
      PROVE  Stands(doc, pos, q) /\ Peek(doc, pos + k) = c /\ Stands(doc, pos + k + 1, t)
  <2>1. Stands(doc, pos, qc) /\ Stands(doc, pos + Len(qc), t)
    BY <1>5, <1>7, StandsBothParts
  <2>2. Stands(doc, pos, q) /\ Stands(doc, pos + Len(q), colon)
    BY <1>4, <2>1, StandsBothParts
  <2>3. Peek(doc, pos + k) = c
    <3>1. Len(colon) \in Nat \ {0} /\ pos + k \in Nat
      BY <1>1
    <3> QED
      BY <1>1, <1>3, <2>2, <3>1, StandsFirst
  <2>4. pos + Len(qc) = pos + k + 1
    BY <1>4
  <2> QED
    BY <2>1, <2>2, <2>3, <2>4
<1>8. Len(w) \in Nat \ {0}
  BY <1>5
<1> QED
  BY <1>0, <1>2, <1>3, <1>5, <1>6, <1>7, <1>8

LEMMA MemberPositions ==
    ASSUME NEW from \in Nat, NEW q \in Nat, NEW l \in Nat, NEW to, to = from + (q + 1 + l) + 1
    PROVE  \E p \in Nat \ {0} : p = from + q + 1 /\ to - 1 = p + l /\ to = p + l + 1
OBVIOUS

(* Where a member stands ends with the mark after it.                      *)
MemberEnds(doc, writer, from, key, t, to) ==
    /\ to = from + Len(Member(key, t, writer)) + 1
    /\ Peek(doc, to - 1) \in {RightBrace, Comma}

LEMMA MemberIsPlaced ==
    ASSUME NEW doc \in Seq(Units), NEW writer, NEW key \in Seq(Contents), NEW t \in Seq(Units), NEW v,
           Readable(t, v), NEW from \in Nat \ {0}, NEW to \in Nat,
           Stands(doc, from, Member(key, t, writer)), MemberEnds(doc, writer, from, key, t, to)
    PROVE  MemberStands(doc, writer, from, key, t, v, to)
<1>1. PICK m \in Seq(Units), q \in Nat \ {0, 1}, l \in Nat :
        /\ m = Member(key, t, writer) /\ q = Len(Quoted(key, writer)) /\ l = Len(t)
        /\ Len(m) = q + 1 + l
  <2>1. Member(key, t, writer) \in Seq(Units)
        /\ Len(Member(key, t, writer)) = Len(Quoted(key, writer)) + 1 + Len(t)
    BY MemberParts
  <2>2. Len(t) \in Nat /\ Len(Quoted(key, writer)) \in Nat \ {0, 1}
    BY QuotedLength
  <2> QED
    BY <2>1, <2>2
<1>2. /\ Stands(doc, from, m) /\ to = from + (q + 1 + l) + 1
      /\ Peek(doc, to - 1) \in {RightBrace, Comma}
  BY <1>1 DEF MemberEnds
<1>3. /\ Stands(doc, from, Quoted(key, writer)) /\ Peek(doc, from + q) = ":"
      /\ Stands(doc, from + q + 1, t)
  BY <1>1, MemberParts
<1>4. from <= Len(doc)
  <2>1. Len(m) \in Nat \ {0}
    BY <1>1
  <2> QED
    BY <1>2, <2>1, StandsInside
<1>5. PICK p \in Nat \ {0} : p = from + q + 1 /\ to - 1 = p + l /\ to = p + l + 1
  <2>1. from \in Nat /\ q \in Nat
    OBVIOUS
  <2> QED
    BY <1>2, <2>1, MemberPositions
<1>6. IsRead(doc, p, t, v)
  <2>1. Peek(doc, p + Len(t)) \notin Digits
    BY <1>1, <1>2, <1>5, MarksAreDifferent
  <2> QED
    BY <1>3, <1>5, <2>1 DEF Readable
<1> QED
  BY <1>1, <1>3, <1>4, <1>5, <1>6 DEF MemberStands

LEMMA ObjectIsReadable ==
    ASSUME NEW writer, NEW k \in Nat, NEW keys \in [1..k -> Seq(Contents)], AllDifferent(keys, k),
           NEW ts \in [1..k -> Seq(Units)], NEW vs, \A i \in 1..k : Readable(ts[i], vs[i]),
           NEW ms \in Seq(Seq(Units)), Len(ms) = k,
           \A i \in 1..k : ms[i] = Member(keys[i], ts[i], writer),
           NEW w, Enclosed(w, LeftBrace, Separated(ms), RightBrace)
    PROVE  Readable(w, <<"object", MembersOf(keys, vs, k)>>)
<1>0. PICK left \in Units, right \in Units : left = LeftBrace /\ right = RightBrace
  BY MarksAreUnits, Zenon DEF Marks, LeftBrace, RightBrace
<1>1. PICK sep \in Seq(Units), len \in Nat : sep = Separated(ms) /\ len = Len(sep)
  <2>1. Separated(ms) \in Seq(Units)
    BY SeparatedIsAText
  <2> QED
    BY <2>1
<1>2. Enclosed(w, left, sep, right)
  BY <1>0, <1>1
<1>3. w \in Seq(Units) /\ Len(w) = len + 2 /\ w[1] = left
  BY <1>1, <1>2, EnclosedIsAText
<1> DEFINE members == MembersOf(keys, vs, k)
<1> SUFFICES ASSUME NEW doc \in Seq(Units), NEW pos \in Nat \ {0}, Stands(doc, pos, w)
             PROVE  IsRead(doc, pos, w, <<"object", members>>)
  <2>1. Len(w) \in Nat \ {0}
    BY <1>3
  <2>2. w[1] # "]"
    BY <1>0, <1>3, MarksAreDifferent
  <2> QED
    BY <1>3, <2>1, <2>2 DEF Readable
<1>4. Peek(doc, pos) = left /\ Stands(doc, pos + 1, sep) /\ Peek(doc, pos + 1 + len) = right
  <2>1. Peek(doc, pos) = left /\ Stands(doc, pos + 1, sep) /\ Peek(doc, pos + 1 + Len(sep)) = right
    BY <1>2, StandsEnclosed
  <2> QED
    BY <1>1, <2>1
<1> SUFFICES ASSUME NEW n \in 1..(Len(doc) + 1), len + 2 <= n
             PROVE  Reading(doc)[n]["value"][pos] = Got(<<"object", members>>, pos + (len + 2))
  BY <1>3 DEF IsRead
<1>5. Reading(doc)[n]["value"][pos] = ParseValue(doc, pos, Reading(doc)[n - 1])
  BY ReadingEquations
<1>7. CASE k = 0
  <2>1. ms = <<>> /\ members = {}
    BY <1>7, EmptySeq DEF MembersOf
  <2>2. len = 0
    BY <1>1, <2>1, NothingSeparated
  <2>3. Peek(doc, pos + 1) = RightBrace
    BY <1>0, <1>4, <2>2
  <2>4. ParseValue(doc, pos, Reading(doc)[n - 1]) = Got(<<"object", {}>>, pos + 2)
    BY <1>0, <1>4, <2>3, Zenon DEF ParseValue, LeftBrace, RightBrace
  <2>5. pos + (len + 2) = pos + 2
    BY <2>2
  <2> QED
    BY <1>5, <2>1, <2>4, <2>5, Zenon
<1>8. CASE k # 0
  <2> HIDE DEF members
  <2>0. k \in Nat \ {0} /\ pos + 1 \in Nat
    BY <1>8
  <2>1. PICK start \in [1..(k + 1) -> Nat] :
          /\ start[1] = pos + 1 /\ start[k + 1] = (pos + 1) + len + 1
          /\ \A i \in 1..k :
                /\ pos + 1 <= start[i] /\ start[i + 1] = start[i] + Len(ms[i]) + 1
                /\ Stands(doc, start[i], ms[i])
                /\ i # k => Peek(doc, start[i] + Len(ms[i])) = Comma
    <3>1. PICK p \in Nat : p = pos + 1
      BY <2>0
    <3>2. Stands(doc, p, Separated(ms)) /\ Len(ms) = k
      BY <1>1, <1>4, <3>1
    <3>3. \E start : StandSeparated(doc, start, ms, k, p, p + Len(Separated(ms)) + 1)
      BY <2>0, <3>2, SeparatedStands
    <3> QED
      BY <1>1, <3>1, <3>3 DEF StandSeparated
  <2>2. ASSUME NEW i \in 1..k
        PROVE  /\ MemberStands(doc, writer, start[i], keys[i], ts[i], vs[i], start[i + 1])
               /\ Peek(doc, start[i + 1] - 1) = IF i = k THEN RightBrace ELSE Comma
    <3>1. PICK a \in Nat \ {0}, b \in Nat : a = start[i] /\ b = start[i + 1]
      <4>1. i \in 1..(k + 1) /\ i + 1 \in 1..(k + 1)
        BY <2>0
      <4>2. start[i] \in Nat /\ start[i + 1] \in Nat
        BY <4>1
      <4>3. PICK a \in Nat, b \in Nat : a = start[i] /\ b = start[i + 1]
        BY <4>2, Zenon
      <4>4. pos + 1 <= a
        BY <2>1, <4>3
      <4>5. a \in Nat \ {0}
        BY <4>4
      <4> QED
        BY <4>3, <4>5, Zenon
    <3>0. PICK v : v = vs[i]
      OBVIOUS
    <3>2. PICK t \in Seq(Units), key \in Seq(Contents) :
            t = ts[i] /\ key = keys[i] /\ v = vs[i] /\ Readable(t, v)
      BY <3>0
    <3>3. PICK m \in Nat : /\ m = Len(Member(key, t, writer)) /\ b = a + m + 1
                           /\ Stands(doc, a, Member(key, t, writer))
                           /\ i # k => Peek(doc, a + m) = Comma
      <4>1. ms[i] = Member(key, t, writer)
        BY <3>2
      <4>2. Len(Member(key, t, writer)) \in Nat
        BY MemberParts
      <4> QED
        BY <2>1, <3>1, <4>1, <4>2
    <3>7. Peek(doc, b - 1) = IF i = k THEN RightBrace ELSE Comma
      <4>1. CASE i = k
        <5>1. b = (pos + 1) + len + 1
          BY <2>1, <3>1, <4>1
        <5>2. b - 1 = pos + 1 + len
          BY <5>1
        <5> QED
          BY <1>0, <1>4, <4>1, <5>2
      <4>2. CASE i # k
        <5>1. Peek(doc, a + m) = Comma
          BY <3>3, <4>2
        <5>2. b - 1 = a + m
          BY <3>3
        <5> QED
          BY <4>2, <5>1, <5>2
      <4> QED
        BY <4>1, <4>2
    <3>8. MemberStands(doc, writer, a, key, t, v, b)
      <4>1. MemberEnds(doc, writer, a, key, t, b)
        BY <3>3, <3>7 DEF MemberEnds
      <4> QED
        BY <3>2, <3>3, <4>1, MemberIsPlaced
    <3> QED
      BY <3>1, <3>2, <3>7, <3>8
  <2>3. Reads("members", doc, start[1], start[k + 1], <<"object", members>>)
    <3>1. MembersStand(doc, writer, start, keys, ts, vs, k)
      BY <2>2 DEF MembersStand
    <3> QED
      BY <2>0, <3>1, MembersAreRead DEF members
  <2>4. n - 1 \in 1..(Len(doc) + 1) /\ ((pos + 1) + len + 1) - (pos + 1) <= n - 1
    OBVIOUS
  <2>5. Reading(doc)[n - 1]["members"][pos + 1] = Got(<<"object", members>>, (pos + 1) + len + 1)
    BY <2>1, <2>3, <2>4 DEF Reads
  <2>6. Peek(doc, pos + 1) = Quote
    <3>1. PICK i \in 1..k : i = 1
      BY <2>0, FirstAndLast, Zenon
    <3>2. PICK m \in Seq(Units) : m = ms[i] /\ Len(m) \in Nat \ {0} /\ m[1] = Quote
      <4>1. PICK t \in Seq(Units), key \in Seq(Contents) : t = ts[i] /\ key = keys[i]
        OBVIOUS
      <4>2. ms[i] = Member(key, t, writer)
        BY <4>1
      <4>3. Member(key, t, writer) \in Seq(Units) /\ Len(Member(key, t, writer)) \in Nat \ {0}
            /\ Member(key, t, writer)[1] = Quote
        BY MemberParts
      <4> QED
        BY <4>2, <4>3
    <3>3. Stands(doc, pos + 1, m)
      BY <2>1, <3>1, <3>2
    <3> QED
      BY <2>0, <3>2, <3>3, StandsInside
  <2>7. ParseValue(doc, pos, Reading(doc)[n - 1]) = Reading(doc)[n - 1]["members"][pos + 1]
    BY <1>0, <1>4, <2>6, MarksAreDifferent, Zenon DEF ParseValue, LeftBrace, RightBrace, Quote
  <2>8. (pos + 1) + len + 1 = pos + (len + 2)
    OBVIOUS
  <2> QED
    BY <1>5, <2>5, <2>7, <2>8
<1> QED
  BY <1>7, <1>8

(* The texts of arrays and objects, as Texts has them.                     *)
TextsOfArray(vs, inside) ==
    {<<"[">> \o Separated(list) \o <<"]">> : list \in OneOfEach([i \in DOMAIN vs |-> inside[vs[i]]])}

MembersInOrder(order, inside, writer) ==
    OneOfEach([i \in DOMAIN order |->
        {Member(order[i][1], text, writer) : text \in inside[order[i][2]]}])

TextsOfObject(members, inside, writer) ==
    UNION {{<<LeftBrace>> \o Separated(list) \o <<RightBrace>> :
              list \in MembersInOrder(order, inside, writer)} : order \in SetToSeqs(members)}

LEMMA TextsOfLeaf ==
    ASSUME NEW v, NEW inside, NEW writer
    PROVE  /\ v[1] = "null" => Texts(v, inside, writer) = {<<"null">>}
           /\ v[1] = "bool" => Texts(v, inside, writer) = {IF v[2] THEN <<"true">> ELSE <<"false">>}
           /\ v[1] = "number" => Texts(v, inside, writer) = {v[2]}
           /\ v[1] = "string" => Texts(v, inside, writer) = {Quoted(v[2], writer)}
<1>1. v[1] = "null" => Texts(v, inside, writer) = {<<"null">>}
  BY Zenon DEF Texts
<1>2. v[1] = "bool" => Texts(v, inside, writer) = {IF v[2] THEN <<"true">> ELSE <<"false">>}
  BY Zenon DEF Texts
<1>3. v[1] = "number" => Texts(v, inside, writer) = {v[2]}
  BY Zenon DEF Texts
<1>4. v[1] = "string" => Texts(v, inside, writer) = {Quoted(v[2], writer)}
  BY Zenon DEF Texts
<1> QED
  BY <1>1, <1>2, <1>3, <1>4, Zenon

LEMMA TextsOfNested ==
    ASSUME NEW v, NEW inside, NEW writer
    PROVE  /\ v[1] = "array" => Texts(v, inside, writer) = TextsOfArray(v[2], inside)
           /\ v[1] = "object" => Texts(v, inside, writer) = TextsOfObject(v[2], inside, writer)
<1>1. v[1] = "array" => Texts(v, inside, writer) = TextsOfArray(v[2], inside)
  BY Zenon DEF Texts, TextsOfArray
<1>2. v[1] = "object" => Texts(v, inside, writer) = TextsOfObject(v[2], inside, writer)
  BY Zenon DEF Texts, TextsOfObject, MembersInOrder, LeftBrace, RightBrace
<1> QED
  BY <1>1, <1>2, Zenon

(* Any sequence of units, quoted, is read as the string it is.             *)
LEMMA StringIsReadable ==
    ASSUME NEW s \in Seq(Contents), NEW writer
    PROVE  Readable(Quoted(s, writer), <<"string", s>>)
<1>1. PICK q \in Seq(Units) : q = Quoted(s, writer) /\ q[1] = Quote
  BY QuotedParts, Zenon DEF Quote
<1>2. Len(q) \in Nat \ {0}
  BY <1>1, QuotedLength
<1>3. Quote # "]"
  BY Zenon DEF Quote
<1>4. ASSUME NEW doc \in Seq(Units), NEW pos \in Nat, Stands(doc, pos, q)
      PROVE  IsRead(doc, pos, q, <<"string", s>>)
  BY <1>1, <1>4, StringValueIsRead, Zenon
<1> QED
  BY <1>1, <1>2, <1>3, <1>4 DEF Readable

LEMMA LeavesAreReadable ==
    ASSUME NEW v \in Leaves, NEW inside, NEW writer, NEW t \in Texts(v, inside, writer)
    PROVE  Readable(t, v)
<1>1. CASE v = <<"null">>
  <2>1. t = <<"null">>
    <3>1. v[1] = "null"
      BY <1>1
    <3> QED
      BY <3>1, TextsOfLeaf
  <2>2. t \in Seq(Units) /\ Len(t) = 1 /\ t[1] = "null"
    <3>1. PICK c \in Units : c = "null"
      BY DEF Units, Words
    <3> QED
      BY <2>1, <3>1, OneUnit
  <2>3. ASSUME NEW doc \in Seq(Units), NEW pos \in Nat, Stands(doc, pos, t)
        PROVE  IsRead(doc, pos, t, v)
    BY <1>1, <2>1, <2>3, WordIsRead, Zenon
  <2> QED
    BY <2>2, <2>3 DEF Readable
<1>2. CASE v \in {"bool"} \X BOOLEAN
  <2>1. PICK b \in BOOLEAN : v = <<"bool", b>> /\ v[1] = "bool" /\ v[2] = b
    BY <1>2
  <2>2. PICK word \in {"true", "false"} : t = <<word>> /\ b = (word = "true")
    <3>1. t = IF b THEN <<"true">> ELSE <<"false">>
      BY <2>1, TextsOfLeaf
    <3> QED
      BY <3>1
  <2>3. t \in Seq(Units) /\ Len(t) = 1 /\ t[1] = word
    <3>1. word \in Units
      BY DEF Units, Words
    <3> QED
      BY <2>2, <3>1, OneUnit
  <2>4. v = <<"bool", word = "true">>
    BY <2>1, <2>2
  <2>5. ASSUME NEW doc \in Seq(Units), NEW pos \in Nat, Stands(doc, pos, t)
        PROVE  IsRead(doc, pos, t, v)
    BY <2>2, <2>4, <2>5, WordIsRead, Zenon
  <2> QED
    BY <2>3, <2>5 DEF Readable
<1>3. CASE v \in {"number"} \X Numerals
  <2>1. PICK s \in Numerals : v = <<"number", s>> /\ v[1] = "number" /\ v[2] = s
    BY <1>3
  <2>2. t = s
    BY <2>1, TextsOfLeaf
  <2>3. t \in Seq(Units) /\ Len(t) \in Nat \ {0} /\ t[1] # "]"
    <3>1. t \in Seq(Units) /\ Len(t) \in Nat \ {0} /\ t[1] \in Digits \cup {"-"}
      BY <2>2, NumeralParts
    <3> QED
      BY <3>1 DEF Digits
  <2>4. ASSUME NEW doc \in Seq(Units), NEW pos \in Nat \ {0}, Stands(doc, pos, t),
               Peek(doc, pos + Len(t)) \notin Digits
        PROVE  IsRead(doc, pos, t, v)
    BY <2>1, <2>2, <2>4, NumberIsRead
  <2> QED
    BY <2>3, <2>4 DEF Readable
<1>4. CASE v \in {"string"} \X Seq(Characters)
  <2>1. PICK s \in Seq(Contents) : v = <<"string", s>> /\ v[1] = "string" /\ v[2] = s
    <3>1. Characters \subseteq Contents
      BY DEF Contents
    <3> QED
      BY <1>4, <3>1
  <2>2. t = Quoted(s, writer)
    BY <2>1, TextsOfLeaf
  <2> QED
    BY <2>1, <2>2, StringIsReadable
<1> QED
  BY <1>1, <1>2, <1>3, <1>4 DEF Leaves

(* Whatever is written of these values is readable.                        *)
AllReadable(V, inside) == \A v \in V : \A t \in inside[v] : Readable(t, v)

LEMMA ListOfOneEach ==
    ASSUME NEW k \in Nat, NEW sets, DOMAIN sets = 1..k, NEW list \in OneOfEach(sets)
    PROVE  /\ DOMAIN list = 1..k /\ list = [i \in 1..k |-> list[i]]
           /\ \A i \in 1..k : list[i] \in sets[i]
BY DEF OneOfEach

LEMMA ArraysAreReadable ==
    ASSUME NEW V, NEW vs \in Seq(V), NEW inside, AllReadable(V, inside),
           NEW t \in TextsOfArray(vs, inside)
    PROVE  Readable(t, <<"array", vs>>)
<1> DEFINE sets == [i \in DOMAIN vs |-> inside[vs[i]]]
<1>1. PICK list \in OneOfEach(sets) : t = <<"[">> \o Separated(list) \o <<"]">>
  BY DEF TextsOfArray
<1>2. PICK k \in Nat : k = Len(vs) /\ DOMAIN vs = 1..k
  OBVIOUS
<1>3. DOMAIN list = 1..k /\ list = [i \in 1..k |-> list[i]] /\ \A i \in 1..k : list[i] \in inside[vs[i]]
  <2>1. DOMAIN sets = 1..k /\ \A i \in 1..k : sets[i] = inside[vs[i]]
    BY <1>2
  <2> HIDE DEF sets
  <2>2. /\ DOMAIN list = 1..k /\ list = [i \in 1..k |-> list[i]]
        /\ \A i \in 1..k : list[i] \in sets[i]
    BY <2>1, ListOfOneEach
  <2> QED
    BY <2>1, <2>2
<1> HIDE DEF sets
<1>4. \A i \in 1..k : Readable(list[i], vs[i])
  <2> SUFFICES ASSUME NEW i \in 1..k PROVE Readable(list[i], vs[i])
    OBVIOUS
  <2>1. vs[i] \in V
    BY <1>2
  <2> QED
    BY <1>3, <2>1 DEF AllReadable
<1>5. list \in Seq(Seq(Units)) /\ Len(list) = k
  <2>1. \A i \in 1..k : list[i] \in Seq(Units)
    BY <1>4 DEF Readable
  <2>2. list \in [1..k -> Seq(Units)]
    BY <1>3, <2>1
  <2> QED
    BY <2>2, FunctionIsASequence
<1>6. Enclosed(t, "[", Separated(list), "]")
  BY <1>1 DEF Enclosed
<1> QED
  BY <1>2, <1>4, <1>5, <1>6, ArrayIsReadable

(* An order has every member once.                                         *)
LEMMA OrdersAreComplete ==
    ASSUME NEW S, IsFiniteSet(S), NEW order \in SetToSeqs(S)
    PROVE  \E k \in Nat : /\ order \in [1..k -> S]
                          /\ \A i, j \in 1..k : i # j => order[i] # order[j]
                          /\ \A m \in S : \E i \in 1..k : order[i] = m
<1>1. PICK k \in Nat : k = Cardinality(S)
  BY FS_CardinalityType
<1>2. order \in [1..k -> S] /\ \A i, j \in 1..k : i # j => order[i] # order[j]
  BY <1>1 DEF SetToSeqs
<1>3. order \in Injection(1..k, S)
  BY <1>2 DEF Injection, IsInjective
<1>4. Cardinality(1..k) = k
  BY FS_Interval
<1>5. order \in Surjection(1..k, S)
  BY <1>1, <1>3, <1>4, FS_Injection
<1>6. \A m \in S : \E i \in 1..k : order[i] = m
  BY <1>5 DEF Surjection
<1> QED
  BY <1>2, <1>6

LEMMA ObjectMembers ==
    ASSUME NEW V, NEW members \in Objects(V)
    PROVE  /\ IsFiniteSet(members) /\ members \subseteq Seq(Characters) \X V
           /\ \A m1, m2 \in members : m1[1] = m2[1] => m1 = m2
BY DEF Objects

LEMMA ObjectsAreReadable ==
    ASSUME NEW V, NEW members \in Objects(V), NEW inside, NEW writer, AllReadable(V, inside),
           NEW t \in TextsOfObject(members, inside, writer)
    PROVE  Readable(t, <<"object", members>>)
<1>1. PICK order \in SetToSeqs(members) :
         \E list \in MembersInOrder(order, inside, writer) :
            t = <<LeftBrace>> \o Separated(list) \o <<RightBrace>>
  BY Zenon DEF TextsOfObject
<1>2. PICK list \in MembersInOrder(order, inside, writer) :
            Enclosed(t, LeftBrace, Separated(list), RightBrace)
  BY <1>1, Zenon DEF Enclosed
<1>3. PICK k \in Nat : /\ order \in [1..k -> members]
                       /\ \A i, j \in 1..k : i # j => order[i] # order[j]
                       /\ \A m \in members : \E i \in 1..k : order[i] = m
  BY ObjectMembers, OrdersAreComplete
<1>4. PICK keys, vs : /\ keys = [i \in 1..k |-> order[i][1]] /\ vs = [i \in 1..k |-> order[i][2]]
  OBVIOUS
<1>5. \A i \in 1..k : keys[i] \in Seq(Contents) /\ vs[i] \in V /\ order[i] = <<keys[i], vs[i]>>
  <2>1. Characters \subseteq Contents
    BY DEF Contents
  <2> QED
    BY <1>3, <1>4, <2>1, ObjectMembers
<1>6. AllDifferent(keys, k)
  BY <1>3, <1>4, ObjectMembers DEF AllDifferent
<1>7. MembersOf(keys, vs, k) = members
  <2>1. MembersOf(keys, vs, k) \subseteq members
    <3> SUFFICES ASSUME NEW j \in 1..k PROVE <<keys[j], vs[j]>> \in members
      BY DEF MembersOf
    <3>1. order[j] \in members /\ order[j] = <<keys[j], vs[j]>>
      BY <1>3, <1>5
    <3> QED
      BY <3>1
  <2>2. ASSUME NEW m \in members PROVE m \in MembersOf(keys, vs, k)
    <3>1. PICK j \in 1..k : order[j] = m
      BY <1>3
    <3>2. m = <<keys[j], vs[j]>>
      BY <1>5, <3>1
    <3> QED
      BY <3>2, Zenon DEF MembersOf
  <2> QED
    BY <2>1, <2>2, Zenon
<1>8. /\ DOMAIN list = 1..k /\ list = [i \in 1..k |-> list[i]]
      /\ \A i \in 1..k : list[i] \in {Member(keys[i], text, writer) : text \in inside[vs[i]]}
  <2> DEFINE sets == [i \in DOMAIN order |->
                        {Member(order[i][1], text, writer) : text \in inside[order[i][2]]}]
  <2>1. /\ DOMAIN sets = 1..k
        /\ \A i \in 1..k : sets[i] = {Member(keys[i], text, writer) : text \in inside[vs[i]]}
    BY <1>3, <1>4
  <2>2. list \in OneOfEach(sets)
    BY DEF MembersInOrder
  <2> HIDE DEF sets
  <2>3. /\ DOMAIN list = 1..k /\ list = [i \in 1..k |-> list[i]]
        /\ \A i \in 1..k : list[i] \in sets[i]
    BY <2>1, <2>2, ListOfOneEach
  <2> QED
    BY <2>1, <2>3
<1>9. PICK ts : /\ ts = [i \in 1..k |-> CHOOSE text \in inside[vs[i]] :
                                           list[i] = Member(keys[i], text, writer)]
  OBVIOUS
<1>10. \A i \in 1..k : ts[i] \in inside[vs[i]] /\ list[i] = Member(keys[i], ts[i], writer)
  BY <1>8, <1>9
<1>11. \A i \in 1..k : Readable(ts[i], vs[i]) /\ ts[i] \in Seq(Units)
  BY <1>5, <1>10 DEF AllReadable, Readable
<1>12. keys \in [1..k -> Seq(Contents)] /\ ts \in [1..k -> Seq(Units)]
  BY <1>4, <1>5, <1>9, <1>11
<1>13. list \in Seq(Seq(Units)) /\ Len(list) = k
  <2>1. \A i \in 1..k : list[i] \in Seq(Units)
    BY <1>10, <1>12, MemberParts
  <2>2. list \in [1..k -> Seq(Units)]
    BY <1>8, <2>1
  <2> QED
    BY <2>2, FunctionIsASequence
<1> QED
  BY <1>2, <1>6, <1>7, <1>10, <1>11, <1>12, <1>13, ObjectIsReadable

LEMMA NestedAreReadable ==
    ASSUME NEW n \in Nat, NEW V, NEW v \in Nested(n, V), NEW inside, NEW writer,
           n # 0 => AllReadable(V, inside),
           NEW t \in Texts(v, IF n = 0 THEN <<>> ELSE inside, writer)
    PROVE  Readable(t, v)
<1>1. CASE v \in Leaves
  BY <1>1, LeavesAreReadable
<1>2. CASE n # 0 /\ v \in {"array"} \X Seq(V)
  <2>1. PICK vs \in Seq(V) : v = <<"array", vs>> /\ v[1] = "array" /\ v[2] = vs
    BY <1>2
  <2>2. t \in TextsOfArray(vs, inside)
    BY <1>2, <2>1, TextsOfNested
  <2> QED
    BY <1>2, <2>1, <2>2, ArraysAreReadable
<1>3. CASE n # 0 /\ v \in {"object"} \X Objects(V)
  <2>1. PICK members \in Objects(V) : v = <<"object", members>> /\ v[1] = "object" /\ v[2] = members
    BY <1>3
  <2>2. t \in TextsOfObject(members, inside, writer)
    BY <1>3, <2>1, TextsOfNested
  <2> QED
    BY <1>3, <2>1, <2>2, ObjectsAreReadable
<1> QED
  BY <1>1, <1>2, <1>3 DEF Nested

(* Every value of every depth: by induction over the depth.                *)
LEMMA SerializedIsReadable ==
    ASSUME NEW writer, NEW v \in JsonValues[Depth], NEW t \in Serialize(v, writer)
    PROVE  Readable(t, v)
<1>1. PICK W : /\ \A u : Serialize(u, writer) = W[Depth][u]
               /\ \A n \in 0..Depth : \A u \in JsonValues[n] :
                     W[n][u] = Texts(u, IF n = 0 THEN <<>> ELSE W[n - 1], writer)
  BY SerializeEquation
<1> DEFINE S == {n \in Nat : n <= Depth => AllReadable(JsonValues[n], W[n])}
<1>2. ASSUME NEW n \in Nat, n <= Depth, n # 0 => AllReadable(JsonValues[n - 1], W[n - 1])
      PROVE  AllReadable(JsonValues[n], W[n])
  <2> SUFFICES ASSUME NEW u \in JsonValues[n], NEW s \in W[n][u] PROVE Readable(s, u)
    BY DEF AllReadable
  <2>1. n \in 0..Depth
    BY <1>2, DepthAssumption
  <2>2. u \in Nested(n, JsonValues[n - 1])
    BY <2>1, JsonValuesEquation
  <2>3. s \in Texts(u, IF n = 0 THEN <<>> ELSE W[n - 1], writer)
    BY <1>1, <2>1
  <2> QED
    BY <1>2, <2>2, <2>3, NestedAreReadable
<1>3. 0 \in S
  BY <1>2
<1>4. ASSUME NEW n \in S PROVE n + 1 \in S
  <2>1. CASE n + 1 <= Depth
    <3>1. n <= Depth /\ (n + 1) - 1 = n
      BY <2>1, DepthAssumption
    <3>2. AllReadable(JsonValues[(n + 1) - 1], W[(n + 1) - 1])
      BY <3>1
    <3>3. AllReadable(JsonValues[n + 1], W[n + 1])
      BY <1>2, <2>1, <3>2
    <3> QED
      BY <3>3
  <2> QED
    BY <2>1
<1> HIDE DEF S
<1>5. Depth \in S
  <2>1. S = Nat \/ Nat \subseteq S
    BY <1>3, <1>4, SetInduction
  <2> QED
    BY <2>1, DepthAssumption
<1>6. AllReadable(JsonValues[Depth], W[Depth])
  BY <1>5, DepthAssumption DEF S
<1> QED
  BY <1>1, <1>6 DEF AllReadable

LEMMA ReadableIsRead ==
    ASSUME NEW t, NEW v, Readable(t, v)
    PROVE  Parse(t) = v
<1>1. PICK k \in Nat \ {0} : k = Len(t)
  BY DEF Readable
<1>2. t \in Seq(Units)
  BY DEF Readable
<1>3. Stands(t, 1, t)
  <2>1. ASSUME NEW i \in 1..k PROVE Peek(t, 1 + i - 1) = t[i]
    <3>1. 1 + i - 1 = i /\ i <= Len(t)
      BY <1>1
    <3> QED
      BY <3>1 DEF Peek
  <2> QED
    BY <1>1, <2>1 DEF Stands
<1>4. Peek(t, 1 + Len(t)) \notin Digits
  <2>1. Peek(t, 1 + Len(t)) = "end"
    BY <1>1 DEF Peek
  <2> QED
    BY <2>1 DEF Digits
<1>5. IsRead(t, 1, t, v)
  BY <1>2, <1>3, <1>4 DEF Readable
<1>6. Reading(t)[k + 1]["value"][1] = Got(v, 1 + k)
  <2>1. k + 1 \in 1..(Len(t) + 1) /\ Len(t) <= k + 1
    BY <1>1
  <2> QED
    BY <1>1, <1>5, <2>1 DEF IsRead
<1> QED
  BY <1>1, <1>6 DEF Parse, Got

(* What json.cpp or the front end writes of a value is parsed as that      *)
(* value.                                                                  *)
THEOREM WrittenIsRead ==
    ASSUME NEW writer, NEW v \in JsonValues[Depth], NEW t \in Serialize(v, writer)
    PROVE  t \in Seq(Units) /\ Parse(t) = v
<1>1. t \in Seq(Units) /\ Readable(t, v)
  BY SerializedIsReadable DEF Readable
<1> QED
  BY <1>1, ReadableIsRead
=============================================================================
