------------------------- MODULE RequestPathProofs --------------------------
(***************************************************************************)
(* A payload that is not cut is read as it was meant, for any characters,  *)
(* any values and any action.                                              *)
(***************************************************************************)
EXTENDS RequestPath, JsonProofs

LEMMA TwoOfThem ==
    ASSUME NEW U, NEW a \in U, NEW b \in U, NEW s, s = <<a, b>>
    PROVE  /\ s \in Seq(U) /\ Len(s) = 2 /\ s[1] = a /\ s[2] = b
           /\ s \in [1..2 -> U] /\ \A i \in 1..2 : i = 1 \/ i = 2
OBVIOUS

(* A string without halves is taken as it is; a text has none.             *)
LEMMA WholeIsTaken ==
    ASSUME NEW U, U \cap Halves = {}, NEW s \in Seq(U)
    PROVE  Wide(s) = s
<1>1. \A i \in DOMAIN s : s[i] \notin Halves
  OBVIOUS
<1>2. Wide(s) = [i \in DOMAIN s |-> s[i]]
  BY <1>1 DEF Wide
<1> QED
  BY <1>2

LEMMA TextsAreTaken ==
    ASSUME NEW t \in Seq(Units)
    PROVE  Wide(t) = t
<1>1. Halves \subseteq DOMAIN Code
  BY DEF Halves, Code
<1> QED
  BY <1>1, UnitsAreNotCoded, WholeIsTaken

LEMMA ActionIsTaken == Wide(Action) = Action
BY ActionAssumption, WholeIsTaken

(* StringMember finds the string of a key that only one member has.        *)
LEMMA StringMemberIsFound ==
    ASSUME NEW members, NEW key, NEW s, <<key, <<"string", s>>>> \in members,
           \A m \in members : m[1] = key => m = <<key, <<"string", s>>>>
    PROVE  StringMember(<<"object", members>>, key) = Wide(s)
<1>0. PICK object : object = <<"object", members>> /\ object[2] = members
  <2>1. PICK object : object = <<"object", members>>
    OBVIOUS
  <2> QED
    BY <2>1
<1> DEFINE found == {m \in members : m[1] = key /\ m[2][1] = "string"}
<1>1. PICK m : m = <<key, <<"string", s>>>> /\ m[1] = key /\ m[2][1] = "string" /\ m[2][2] = s
  OBVIOUS
<1>2. m \in found /\ \A o \in found : o = m
  BY <1>1
<1>3. StringMember(object, key) = IF found = {} THEN <<>> ELSE Wide((CHOOSE o \in found : TRUE)[2][2])
  BY <1>0 DEF StringMember
<1> HIDE DEF found
<1>4. (CHOOSE o \in found : TRUE) = m
  BY <1>2
<1> QED
  BY <1>0, <1>1, <1>2, <1>3, <1>4

(* A request is an object of two strings.                                  *)
RequestHas(payload, keys, ts, vs, ms) ==
    /\ keys \in [1..2 -> Seq(Contents)] /\ keys[1] = <<"A">> /\ keys[2] = <<"P">> /\ AllDifferent(keys, 2)
    /\ ts \in [1..2 -> Seq(Units)] /\ ts[1] = Quoted(Action, "ui") /\ ts[2] = Quoted(payload, "ui")
    /\ vs[1] = <<"string", Action>> /\ vs[2] = <<"string", payload>>
    /\ ms \in Seq(Seq(Units)) /\ Len(ms) = 2
    /\ \A i \in 1..2 : Readable(ts[i], vs[i]) /\ ms[i] = Member(keys[i], ts[i], "ui")
    /\ Enclosed(Request(payload), LeftBrace, Separated(ms), RightBrace)

LEMMA RequestParts ==
    ASSUME NEW payload \in Seq(Units)
    PROVE  \E keys, ts, vs, ms : RequestHas(payload, keys, ts, vs, ms)
<1>1. PICK a, p : a = <<"A">> /\ p = <<"P">>
  OBVIOUS
<1>2. /\ Action \in Seq(Contents) /\ payload \in Seq(Contents)
      /\ a \in Seq(Contents) /\ p \in Seq(Contents) /\ a # p
  <2>1. Characters \subseteq Contents /\ Units \subseteq Contents
    BY DEF Contents
  <2>2. {"A", "P"} \subseteq Contents
    BY <2>1, KeysAssumption
  <2> QED
    BY <1>1, <2>1, <2>2, ActionAssumption
<1>3. PICK t1 \in Seq(Units), t2 \in Seq(Units) :
         /\ t1 = Quoted(Action, "ui") /\ Readable(t1, <<"string", Action>>)
         /\ t2 = Quoted(payload, "ui") /\ Readable(t2, <<"string", payload>>)
  BY <1>2, StringIsReadable DEF Readable
<1>4. PICK m1 \in Seq(Units), m2 \in Seq(Units) :
         m1 = Member(a, t1, "ui") /\ m2 = Member(p, t2, "ui")
  BY <1>2, MemberParts
<1>5. PICK keys, ts, vs, ms :
         /\ keys = <<a, p>> /\ ts = <<t1, t2>> /\ ms = <<m1, m2>>
         /\ vs = <<<<"string", Action>>, <<"string", payload>>>>
  OBVIOUS
<1>6. /\ keys \in [1..2 -> Seq(Contents)] /\ keys[1] = a /\ keys[2] = p
      /\ ts \in [1..2 -> Seq(Units)] /\ ts[1] = t1 /\ ts[2] = t2
      /\ ms \in Seq(Seq(Units)) /\ Len(ms) = 2 /\ ms[1] = m1 /\ ms[2] = m2
      /\ vs[1] = <<"string", Action>> /\ vs[2] = <<"string", payload>>
  <2>1. keys \in [1..2 -> Seq(Contents)] /\ keys[1] = a /\ keys[2] = p
    BY <1>2, <1>5, TwoOfThem
  <2>2. ts \in [1..2 -> Seq(Units)] /\ ts[1] = t1 /\ ts[2] = t2
    BY <1>5, TwoOfThem
  <2>3. ms \in Seq(Seq(Units)) /\ Len(ms) = 2 /\ ms[1] = m1 /\ ms[2] = m2
    BY <1>5, TwoOfThem
  <2>4. vs[1] = <<"string", Action>> /\ vs[2] = <<"string", payload>>
    BY <1>5
  <2> QED
    BY <2>1, <2>2, <2>3, <2>4
<1>7. \A i \in 1..2 : i = 1 \/ i = 2
  OBVIOUS
<1>8. AllDifferent(keys, 2)
  BY <1>2, <1>6, <1>7 DEF AllDifferent
<1>9. \A i \in 1..2 : Readable(ts[i], vs[i]) /\ ms[i] = Member(keys[i], ts[i], "ui")
  BY <1>3, <1>4, <1>6, <1>7
<1>10. Enclosed(Request(payload), LeftBrace, Separated(ms), RightBrace)
  BY <1>1, <1>3, <1>4, <1>5, Zenon DEF Request, Enclosed, LeftBrace, RightBrace
<1>11. RequestHas(payload, keys, ts, vs, ms)
  BY <1>1, <1>3, <1>6, <1>8, <1>9, <1>10 DEF RequestHas
<1> QED
  BY <1>11

(* The service finds the action and the payload in a request.              *)
LEMMA RequestIsRead ==
    ASSUME NEW payload \in Seq(Units)
    PROVE  /\ StringMember(Parse(Request(payload)), <<"A">>) = Action
           /\ StringMember(Parse(Request(payload)), <<"P">>) = payload
<1>1. PICK keys, ts, vs, ms : RequestHas(payload, keys, ts, vs, ms)
  BY RequestParts
<1>2. PICK a, p : a = <<"A">> /\ p = <<"P">> /\ a # p
  <2>1. PICK a, p : a = <<"A">> /\ p = <<"P">>
    OBVIOUS
  <2>2. a[1] # p[1]
    BY <2>1
  <2> QED
    BY <2>1, <2>2
<1>3. /\ keys \in [1..2 -> Seq(Contents)] /\ keys[1] = a /\ keys[2] = p /\ AllDifferent(keys, 2)
      /\ ts \in [1..2 -> Seq(Units)] /\ vs[1] = <<"string", Action>> /\ vs[2] = <<"string", payload>>
      /\ ms \in Seq(Seq(Units)) /\ Len(ms) = 2
      /\ \A i \in 1..2 : Readable(ts[i], vs[i]) /\ ms[i] = Member(keys[i], ts[i], "ui")
      /\ Enclosed(Request(payload), LeftBrace, Separated(ms), RightBrace)
  BY <1>1, <1>2 DEF RequestHas
<1> DEFINE members == MembersOf(keys, vs, 2)
<1>4. Parse(Request(payload)) = <<"object", members>>
  <2>1. Readable(Request(payload), <<"object", members>>)
    BY <1>3, ObjectIsReadable
  <2> QED
    BY <2>1, ReadableIsRead
<1>5. \A m : m \in members <=> m = <<a, <<"string", Action>>>> \/ m = <<p, <<"string", payload>>>>
  <2>1. \A m : m \in members <=> \E i \in 1..2 : m = <<keys[i], vs[i]>>
    BY Zenon DEF MembersOf
  <2>2. 1 \in 1..2 /\ 2 \in 1..2 /\ \A i \in 1..2 : i = 1 \/ i = 2
    OBVIOUS
  <2> HIDE DEF members
  <2> QED
    BY <1>3, <2>1, <2>2, Zenon
<1> HIDE DEF members
<1>6. StringMember(<<"object", members>>, a) = Wide(Action)
  <2>1. \A m \in members : m[1] = a => m = <<a, <<"string", Action>>>>
    BY <1>2, <1>5
  <2> QED
    BY <1>5, <2>1, StringMemberIsFound
<1>7. StringMember(<<"object", members>>, p) = Wide(payload)
  <2>1. \A m \in members : m[1] = p => m = <<p, <<"string", payload>>>>
    BY <1>2, <1>5
  <2> QED
    BY <1>5, <2>1, StringMemberIsFound
<1> QED
  BY <1>2, <1>4, <1>6, <1>7, ActionIsTaken, TextsAreTaken
-----------------------------------------------------------------------------
(***************************************************************************)
(* What is on its way at each stage.  Nothing is said of a message that is *)
(* cut.                                                                    *)
(***************************************************************************)
OnItsWay ==
    /\ value \in Values
    /\ stage = "payload" => text \in Serialize(value, "ui")
    /\ stage = "message" => \E payload \in Serialize(value, "ui") : text = Request(payload)
    /\ stage = "received" /\ whole => \E payload \in Serialize(value, "ui") : text = Request(payload)
    /\ stage = "read" /\ whole => action = Action /\ text \in Serialize(value, "ui")
    /\ stage = "done" /\ whole => action = Action /\ result = value
    /\ stage = "taken" /\ whole => action = Action /\ result = Taken(value)

LEMMA ValuesAreRead ==
    ASSUME NEW v \in Values, NEW writer, NEW t \in Serialize(v, writer)
    PROVE  t \in Seq(Units) /\ Parse(t) = v
BY ValuesAssumption, WrittenIsRead

LEMMA InitOnItsWay == Init => OnItsWay
BY DEF Init, OnItsWay

LEMMA NextOnItsWay == OnItsWay /\ [Next]_vars => OnItsWay'
<1> SUFFICES ASSUME OnItsWay, [Next]_vars PROVE OnItsWay'
  OBVIOUS
<1>1. CASE WritePayload
  BY <1>1 DEF OnItsWay, WritePayload
<1>2. CASE WriteRequest
  BY <1>2 DEF OnItsWay, WriteRequest
<1>3. CASE Receive
  BY <1>3 DEF OnItsWay, Receive
<1>4. CASE ReadRequest
  <2>1. ASSUME whole
        PROVE  action' = Action /\ text' \in Serialize(value, "ui")
    <3>1. PICK payload \in Serialize(value, "ui") : text = Request(payload)
      BY <1>4, <2>1 DEF OnItsWay, ReadRequest
    <3>2. payload \in Seq(Units)
      BY ValuesAreRead DEF OnItsWay
    <3>3. action' = StringMember(Parse(text), <<"A">>) /\ text' = StringMember(Parse(text), <<"P">>)
      BY <1>4 DEF ReadRequest
    <3> QED
      BY <3>1, <3>2, <3>3, RequestIsRead
  <2> QED
    BY <1>4, <2>1 DEF OnItsWay, ReadRequest
<1>5. CASE ReadPayload
  <2>1. whole => Parse(text) = value
    BY <1>5, ValuesAreRead DEF OnItsWay, ReadPayload
  <2> QED
    BY <1>5, <2>1 DEF OnItsWay, ReadPayload
<1>6. CASE ReadAgain
  <2>1. whole => result' = value
    <3>1. PICK again \in Serialize(result, "service") : result' = Parse(again)
      BY <1>6 DEF ReadAgain
    <3>2. whole => again \in Serialize(value, "service") /\ value \in Values
      BY <1>6, <3>1 DEF OnItsWay, ReadAgain
    <3> QED
      BY <3>1, <3>2, ValuesAreRead
  <2> QED
    BY <1>6, <2>1 DEF OnItsWay, ReadAgain
<1>7. CASE Take
  BY <1>7 DEF OnItsWay, Take
<1>8. CASE UNCHANGED vars
  BY <1>8 DEF OnItsWay, vars
<1> QED
  BY <1>1, <1>2, <1>3, <1>4, <1>5, <1>6, <1>7, <1>8 DEF Next

(* A payload that comes through whole is read as it was meant              *)
(* (request_from_json, process_request, json::parse), whatever it says and *)
(* in whatever order its members are written, and stays that however often *)
(* the service writes and reads it again; what the handlers get of it      *)
(* (get_str) is what Taken leaves.                                         *)
THEOREM PayloadsAreRead == Spec => []ReadAsMeant
<1>1. Spec => []OnItsWay
  BY InitOnItsWay, NextOnItsWay, PTL DEF Spec
<1>2. OnItsWay => ReadAsMeant
  BY DEF OnItsWay, ReadAsMeant
<1> QED
  BY <1>1, <1>2, PTL
-----------------------------------------------------------------------------
(***************************************************************************)
(* Without halves nothing is lost: by induction over the depth.            *)
(***************************************************************************)
LEMMA NestedIsTaken ==
    ASSUME Halves \cap Characters = {}, NEW n \in Nat, NEW V, NEW v \in Nested(n, V), NEW inside,
           n # 0 => \A u \in V : inside[u] = u
    PROVE  TakenFrom(v, inside) = v
<1>1. CASE v \in {<<"null">>} \cup ({"bool"} \X BOOLEAN) \cup ({"number"} \X Numerals)
  <2>1. v[1] \in {"null", "bool", "number"}
    BY <1>1
  <2> QED
    BY <2>1 DEF TakenFrom
<1>2. CASE v \in {"string"} \X Seq(Characters)
  <2>1. PICK s \in Seq(Characters) : v = <<"string", s>> /\ v[1] = "string" /\ v[2] = s
    BY <1>2
  <2>2. TakenFrom(v, inside) = <<"string", Wide(s)>>
    BY <2>1 DEF TakenFrom
  <2> QED
    BY <2>1, <2>2, WholeIsTaken
<1>3. CASE n # 0 /\ v \in {"array"} \X Seq(V)
  <2>1. PICK vs \in Seq(V) : v = <<"array", vs>> /\ v[1] = "array" /\ v[2] = vs
    BY <1>3
  <2>2. TakenFrom(v, inside) = <<"array", [i \in DOMAIN vs |-> inside[vs[i]]]>>
    BY <2>1 DEF TakenFrom
  <2>3. vs = [i \in DOMAIN vs |-> vs[i]] /\ \A i \in DOMAIN vs : inside[vs[i]] = vs[i]
    BY <1>3
  <2>4. [i \in DOMAIN vs |-> inside[vs[i]]] = vs
    BY <2>3
  <2> QED
    BY <2>1, <2>2, <2>4
<1>4. CASE n # 0 /\ v \in {"object"} \X Objects(V)
  <2>1. PICK members \in Objects(V) : v = <<"object", members>> /\ v[1] = "object" /\ v[2] = members
    BY <1>4
  <2>2. TakenFrom(v, inside) = <<"object", {<<m[1], inside[m[2]]>> : m \in members}>>
    BY <2>1 DEF TakenFrom
  <2>3. \A m \in members : <<m[1], inside[m[2]]>> = m
    BY <1>4, ObjectMembers
  <2>4. {<<m[1], inside[m[2]]>> : m \in members} = members
    BY <2>3
  <2> QED
    BY <2>1, <2>2, <2>4
<1> QED
  BY <1>1, <1>2, <1>3, <1>4 DEF Nested, Leaves

TookAll(f) ==
    f = [n \in 0..Depth |->
            [u \in JsonValues[n] |-> TakenFrom(u, IF n = 0 THEN <<>> ELSE f[n - 1])]]

LEMMA NothingIsLostByTaking ==
    ASSUME Halves \cap Characters = {}, NEW v \in JsonValues[Depth]
    PROVE  Taken(v) = v
<1> DEFINE Same == [n \in 0..Depth |-> [u \in JsonValues[n] |-> u]]
           Took == CHOOSE f : TookAll(f)
<1>1. ASSUME NEW n \in 0..Depth, NEW u \in JsonValues[n], NEW inside,
             n # 0 => \A w \in JsonValues[n - 1] : inside[w] = w
      PROVE  TakenFrom(u, inside) = u
  <2>1. u \in Nested(n, JsonValues[n - 1]) /\ n \in Nat
    BY JsonValuesEquation, DepthAssumption
  <2> QED
    BY <1>1, <2>1, NestedIsTaken
<1>2. TookAll(Same)
  <2>1. ASSUME NEW n \in 0..Depth, NEW u \in JsonValues[n]
        PROVE  TakenFrom(u, IF n = 0 THEN <<>> ELSE Same[n - 1]) = u
    <3>1. n # 0 => n - 1 \in 0..Depth
      BY DepthAssumption
    <3>2. n # 0 => \A w \in JsonValues[n - 1] : Same[n - 1][w] = w
      BY <3>1
    <3> HIDE DEF Same
    <3> QED
      BY <1>1, <3>2
  <2> DEFINE Next1 == [n \in 0..Depth |->
                [u \in JsonValues[n] |-> TakenFrom(u, IF n = 0 THEN <<>> ELSE Same[n - 1])]]
  <2>2. \A n \in 0..Depth : Same[n] = Next1[n]
    BY <2>1
  <2>3. Same = Next1
    BY <2>2
  <2> QED
    BY <2>3 DEF TookAll
<1>3. TookAll(Took)
  <2> HIDE DEF Same
  <2> QED
    BY <1>2
<1>4. Taken(v) = Took[Depth][v]
  BY DEF Taken, TookAll
<1> HIDE DEF Same, Took
<1>5. \A n \in 0..Depth : \A u \in JsonValues[n] :
        Took[n][u] = TakenFrom(u, IF n = 0 THEN <<>> ELSE Took[n - 1])
  BY <1>3 DEF TookAll
<1> DEFINE S == {n \in Nat : n <= Depth => \A u \in JsonValues[n] : Took[n][u] = u}
<1>6. 0 \in S
  BY <1>1, <1>5, DepthAssumption
<1>7. ASSUME NEW n \in Nat, n \in S PROVE n + 1 \in S
  <2> SUFFICES ASSUME n + 1 <= Depth, NEW u \in JsonValues[n + 1] PROVE Took[n + 1][u] = u
    OBVIOUS
  <2>1. n + 1 \in 0..Depth /\ n + 1 # 0 /\ (n + 1) - 1 = n /\ n <= Depth
    BY DepthAssumption
  <2>2. Took[n + 1][u] = TakenFrom(u, Took[n])
    BY <1>5, <2>1
  <2>3. \A w \in JsonValues[n] : Took[n][w] = w
    BY <1>7, <2>1
  <2> QED
    BY <1>1, <2>1, <2>2, <2>3
<1>8. Nat \subseteq S
  BY <1>6, <1>7, SetInduction
<1>9. Took[Depth][v] = v
  BY <1>8, DepthAssumption
<1> QED
  BY <1>4, <1>9

(* Where nobody uses characters beyond 16 bits, what the handlers get      *)
(* (get_str) is what was meant.                                            *)
THEOREM OnlyHalvesAreLost ==
    ASSUME Halves \cap Characters = {}
    PROVE  Spec => [](stage = "taken" /\ whole => action = Action /\ result = value)
<1>1. Spec => []OnItsWay
  BY InitOnItsWay, NextOnItsWay, PTL DEF Spec
<1>2. OnItsWay => (stage = "taken" /\ whole => action = Action /\ result = value)
  BY NothingIsLostByTaking, ValuesAssumption DEF OnItsWay
<1> QED
  BY <1>1, <1>2, PTL
=============================================================================
