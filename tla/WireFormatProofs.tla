-------------------------- MODULE WireFormatProofs --------------------------
(***************************************************************************)
(* No read outside the buffer, for every message, every buffer and every   *)
(* length that may stand in it; and a message is read back from its        *)
(* serialization and from nothing that is longer or shorter.               *)
(***************************************************************************)
EXTENDS WireFormat, ArithmeticProofs

AnyValue == UNION {Values(kind) : kind \in Kinds}

TypeOK ==
  /\ type \in Types
  /\ written \in Samples[type]
  /\ len \in Nat
  /\ i \in Nat
  /\ read \in Seq(AnyValue)
  /\ outcome \in {"running", "Ok", "Err", "panic"}

\* Inductive: the cursor stays inside, and a panic leaves everything as it was.
IInv == TypeOK /\ PanicsOnlyAtKexFollow

-----------------------------------------------------------------------------
\* What the schema and the samples are.

\* The schema of a type is a list of kinds; only KEXINIT has a boolean.
LEMMA SchemaType ==
  ASSUME NEW t \in Types
  PROVE  /\ Schema[t] \in Seq(Kinds)
         /\ \A k \in 1 .. Len(Schema[t]) : Schema[t][k] = "bool" => t = "KEXINIT"
<1>1. CASE t = "KEXINIT"
  BY <1>1 DEF Schema, Kinds, FixedKinds
<1>2. CASE t = "NEWKEYS"
  BY <1>2 DEF Schema, Kinds, FixedKinds
<1>3. CASE t = "DISCONNECT"
  BY <1>3 DEF Schema, Kinds, FixedKinds
<1>4. CASE t = "KEXDH_INIT"
  BY <1>4 DEF Schema, Kinds, FixedKinds
<1>5. CASE t = "KEXDH_REPLY"
  BY <1>5 DEF Schema, Kinds, FixedKinds
<1>6. CASE t = "KEY_BLOB"
  BY <1>6 DEF Schema, Kinds, FixedKinds
<1>7. CASE t = "SIGNATURE_BLOB"
  BY <1>7 DEF Schema, Kinds, FixedKinds
<1> QED BY <1>1, <1>2, <1>3, <1>4, <1>5, <1>6, <1>7 DEF Types, Schema

\* Kinds of fixed width have a width.
LEMMA FixedType == \A kind \in FixedKinds : Fixed(kind) \in Nat /\ Fixed(kind) > 0
BY DEF Fixed, FixedKinds

\* Zero may be read.
LEMMA ZeroIsAValue == 0 \in AnyValue
<1>1. "bool" \in Kinds /\ Values("bool") = Nat
  BY DEF Kinds, FixedKinds, Values
<1> QED BY <1>1 DEF AnyValue

\* The content of a field with a length has a size.
LEMMA ContentType ==
  ASSUME NEW kind \in Kinds, NEW v \in Values(kind)
  PROVE  kind \notin FixedKinds => Content(kind, v) \in Nat
<1>1. CASE kind = "names"
  <2>1. v \in [names : Nat, letters : Nat, empty : BOOLEAN]
    BY <1>1 DEF Values
  <2> QED BY <1>1, <2>1 DEF Content
<1>2. CASE kind = "mpint"
  <2>1. v \in [bytes : Nat, high : BOOLEAN]
    BY <1>2 DEF Values
  <2> QED BY <1>2, <2>1 DEF Content
<1>3. CASE kind \in {"algorithm", "key", "signature", "string", "text"}
  BY <1>3 DEF Values, Content
<1> QED BY <1>1, <1>2, <1>3 DEF Kinds

\* A value as it is read back is a value.
LEMMA CanonicalType ==
  ASSUME NEW kind \in Kinds, NEW v \in Values(kind)
  PROVE  Canonical(kind, v) \in AnyValue
<1>1. CASE kind = "names"
  <2>1. [names |-> 0, letters |-> 0, empty |-> FALSE] \in Values(kind)
    BY <1>1 DEF Values
  <2>2. Canonical(kind, v) \in Values(kind)
    BY <2>1 DEF Canonical
  <2> QED BY <2>2 DEF AnyValue
<1>2. CASE kind # "names"
  BY <1>2 DEF Canonical, AnyValue
<1> QED BY <1>1, <1>2

\* The field that is next, and its value in the message that was serialized.
LEMMA NextField ==
  ASSUME TypeOK, next <= Len(Schema[type])
  PROVE  /\ next \in 1 .. Len(Schema[type])
         /\ Kind \in Kinds
         /\ written[next] \in Values(Kind)
         /\ Kind = "bool" => type = "KEXINIT"
<1>1. Len(read) \in Nat
  BY DEF TypeOK
<1>2. Schema[type] \in Seq(Kinds)
  BY SchemaType DEF TypeOK
<1>3. next \in 1 .. Len(Schema[type])
  BY <1>1, <1>2 DEF next
<1>4. Kind \in Kinds
  BY <1>2, <1>3 DEF Kind
<1>5. Kind = "bool" => type = "KEXINIT"
  BY <1>3, SchemaType DEF Kind, TypeOK
<1>6. \A m \in Samples[type] : \A k \in DOMAIN m : m[k] \in Values(Schema[type][k])
  BY WireAssumption DEF TypeOK
<1>7. \A m \in Samples[type] : DOMAIN m = 1 .. Len(Schema[type])
  BY WireAssumption DEF TypeOK
<1>8. written[next] \in Values(Kind)
  BY <1>3, <1>6, <1>7 DEF Kind, TypeOK
<1> QED BY <1>3, <1>4, <1>5, <1>8

-----------------------------------------------------------------------------
\* The steps.

\* A field that passed the tests of its length ends inside the buffer.
LEMMA StillFits ==
  ASSUME NEW a \in Nat, NEW b \in Nat, NEW d \in Nat
  PROVE  /\ b - a \in Int
         /\ a + 4 <= b /\ (d = 0 \/ d + 4 <= b - a) => a + 4 + d <= b
OBVIOUS

\* Reading a field of fixed width keeps IInv.
LEMMA ReadFixedStep ==
  ASSUME IInv, outcome = "running", next <= Len(Schema[type]), ReadFixed
  PROVE  IInv'
<1> USE DEF IInv
<1>1. /\ Kind \in Kinds
      /\ written[next] \in Values(Kind)
      /\ Kind = "bool" => type = "KEXINIT"
  BY NextField
<1>2. i \in Nat /\ len \in Nat /\ i <= len
  BY DEF TypeOK, PanicsOnlyAtKexFollow
<1>3. Fixed(Kind) \in Nat
  BY FixedType DEF ReadFixed
<1>4. CASE PanicsAt /\ Panic
  <2>1. i = len /\ Kind = "bool"
    BY <1>2, <1>4 DEF PanicsAt
  <2>2. UNCHANGED <<buffer, aligned, i, read>> /\ outcome' = "panic"
    BY <1>4 DEF Panic
  <2> QED BY <1>1, <2>1, <2>2 DEF TypeOK, PanicsOnlyAtKexFollow, buffer, Kind, next
<1>5. CASE Fail
  BY <1>5 DEF Fail, TypeOK, PanicsOnlyAtKexFollow, buffer
<1>6. CASE /\ i + Fixed(Kind) <= len
           /\ i' = i + Fixed(Kind)
           /\ read' = Append(read, IF Intact THEN written[next] ELSE 0)
           /\ UNCHANGED <<buffer, aligned, outcome>>
  <2>1. (IF Intact THEN written[next] ELSE 0) \in AnyValue
    BY <1>1, ZeroIsAValue DEF AnyValue
  <2>2. read' \in Seq(AnyValue)
    BY <1>6, <2>1 DEF TypeOK
  <2>3. i' \in Nat /\ i' <= len'
    BY <1>2, <1>3, <1>6 DEF buffer
  <2>4. outcome' = "running"
    BY <1>6
  <2> QED BY <1>6, <2>2, <2>3, <2>4 DEF TypeOK, PanicsOnlyAtKexFollow, buffer
<1> QED BY <1>4, <1>5, <1>6 DEF ReadFixed

\* Reading a field with a length keeps IInv.
LEMMA ReadSizedStep ==
  ASSUME IInv, outcome = "running", next <= Len(Schema[type]), ReadSized
  PROVE  IInv'
<1> USE DEF IInv
<1>1. /\ Kind \in Kinds
      /\ written[next] \in Values(Kind)
  BY NextField
<1>2. i \in Nat /\ len \in Nat /\ i <= len
  BY DEF TypeOK, PanicsOnlyAtKexFollow
<1>3. CASE Fail
  BY <1>3 DEF Fail, TypeOK, PanicsOnlyAtKexFollow, buffer
<1>4. CASE i + 4 <= len /\ ~Fail
  <2>1. PICK declared \in IF Intact THEN {Content(Kind, written[next])} ELSE AnyLength :
          \/ Fits(declared) /\ i + 4 + declared > len /\ Panic
          \/ /\ i + 4 + declared <= len
             /\ i' = i + 4 + declared
             /\ read' = Append(read, IF Intact THEN Canonical(Kind, written[next]) ELSE 0)
             /\ UNCHANGED <<buffer, outcome>>
    BY <1>2, <1>4 DEF ReadSized
  <2>2. Content(Kind, written[next]) \in Nat
    BY <1>1, ContentType DEF ReadSized
  <2>3. declared \in Nat
    BY <2>1, <2>2, WireAssumption
  <2>4. Fits(declared) => i + 4 + declared <= len
    BY <1>2, <1>4, <2>3, StillFits DEF Fits
  <2>5. i + 4 + declared \in Nat
    BY <1>2, <2>3
  <2>6. ~(Fits(declared) /\ i + 4 + declared > len)
    BY <1>2, <2>4, <2>5
  <2>7. /\ i + 4 + declared <= len
        /\ i' = i + 4 + declared
        /\ read' = Append(read, IF Intact THEN Canonical(Kind, written[next]) ELSE 0)
        /\ UNCHANGED <<buffer, outcome>>
    BY <2>1, <2>6
  <2>8. (IF Intact THEN Canonical(Kind, written[next]) ELSE 0) \in AnyValue
    BY <1>1, CanonicalType, ZeroIsAValue
  <2>9. read' \in Seq(AnyValue)
    BY <2>7, <2>8 DEF TypeOK
  <2>10. i' \in Nat /\ i' <= len' /\ outcome' = "running"
    BY <2>5, <2>7 DEF buffer
  <2> QED BY <2>7, <2>9, <2>10 DEF TypeOK, PanicsOnlyAtKexFollow, buffer
<1> QED BY <1>3, <1>4 DEF ReadSized

\* Every step keeps IInv.
LEMMA Inductive ==
  ASSUME IInv, [Next]_vars
  PROVE  IInv'
<1>1. CASE ReadField
  BY <1>1, ReadFixedStep, ReadSizedStep DEF ReadField
<1>2. CASE Finish
  BY <1>2 DEF Finish, IInv, TypeOK, PanicsOnlyAtKexFollow, buffer
<1>3. CASE UNCHANGED vars
  BY <1>3 DEF vars, IInv, TypeOK, PanicsOnlyAtKexFollow, Kind, next
<1> QED BY <1>1, <1>2, <1>3 DEF Next

-----------------------------------------------------------------------------
\* IInv holds initially.
LEMMA InitHolds == Init => IInv
<1> SUFFICES ASSUME Init
             PROVE  IInv
  OBVIOUS
<1>1. len \in 0 .. (Total(type, written) + Extra)
  BY DEF Init
<1>2. len \in Nat /\ 0 <= len
  BY <1>1
<1> QED BY <1>2 DEF Init, IInv, TypeOK, PanicsOnlyAtKexFollow

\* The cursor stays inside every buffer, whatever bytes are in it and wherever
\* it ends, and the one index out of bounds is KexInit's behind its name lists
\* (every deserialize of messages.rs and kex/mod.rs, from_be_bytes of the blobs).
THEOREM PanicsOnlyAtKexFollowHolds == Spec => []PanicsOnlyAtKexFollow
<1>1. IInv => PanicsOnlyAtKexFollow
  BY DEF IInv
<1> QED BY <1>1, InitHolds, Inductive, PTL DEF Spec

-----------------------------------------------------------------------------
\* Where the fields begin.

\* Fields have a size.
LEMMA SizeType ==
  ASSUME NEW kind \in Kinds, NEW v \in Values(kind)
  PROVE  Size(kind, v) \in Nat
<1>1. CASE kind \in FixedKinds
  BY <1>1, FixedType DEF Size
<1>2. CASE kind \notin FixedKinds
  <2>1. Content(kind, v) \in Nat
    BY <1>2, ContentType
  <2> QED BY <1>2, <2>1 DEF Size
<1> QED BY <1>1, <1>2

\* Every field begins where the one before it ends, and none behind the end of
\* the message.
LEMMA OffsetIs ==
  ASSUME NEW t \in Types, NEW m \in Samples[t]
  PROVE  /\ Offset(t, m)[1] = 0
         /\ \A k \in 1 .. Len(Schema[t]) :
              Offset(t, m)[k + 1] = Offset(t, m)[k] + Size(Schema[t][k], m[k])
         /\ \A k \in 1 .. (Len(Schema[t]) + 1) :
              Offset(t, m)[k] \in Nat /\ Offset(t, m)[k] <= Total(t, m)
<1> DEFINE n == Len(Schema[t])
           size == [k \in 1 .. n |-> Size(Schema[t][k], m[k])]
           Body(g) == [k \in 1 .. (n + 1) |->
                         IF k = 1 THEN 0 ELSE g[k - 1] + Size(Schema[t][k - 1], m[k - 1])]
           O == Offset(t, m)
<1>1. n \in Nat /\ Schema[t] \in Seq(Kinds)
  BY SchemaType
<1>2. \A k \in 1 .. n : Size(Schema[t][k], m[k]) \in Nat
  <2> TAKE k \in 1 .. n
  <2>1. Schema[t][k] \in Kinds
    BY <1>1
  <2>2. m[k] \in Values(Schema[t][k])
    BY WireAssumption
  <2> QED BY <2>1, <2>2, SizeType
<1>3. size \in [1 .. n -> Nat]
  BY <1>2
<1>4. \A k \in 1 .. n : size[k] = Size(Schema[t][k], m[k])
  OBVIOUS
<1>5. O = CHOOSE g : g = Body(g)
  BY DEF Offset
<1> HIDE DEF n, size, O
<1>6. \A k \in 1 .. (n + 1) : k # 1 => k - 1 \in 1 .. n
  BY <1>1
<1>7. PICK f \in [1 .. (n + 1) -> Nat] : AreSums(f, size, n)
  <2>1. n \in Nat
    BY <1>1
  <2>2. size \in [1 .. n -> Nat]
    BY <1>3
  <2> QED
    BY ONLY <2>1, <2>2, SumsExist
<1>8. f = Body(f)
  BY <1>4, <1>6, <1>7 DEF AreSums
<1>9. O = Body(O)
  <2> HIDE DEF Body
  <2> QED BY <1>5, <1>8
<1>10. 1 \in 1 .. (n + 1) /\ O[1] = 0
  BY <1>1, <1>9
<1>11. ASSUME NEW k \in 1 .. n
       PROVE  k + 1 \in 1 .. (n + 1) /\ O[k + 1] = O[k] + size[k]
  <2>1. k + 1 \in 1 .. (n + 1) /\ k + 1 # 1 /\ (k + 1) - 1 = k
    BY <1>1
  <2> QED BY <1>4, <1>9, <2>1
<1>12. \A k \in 1 .. (n + 1) : O[k] \in Nat
  <2> DEFINE S == {d \in Nat : d + 1 \in 1 .. (n + 1) => O[d + 1] \in Nat}
  <2>1. 0 \in S
    BY <1>10
  <2>2. ASSUME NEW d \in Nat, d \in S
        PROVE  d + 1 \in S
    <3> SUFFICES ASSUME (d + 1) + 1 \in 1 .. (n + 1)
                 PROVE  O[(d + 1) + 1] \in Nat
      OBVIOUS
    <3>1. d + 1 \in 1 .. n /\ d + 1 \in 1 .. (n + 1)
      BY <1>1
    <3>2. size[d + 1] \in Nat /\ O[d + 1] \in Nat
      BY <1>3, <2>2, <3>1
    <3> QED BY <1>11, <3>1, <3>2
  <2> HIDE DEF S
  <2>3. \A d \in Nat : d \in S
    BY <2>1, <2>2, SetInduction
  <2> SUFFICES ASSUME NEW k \in 1 .. (n + 1)
               PROVE  O[k] \in Nat
    OBVIOUS
  <2>4. k - 1 \in Nat /\ (k - 1) + 1 = k
    BY <1>1
  <2> QED BY <2>3, <2>4 DEF S
<1>13. O \in [1 .. (n + 1) -> Nat]
  BY <1>9, <1>12
<1>14. \A k \in 1 .. n : O[k] <= O[k + 1]
  <2> TAKE k \in 1 .. n
  <2>1. k \in 1 .. (n + 1) /\ size[k] \in Nat
    BY <1>1, <1>3
  <2> QED BY <1>11, <1>12, <2>1
<1>15. \A k \in 1 .. (n + 1) : O[k] <= O[n + 1]
  <2> HIDE DEF Body
  <2> QED BY <1>1, <1>13, <1>14, SumsGrow
<1> HIDE DEF Body
<1>16. Total(t, m) = O[n + 1]
  BY DEF Total, O, n
<1> QED BY <1>4, <1>10, <1>11, <1>12, <1>15, <1>16 DEF O, n

-----------------------------------------------------------------------------
\* What serialize wrote.

\* Inductive, for a buffer in which nothing was changed: the cursor is where
\* the next field begins, what was read is what was written, and in a buffer
\* that was not cut off or extended the parser stops only at an empty name.
WrittenInv ==
  /\ IInv
  /\ Len(read) <= Len(Schema[type])
  /\ outcome = "Ok" => Len(read) = Len(Schema[type]) /\ i = len
  /\ changed = 0 =>
       /\ aligned
       /\ i = Offset(type, written)[next]
       /\ \A k \in 1 .. Len(read) : read[k] = Canonical(Schema[type][k], written[k])
       /\ len = Total(type, written) /\ outcome \in {"Err", "panic"} => HasEmptyName

\* The field that is next in such a buffer: nothing of it was changed, and the
\* one after it begins where it ends.
LEMMA NextIntact ==
  ASSUME WrittenInv, changed = 0, next <= Len(Schema[type])
  PROVE  /\ Intact
         /\ i \in Nat /\ len \in Nat
         /\ Kind \in Kinds /\ written[next] \in Values(Kind)
         /\ Size(Kind, written[next]) \in Nat
         /\ Offset(type, written)[next + 1] = i + Size(Kind, written[next])
         /\ len = Total(type, written) => i + Size(Kind, written[next]) <= len
<1>1. TypeOK /\ type \in Types /\ written \in Samples[type] /\ i \in Nat /\ len \in Nat
  BY DEF WrittenInv, IInv, TypeOK
<1>2. /\ next \in 1 .. Len(Schema[type])
      /\ Kind \in Kinds
      /\ written[next] \in Values(Kind)
  BY <1>1, NextField
<1>3. Len(Schema[type]) \in Nat
  BY <1>1, SchemaType
<1>4. Intact
  BY <1>2, <1>3 DEF WrittenInv, Intact
<1>5. Size(Kind, written[next]) \in Nat
  BY <1>2, SizeType
<1>6. Offset(type, written)[next + 1] = i + Size(Kind, written[next])
  BY <1>1, <1>2, OffsetIs DEF WrittenInv, Kind
<1>7. next + 1 \in 1 .. (Len(Schema[type]) + 1)
  BY <1>2, <1>3
<1>8. Offset(type, written)[next + 1] <= Total(type, written)
  BY <1>1, <1>7, OffsetIs
<1> QED BY <1>1, <1>2, <1>4, <1>5, <1>6, <1>8

\* A field read from its own bytes.
LEMMA ReadOne ==
  ASSUME WrittenInv, outcome = "running", next <= Len(Schema[type]),
         NEW v, read' = Append(read, v),
         UNCHANGED <<buffer, outcome>>, IInv',
         changed = 0 => /\ aligned'
                        /\ i' = i + Size(Kind, written[next])
                        /\ v = Canonical(Kind, written[next])
  PROVE  WrittenInv'
<1>1. TypeOK /\ read \in Seq(AnyValue) /\ Len(Schema[type]) \in Nat
  <2>1. TypeOK /\ type \in Types /\ read \in Seq(AnyValue)
    BY DEF WrittenInv, IInv, TypeOK
  <2> QED BY <2>1, SchemaType
<1>2. type' = type /\ written' = written /\ changed' = changed /\ len' = len /\ outcome' = "running"
  BY DEF buffer
<1>3. Len(read') = Len(read) + 1 /\ Len(read) \in Nat
  BY <1>1
<1>4. next = Len(read) + 1 /\ next' = next + 1
  BY <1>3 DEF next
<1>5. Len(read') <= Len(Schema[type])
  BY <1>3, <1>4
<1>6. ASSUME changed = 0
      PROVE  /\ aligned'
             /\ i' = Offset(type, written)[next + 1]
             /\ \A k \in 1 .. Len(read') : read'[k] = Canonical(Schema[type][k], written[k])
  <2>1. Offset(type, written)[next + 1] = i + Size(Kind, written[next])
    BY <1>6, NextIntact
  <2>2. \A k \in 1 .. Len(read) : read[k] = Canonical(Schema[type][k], written[k])
    BY <1>6 DEF WrittenInv
  <2>3. v = Canonical(Schema[type][next], written[next])
    BY <1>6 DEF Kind
  <2>4. ASSUME NEW k \in 1 .. Len(read')
        PROVE  read'[k] = Canonical(Schema[type][k], written[k])
    <3>1. CASE k = Len(read) + 1
      <4>1. read'[k] = v
        BY <1>1, <3>1
      <4> QED BY <1>4, <2>3, <3>1, <4>1
    <3>2. CASE k # Len(read) + 1
      <4>1. k \in 1 .. Len(read)
        BY <1>3, <3>2
      <4>2. read'[k] = read[k]
        BY <1>1, <4>1
      <4> QED BY <2>2, <4>1, <4>2
    <3> QED BY <3>1, <3>2
  <2> QED BY <1>6, <2>1, <2>4
<1> QED BY <1>2, <1>4, <1>5, <1>6 DEF WrittenInv

\* Stopping at a field.
LEMMA Stop ==
  ASSUME WrittenInv, IInv', Fail \/ Panic,
         changed = 0 /\ len = Total(type, written) => HasEmptyName
  PROVE  WrittenInv'
<1>1. /\ UNCHANGED <<buffer, aligned, i, read>>
      /\ outcome' \in {"Err", "panic"}
  BY DEF Fail, Panic
<1>2. /\ type' = type /\ written' = written /\ changed' = changed /\ len' = len
      /\ aligned' = aligned /\ i' = i /\ read' = read /\ next' = next
  BY <1>1 DEF buffer, next
<1>3. HasEmptyName' = HasEmptyName
  BY <1>2 DEF HasEmptyName
<1> QED BY <1>1, <1>2, <1>3 DEF WrittenInv

\* Reading a field of fixed width keeps WrittenInv.
LEMMA WrittenFixed ==
  ASSUME WrittenInv, outcome = "running", next <= Len(Schema[type]), ReadFixed
  PROVE  WrittenInv'
<1>1. IInv'
  BY ReadFixedStep DEF WrittenInv
<1>2. Kind \in FixedKinds /\ Fixed(Kind) \in Nat /\ Fixed(Kind) > 0
  BY FixedType DEF ReadFixed
<1>3. Size(Kind, written[next]) = Fixed(Kind)
  BY <1>2 DEF Size
<1>4. CASE /\ i' = i + Fixed(Kind)
           /\ read' = Append(read, IF Intact THEN written[next] ELSE 0)
           /\ UNCHANGED <<buffer, aligned, outcome>>
  <2> DEFINE v == IF Intact THEN written[next] ELSE 0
  <2>1. read' = Append(read, v) /\ UNCHANGED <<buffer, outcome>> /\ aligned' = aligned
    BY <1>4
  <2>2. Canonical(Kind, written[next]) = written[next]
    BY <1>2 DEF Canonical, FixedKinds
  <2>3. changed = 0 => /\ aligned'
                       /\ i' = i + Size(Kind, written[next])
                       /\ v = Canonical(Kind, written[next])
    BY <1>3, <1>4, <2>1, <2>2, NextIntact DEF WrittenInv
  <2> HIDE DEF v
  <2> QED BY <1>1, <2>1, <2>3, ReadOne
<1>5. CASE \/ PanicsAt /\ Panic
           \/ i + Fixed(Kind) > len /\ Fail
           \/ i + Fixed(Kind) <= len /\ ~Intact /\ Fail
  <2>1. ASSUME changed = 0, len = Total(type, written)
        PROVE  FALSE
    <3>1. /\ Intact
          /\ i \in Nat /\ len \in Nat
          /\ i + Fixed(Kind) <= len
      BY <1>3, <2>1, NextIntact
    <3>2. ~PanicsAt
      BY <1>2, <3>1 DEF PanicsAt
    <3> QED BY <1>2, <1>5, <3>1, <3>2
  <2> QED BY <1>1, <1>5, <2>1, Stop
<1> QED BY <1>4, <1>5 DEF ReadFixed

\* What the tests of a field say of bytes that serialize wrote: only a list
\* with an empty name is refused.
LEMMA OwnBytesPass ==
  ASSUME Intact, Kind \in Kinds \ FixedKinds, written[next] \in Values(Kind),
         MayFail(Content(Kind, written[next]))
  PROVE  Kind = "names" /\ written[next].empty
<1> DEFINE v == written[next]
           declared == Content(Kind, v)
<1>1. ~MayPass(declared)
  BY DEF MayFail
<1>2. CASE Kind = "names"
  BY <1>1, <1>2 DEF MayPass
<1>3. CASE Kind = "mpint"
  <2>1. v \in [bytes : Nat, high : BOOLEAN]
    BY <1>3 DEF Values
  <2>2. declared = v.bytes + (IF v.high THEN 1 ELSE 0)
    BY <1>3 DEF Content
  <2>3. ~v.high \/ declared > v.bytes
    BY <2>1, <2>2
  <2> QED BY <1>1, <1>3, <2>3 DEF MayPass
<1>4. CASE Kind \in {"algorithm", "key", "signature"}
  <2>1. declared = v
    BY <1>4 DEF Content
  <2> QED BY <1>1, <1>4, <2>1 DEF MayPass, Values
<1>5. CASE Kind \in {"string", "text"}
  BY <1>1, <1>5 DEF MayPass
<1> QED BY <1>2, <1>3, <1>4, <1>5 DEF Kinds

\* Reading a field with a length keeps WrittenInv.
LEMMA WrittenSized ==
  ASSUME WrittenInv, outcome = "running", next <= Len(Schema[type]), ReadSized
  PROVE  WrittenInv'
<1>1. IInv'
  BY ReadSizedStep DEF WrittenInv
<1>2. TypeOK /\ next \in 1 .. Len(Schema[type]) /\ Kind \in Kinds \ FixedKinds
      /\ written[next] \in Values(Kind)
  BY NextField DEF WrittenInv, IInv, ReadSized
<1> DEFINE own == Content(Kind, written[next])
<1>3. own \in Nat /\ Size(Kind, written[next]) = 4 + own
  BY <1>2, ContentType DEF Size
<1> HIDE DEF own
<1>4. ASSUME changed = 0
      PROVE  /\ Intact /\ aligned
             /\ i \in Nat /\ len \in Nat
             /\ len = Total(type, written) => i + 4 + own <= len /\ Fits(own)
  <2>1. /\ Intact
        /\ i \in Nat /\ len \in Nat
        /\ len = Total(type, written) => i + (4 + own) <= len
    BY <1>3, <1>4, NextIntact
  <2>2. aligned
    BY <1>4 DEF WrittenInv
  <2>3. len = Total(type, written) => i + 4 + own <= len /\ own + 4 <= len - i
    BY <1>3, <2>1
  <2> QED BY <2>1, <2>2, <2>3 DEF Fits
<1>5. CASE i + 4 > len /\ Fail
  <2>1. ASSUME changed = 0, len = Total(type, written)
        PROVE  FALSE
    BY <1>3, <1>4, <1>5, <2>1
  <2> QED BY <1>1, <1>5, <2>1, Stop
<1>6. ASSUME NEW declared \in IF Intact THEN {own} ELSE AnyLength,
             \/ ~Fits(declared) /\ Fail
             \/ Fits(declared) /\ i + 4 + declared > len /\ Panic
             \/ Fits(declared) /\ i + 4 + declared <= len /\ MayFail(declared) /\ Fail
      PROVE  WrittenInv'
  <2>1. ASSUME changed = 0, len = Total(type, written)
        PROVE  HasEmptyName
    <3>1. /\ Intact /\ i + 4 + own <= len /\ Fits(own)
          /\ i \in Nat /\ len \in Nat
      BY <1>4, <2>1
    <3>2. declared = own
      BY <1>6, <3>1
    <3>3. MayFail(own)
      BY <1>3, <1>6, <3>1, <3>2
    <3>4. Kind = "names" /\ written[next].empty
      BY <1>2, <3>1, <3>3, OwnBytesPass DEF own
    <3>5. DOMAIN written = 1 .. Len(Schema[type])
      BY <1>2, WireAssumption DEF TypeOK
    <3> QED BY <1>2, <3>4, <3>5 DEF HasEmptyName, Kind
  <2> QED BY <1>1, <1>6, <2>1, Stop
<1>7. ASSUME NEW declared \in IF Intact THEN {own} ELSE AnyLength,
             /\ i' = i + 4 + declared
             /\ aligned' = (aligned /\ declared = own)
             /\ read' = Append(read, IF Intact THEN Canonical(Kind, written[next]) ELSE 0)
             /\ UNCHANGED <<buffer, outcome>>
      PROVE  WrittenInv'
  <2> DEFINE v == IF Intact THEN Canonical(Kind, written[next]) ELSE 0
  <2>1. read' = Append(read, v) /\ UNCHANGED <<buffer, outcome>>
    BY <1>7
  <2>2. ASSUME changed = 0
        PROVE  /\ aligned'
               /\ i' = i + Size(Kind, written[next])
               /\ v = Canonical(Kind, written[next])
    <3>1. Intact /\ aligned /\ i \in Nat
      BY <1>4, <2>2
    <3>2. declared = own
      BY <1>7, <3>1
    <3>3. aligned' /\ v = Canonical(Kind, written[next])
      BY <1>7, <3>1, <3>2
    <3>4. i' = i + 4 + own
      BY <1>7, <3>2
    <3>5. i + 4 + own = i + (4 + own)
      BY <1>3, <3>1
    <3> QED BY <1>3, <3>3, <3>4, <3>5
  <2> HIDE DEF v
  <2> QED BY <1>1, <2>1, <2>2, ReadOne
<1> QED BY <1>5, <1>6, <1>7 DEF ReadSized, own

\* The end of the parser keeps WrittenInv.
LEMMA WrittenFinish ==
  ASSUME WrittenInv, Finish
  PROVE  WrittenInv'
<1>1. IInv'
  BY Inductive DEF WrittenInv, Next
<1>2. TypeOK /\ type \in Types /\ written \in Samples[type] /\ Len(read) \in Nat
  BY DEF WrittenInv, IInv, TypeOK
<1>3. Len(Schema[type]) \in Nat
  BY <1>2, SchemaType
<1>4. next > Len(Schema[type]) /\ next = Len(read) + 1 /\ Len(read) <= Len(Schema[type])
  BY DEF Finish, WrittenInv, next
<1>5. Len(read) = Len(Schema[type]) /\ next = Len(Schema[type]) + 1
  BY <1>2, <1>3, <1>4
<1>6. UNCHANGED <<buffer, aligned, i, read>> /\ outcome' = IF len = i THEN "Ok" ELSE "Err"
  BY DEF Finish
<1>7. /\ type' = type /\ written' = written /\ changed' = changed /\ len' = len
      /\ aligned' = aligned /\ i' = i /\ read' = read /\ next' = next
  BY <1>6 DEF buffer, next
<1>8. changed = 0 => i = Total(type, written)
  BY <1>5 DEF WrittenInv, Total
<1>9. /\ outcome' = "Ok" => i = len
      /\ changed = 0 /\ len = Total(type, written) => outcome' = "Ok"
  BY <1>6, <1>8
<1> QED BY <1>1, <1>5, <1>7, <1>9 DEF WrittenInv

\* Every step keeps WrittenInv.
LEMMA WrittenInductive ==
  ASSUME WrittenInv, [Next]_vars
  PROVE  WrittenInv'
<1>1. CASE ReadField
  BY <1>1, WrittenFixed, WrittenSized DEF ReadField
<1>2. CASE Finish
  BY <1>2, WrittenFinish
<1>3. CASE UNCHANGED vars
  <2>1. IInv'
    BY Inductive DEF WrittenInv
  <2>2. /\ type' = type /\ written' = written /\ changed' = changed /\ len' = len
        /\ aligned' = aligned /\ i' = i /\ read' = read /\ outcome' = outcome
        /\ next' = next
    BY <1>3 DEF vars, next
  <2>3. HasEmptyName' = HasEmptyName
    BY <2>2 DEF HasEmptyName
  <2> QED BY <2>1, <2>2, <2>3 DEF WrittenInv
<1> QED BY <1>1, <1>2, <1>3 DEF Next

\* WrittenInv holds initially.
LEMMA WrittenInitially == Init => WrittenInv
<1> SUFFICES ASSUME Init
             PROVE  WrittenInv
  OBVIOUS
<1>1. IInv
  BY InitHolds
<1>2. type \in Types /\ written \in Samples[type] /\ read = <<>> /\ i = 0 /\ aligned
      /\ outcome = "running"
  BY DEF Init
<1>3. Len(Schema[type]) \in Nat
  BY <1>2, SchemaType
<1>4. Len(read) = 0 /\ next = 1
  BY <1>2 DEF next
<1>5. i = Offset(type, written)[next]
  BY <1>2, <1>4, OffsetIs
<1> QED BY <1>1, <1>2, <1>3, <1>4, <1>5 DEF WrittenInv

\* What serialize wrote deserialize reads back, whatever the message: only a
\* list with an empty name is refused or read as another (the pairs of
\* messages.rs and kex/mod.rs, validate_list).
THEOREM WrittenIsReadHolds == Spec => []WrittenIsRead
<1>1. ASSUME WrittenInv
      PROVE  WrittenIsRead
  <2> SUFFICES ASSUME changed = 0, len = Total(type, written), outcome = "Ok"
               PROVE  read = [k \in DOMAIN written |-> Canonical(Schema[type][k], written[k])]
    BY <1>1 DEF WrittenIsRead, WrittenInv
  <2>1. DOMAIN written = 1 .. Len(Schema[type])
    BY <1>1, WireAssumption DEF WrittenInv, IInv, TypeOK
  <2>2. read \in Seq(AnyValue) /\ Len(read) = Len(Schema[type])
    BY <1>1 DEF WrittenInv, IInv, TypeOK
  <2>3. read = [k \in 1 .. Len(read) |-> read[k]]
    BY <2>2
  <2>4. \A k \in 1 .. Len(read) : read[k] = Canonical(Schema[type][k], written[k])
    BY <1>1 DEF WrittenInv
  <2> QED BY <2>1, <2>2, <2>3, <2>4
<1> QED BY <1>1, WrittenInitially, WrittenInductive, PTL DEF Spec

\* No buffer that is longer or shorter than a message is accepted as one, and
\* an accepted buffer was read to its end ("Expected no more bytes" of every
\* deserialize).
THEOREM NothingElseIsReadHolds == Spec => []NothingElseIsRead
<1>1. ASSUME WrittenInv
      PROVE  NothingElseIsRead
  <2> SUFFICES ASSUME outcome = "Ok"
               PROVE  i = len /\ (changed = 0 => len = Total(type, written))
    BY DEF NothingElseIsRead
  <2>1. Len(read) = Len(Schema[type]) /\ i = len
    BY <1>1 DEF WrittenInv
  <2>2. next = Len(Schema[type]) + 1
    BY <2>1 DEF next
  <2>3. changed = 0 => i = Total(type, written)
    BY <1>1, <2>2 DEF WrittenInv, Total
  <2> QED BY <2>1, <2>3
<1> QED BY <1>1, WrittenInitially, WrittenInductive, PTL DEF Spec
=============================================================================
