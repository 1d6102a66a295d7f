----------------------------- MODULE WireFormat -----------------------------
(***************************************************************************)
(* Messages and blobs on the wire: the serialize and deserialize pairs of  *)
(* messages.rs and kex/mod.rs over the codecs of data_primitives.rs.       *)
(*                                                                         *)
(* A message type is the list of its fields' kinds, and deserialize is one *)
(* step per field.  The buffer is the serialization of a message, cut off  *)
(* or extended to any length, with the contents of one field changed at    *)
(* will.  Contents are abstracted to their length and to what the parser   *)
(* tests; from a field on whose length has changed everything is arbitrary.*)
(***************************************************************************)
EXTENDS Naturals, Sequences

CONSTANTS
  Samples,   \* Samples[type]: the messages serialized, a value for each field
  AnyLength, \* what four changed bytes may say as a length
  Extra      \* bound: bytes added behind a message

\* The fields in the order they are written and read; blobs have no number.
Schema ==
  [KEXINIT     |-> <<"number", "cookie",
                     "names", "names", "names", "names", "names",
                     "names", "names", "names", "names", "names", "bool", "zero">>,
   NEWKEYS     |-> <<"number">>,
   DISCONNECT  |-> <<"number", "reason", "text", "text">>,
   KEXDH_INIT  |-> <<"number", "mpint">>,
   KEXDH_REPLY |-> <<"number", "string", "mpint", "string">>,
   KEY_BLOB    |-> <<"algorithm", "key">>,
   SIGNATURE_BLOB |-> <<"algorithm", "signature">>]

Types == DOMAIN Schema
FixedKinds == {"number", "cookie", "reason", "bool", "zero"}
Fixed(kind) == CASE kind = "cookie" -> 16
                 [] kind \in {"reason", "zero"} -> 4
                 [] OTHER -> 1

\* Values: a name list is [names, letters, empty], how many names, how long they
\* are together, and whether one of them is empty; an mpint is [bytes, high],
\* the bytes of the number and whether the first has its top bit set; anything
\* else is the number of its bytes.
Kinds == FixedKinds \cup {"names", "mpint", "string", "text", "algorithm", "key", "signature"}
Values(kind) ==
  CASE kind = "names" -> {v \in [names : Nat, letters : Nat, empty : BOOLEAN] :
                            /\ v.names = 0 => v.letters = 0 /\ ~v.empty
                            /\ v.names > 0 /\ v.letters = 0 => v.empty}
    [] kind = "mpint" -> {v \in [bytes : Nat, high : BOOLEAN] : v.bytes = 0 => ~v.high}
    [] kind = "algorithm" -> {11}
    [] kind = "key" -> {32}
    [] kind = "signature" -> {64}
    [] OTHER -> Nat

ASSUME WireAssumption ==
  /\ DOMAIN Samples = Types
  /\ \A type \in Types : \A m \in Samples[type] :
       /\ DOMAIN m = 1 .. Len(Schema[type])
       /\ \A k \in DOMAIN m : m[k] \in Values(Schema[type][k])
  /\ AnyLength \subseteq Nat
  /\ Extra \in Nat

VARIABLES
  type,    \* which deserialize is called
  written, \* the message that was serialized
  changed, \* the field whose bytes were changed, or 0
  len,     \* bytes in the buffer
  aligned, \* the cursor is where serialize began the field that is next
  i,       \* the cursor
  read,    \* the values read
  outcome  \* "running", "Ok", "Err" or "panic"

vars == <<type, written, changed, len, aligned, i, read, outcome>>
buffer == <<type, written, changed, len>>

-----------------------------------------------------------------------------
\* Serializing.

\* Mutant: an mpint whose top bit is set gets no zero byte in front.
ContentBare(kind, v) ==
  CASE kind = "names" -> IF v.names = 0 THEN 0 ELSE v.letters + v.names - 1
    [] kind = "mpint" -> v.bytes
    [] OTHER -> v
\* Bytes behind the length: names are joined by commas, a positive number whose
\* top bit is set gets a zero byte in front, and zero has no bytes.
Content(kind, v) ==
  CASE kind = "names" -> IF v.names = 0 THEN 0 ELSE v.letters + v.names - 1
    [] kind = "mpint" -> v.bytes + (IF v.high THEN 1 ELSE 0)
    [] OTHER -> v

Size(kind, v) == IF kind \in FixedKinds THEN Fixed(kind) ELSE 4 + Content(kind, v)

\* Where field k begins in a serialized message.
Offset(t, m) ==
  LET offset[k \in 1 .. (Len(Schema[t]) + 1)] ==
        IF k = 1 THEN 0 ELSE offset[k - 1] + Size(Schema[t][k - 1], m[k - 1])
  IN  offset
Total(t, m) == Offset(t, m)[Len(Schema[t]) + 1]

-----------------------------------------------------------------------------
\* Parsing.

next == Len(read) + 1
Kind == Schema[type][next]
Intact == aligned /\ changed # next

Fail == outcome' = "Err" /\ UNCHANGED <<buffer, aligned, i, read>>
Panic == outcome' = "panic" /\ UNCHANGED <<buffer, aligned, i, read>>

\* An index without a check.
PanicsAt == Kind = "bool" /\ i >= len

\* A field of a fixed size.  Its contents are tested, or can be anything.
ReadFixed ==
  /\ Kind \in FixedKinds
  /\ \/ PanicsAt /\ Panic
     \/ ~PanicsAt /\ i + Fixed(Kind) > len /\ Fail
     \/ /\ i + Fixed(Kind) <= len
        /\ \/ ~Intact /\ Kind \in {"number", "reason", "zero"} /\ Fail
           \/ /\ i' = i + Fixed(Kind)
              /\ read' = Append(read, IF Intact THEN written[next] ELSE 0)
              /\ UNCHANGED <<buffer, aligned, outcome>>

\* What is the same on the wire is the same when read: one empty name is none.
Canonical(kind, v) ==
  IF kind = "names" /\ Content(kind, v) = 0 THEN [names |-> 0, letters |-> 0, empty |-> FALSE]
                                            ELSE v

\* Contents of `declared' bytes that pass the tests of their kind.
MayPass(declared) ==
  CASE Intact /\ Kind = "names" -> declared = 0 \/ ~written[next].empty
    [] Intact /\ Kind = "mpint" -> ~written[next].high \/ declared > written[next].bytes
    [] Kind = "algorithm" -> declared = 11
    [] Kind = "key" -> declared = 32
    [] Kind = "signature" -> declared = 64
    [] OTHER -> TRUE
MayFail(declared) ==
  IF Intact THEN ~MayPass(declared)
  ELSE ~MayPass(declared) \/ (Kind \in {"names", "mpint", "text", "algorithm"} /\ declared > 0)

\* Mutant: the four bytes of the length are not counted.
FitsBare(declared) == declared <= len - i
Fits(declared) == declared = 0 \/ declared + 4 <= len - i

\* A field with its length in front.  Past the end of the buffer a slice panics.
ReadSized ==
  /\ Kind \notin FixedKinds
  /\ \/ i + 4 > len /\ Fail
     \/ /\ i + 4 <= len
        /\ \E declared \in IF Intact THEN {Content(Kind, written[next])} ELSE AnyLength :
             \/ ~Fits(declared) /\ Fail
             \/ Fits(declared) /\ i + 4 + declared > len /\ Panic
             \/ Fits(declared) /\ i + 4 + declared <= len /\ MayFail(declared) /\ Fail
             \/ /\ Fits(declared) /\ i + 4 + declared <= len /\ MayPass(declared)
                /\ i' = i + 4 + declared
                /\ aligned' = (aligned /\ declared = Content(Kind, written[next]))
                /\ read' = Append(read, IF Intact THEN Canonical(Kind, written[next]) ELSE 0)
                /\ UNCHANGED <<buffer, outcome>>

ReadField == outcome = "running" /\ next <= Len(Schema[type]) /\ (ReadFixed \/ ReadSized)

\* Mutant: bytes left over are ignored.
FinishEarly ==
  /\ outcome = "running" /\ next > Len(Schema[type])
  /\ outcome' = "Ok"
  /\ UNCHANGED <<buffer, aligned, i, read>>

\* "Expected no more bytes."
Finish ==
  /\ outcome = "running" /\ next > Len(Schema[type])
  /\ outcome' = IF len = i THEN "Ok" ELSE "Err"
  /\ UNCHANGED <<buffer, aligned, i, read>>

-----------------------------------------------------------------------------
Init ==
  /\ type \in Types
  /\ written \in Samples[type]
  /\ changed \in 0 .. Len(Schema[type])
  /\ len \in 0 .. (Total(type, written) + Extra)
  /\ aligned = TRUE
  /\ i = 0
  /\ read = <<>>
  /\ outcome = "running"

Next == ReadField \/ Finish

Spec == Init /\ [][Next]_vars

-----------------------------------------------------------------------------
\* The cursor never leaves the buffer, and the only place where deserialize can
\* panic is KexInit's index after its last name list, when the buffer ends
\* there; every other short buffer is an Err (check_and_inc, from_be_bytes).
PanicsOnlyAtKexFollow ==
  /\ i <= len
  /\ outcome = "panic" => type = "KEXINIT" /\ Kind = "bool" /\ i = len

HasEmptyName == \E k \in DOMAIN written : Schema[type][k] = "names" /\ written[k].empty

\* What serialize wrote deserialize reads back, field by field.  Lists with an
\* empty name are the exception: validate_list lets them through, and they are
\* read as the empty list, if they are that on the wire, or refused.
WrittenIsRead ==
  changed = 0 /\ len = Total(type, written) =>
    /\ outcome \in {"Err", "panic"} => HasEmptyName
    /\ outcome = "Ok" =>
         read = [k \in DOMAIN written |-> Canonical(Schema[type][k], written[k])]

\* Nothing shorter or longer than a message is one: a buffer that was cut off
\* or extended is never accepted, and an accepted one was read to its end.
NothingElseIsRead ==
  outcome = "Ok" =>
    /\ i = len
    /\ changed = 0 => len = Total(type, written)
=============================================================================
