--------------------------- MODULE ChannelProofs ---------------------------
(***************************************************************************)
(* NeverBothBlocked and ChannelImplemented, for every value of the         *)
(* constants.                                                              *)
(*                                                                         *)
(* Both rest on PlaceInv: the state of an endpoint tells how many units it *)
(* has written and read, and the place of a unit on the wire what kind of  *)
(* message it is, unless damage has made it garbage.  So two ends can only *)
(* both wait if neither has anything unread, and no two states fit that;   *)
(* and there is one place for the server's reply, hence one session.       *)
(*                                                                         *)
(* AlwaysDecodes: on an undisturbed stream (no I/O errors, no damage) what *)
(* an open end reads next is what its state accepts, for every session,    *)
(* every number of packets and every point at which the owners drop their  *)
(* transports; sequence numbers may wrap.                                  *)
(*                                                                         *)
(* AlignInv: the n-th unit after the handshake's on an end's wire is sealed*)
(* at place n - 1 of its keystream and numbered n + 2, its encoder is where*)
(* the next one will be sealed, and the decoder of its reader where the    *)
(* next one it reads was.  All this ends when the reader has dropped its   *)
(* stream: then writes fail, and send_seq falls behind the keystream.      *)
(*                                                                         *)
(* OnlyMismatchFails: there a handshake fails only on its two proposals.   *)
(* See AgreedInv below.                                                    *)
(***************************************************************************)
EXTENDS TransportProofs

-----------------------------------------------------------------------------
\* The invariant.

\* How many identification lines come first on p's wire.
Lead(p) == IF p = "client" THEN starts ELSE 1

\* The kind of the k-th unit after them.
Kind(p, k) ==
  CASE k <= 0 -> "ID"
    [] k = 1  -> "KEXINIT"
    [] k = 2  -> IF p = "client" THEN "KEXDH_INIT" ELSE "KEXDH_REPLY"
    [] k = 3  -> "NEWKEYS"
    [] OTHER  -> "PAYLOAD"

KindsInOrder ==
  \A p \in Roles : \A i \in 1 .. Len(wire[p]) :
    wire[p][i].msg.type \in {Kind(p, i - Lead(p)), "GARBAGE"}

\* What p has written and read when its state is st.
Place(p, st, written, read) ==
  /\ st = "WaitingForProtoVersion" =>
       read = 0 /\ IF p = "client" THEN written <= starts ELSE written = 0
  /\ st = "WaitingForServerKexInit" => written = Lead(p) + 1 /\ read = 1
  /\ st = "WaitingForClientKexInit" => written = 1 /\ read = 1
  /\ st = "WaitingForKexReply"      => written = Lead(p) + 2 /\ read = 2
  /\ st = "WaitingForKexDhInit"     => written = 2 /\ read = 2
  /\ st = "WaitingForNewKeys"       => written = Lead(p) + 3 /\ read = 3
  /\ st = "Ready"                   => written >= Lead(p) + 3 /\ read >= 4
Places == \A p \in Roles : Place(p, ep[p].st, Len(wire[p]), rd[p])

\* start has succeeded as often as it was called, as long as the client is open.
LinesWritten ==
  ep["client"].st = "WaitingForProtoVersion" /\ ~closed["client"] =>
    Len(wire["client"]) = starts

\* Only a write that failed leaves half a unit, and a handshake ends with it.
WholeUntilReady ==
  \A p \in Roles : Handshaking(p) =>
    \A i \in 1 .. Len(wire[p]) : wire[p][i].form # "partial"

\* Nobody writes before start; a second line stops the server at its KEXINIT.
StartsFirst == starts = 0 => \A p \in Roles : Len(wire[p]) = 0
StartedOnce ==
  ep["server"].st \in {"WaitingForKexDhInit", "WaitingForNewKeys", "Ready"} =>
    starts = 1 /\ ep["client"].st # "WaitingForProtoVersion"

PlaceInv ==
  KindsInOrder /\ Places /\ LinesWritten /\ WholeUntilReady /\ StartsFirst /\ StartedOnce
-----------------------------------------------------------------------------
\* Writes.

\* After a write the unit at a place is the one that was there, or the one
\* written for it.
LEMMA WritePlaces ==
  ASSUME TypeOK, NEW p \in Roles, NEW out \in Seq(Units), Write(p, out)
  PROVE  /\ \A q \in Roles : q # p => wire'[q] = wire[q]
         /\ Len(wire[p]) \in Nat /\ Len(out) \in Nat
         /\ Len(wire'[p]) = Len(wire[p]) + Len(out)
         /\ \A i \in 1 .. Len(wire'[p]) :
              \/ i \in 1 .. Len(wire[p]) /\ wire'[p][i] = wire[p][i]
              \/ i - Len(wire[p]) \in 1 .. Len(out) /\ wire'[p][i] = out[i - Len(wire[p])]
<1> DEFINE w == wire[p]
           joined == w \o out
<1>1. w \in Seq(Units)
  BY DEF TypeOK
<1>2. wire'[p] = joined /\ \A q \in Roles : q # p => wire'[q] = wire[q]
  BY DEF TypeOK, Write
<1> HIDE DEF w
<1>3. Len(w) \in Nat /\ Len(out) \in Nat /\ Len(joined) = Len(w) + Len(out)
  BY <1>1
<1>4. \A i \in 1 .. Len(joined) :
        \/ i \in 1 .. Len(w) /\ joined[i] = w[i]
        \/ i - Len(w) \in 1 .. Len(out) /\ joined[i] = out[i - Len(w)]
  <2> TAKE i \in 1 .. Len(joined)
  <2>1. CASE i <= Len(w)
    BY <1>1, <1>3, <2>1
  <2>2. CASE i > Len(w)
    BY <1>1, <1>3, <2>2
  <2> QED
    BY <1>1, <1>3, <2>1, <2>2
<1> HIDE DEF joined
<1> QED
  BY <1>2, <1>3, <1>4 DEF w

\* What was cut short is no longer than it was to be.
LEMMA CutsShorter ==
  ASSUME NEW out \in Seq(Units), NEW cut \in Cuts(out)
  PROVE  cut \in Seq(Units) /\ Len(cut) <= Len(out)
<1>1. cut \in Seq(Units) /\ Len(cut) \in Nat /\ Len(out) \in Nat
  BY CutsType
<1>2. Len(cut) > 0 => Len(cut) \in 1 .. Len(out)
  <2>1. \A i \in 1 .. Len(cut) : i \in 1 .. Len(out)
    BY CutsUnits
  <2> QED
    BY <1>1, <2>1
<1> QED
  BY <1>1, <1>2

\* The units of out are of the kinds their places ask for.
InOrder(p, out) ==
  \A k \in 1 .. Len(out) : out[k].msg.type = Kind(p, (Len(wire[p]) + k) - Lead(p))

Writes(p, out) == Write(p, out) \/ \E cut \in Cuts(out) : Write(p, cut)

\* Written in full or cut short, they are so on the wire.
LEMMA OrderedWrite ==
  ASSUME TypeOK, KindsInOrder, UNCHANGED starts, NEW p \in Roles, NEW out \in Seq(Units),
         InOrder(p, out), Writes(p, out)
  PROVE  KindsInOrder'
<1>1. PICK units \in Seq(Units) :
        /\ Write(p, units)
        /\ \A k \in 1 .. Len(units) : k \in 1 .. Len(out) /\ units[k].msg = out[k].msg
  <2>1. CASE Write(p, out)
    BY <2>1
  <2>2. ASSUME NEW cut \in Cuts(out), Write(p, cut)
        PROVE  /\ cut \in Seq(Units)
               /\ \A k \in 1 .. Len(cut) : k \in 1 .. Len(out) /\ cut[k].msg = out[k].msg
    BY CutsShorter, CutsUnits
  <2> QED
    BY <2>1, <2>2 DEF Writes
<1>2. Lead(p)' = Lead(p) /\ \A q \in Roles : Lead(q)' = Lead(q)
  BY DEF Lead
<1> SUFFICES ASSUME NEW q \in Roles, NEW i \in 1 .. Len(wire'[q])
             PROVE  wire'[q][i].msg.type \in {Kind(q, i - Lead(q)), "GARBAGE"}
  BY <1>2 DEF KindsInOrder
<1>3. CASE i \in 1 .. Len(wire[q]) /\ wire'[q][i] = wire[q][i]
  BY <1>3 DEF KindsInOrder
<1>4. CASE q = p /\ ~(i \in 1 .. Len(wire[q]) /\ wire'[q][i] = wire[q][i])
  <2>1. i - Len(wire[p]) \in 1 .. Len(units) /\ wire'[p][i] = units[i - Len(wire[p])]
    BY <1>1, <1>4, WritePlaces
  <2>2. PICK k \in 1 .. Len(units) : wire'[p][i] = units[k] /\ Len(wire[p]) + k = i
    <3>1. Len(wire[p]) \in Nat
      BY DEF TypeOK
    <3>2. Len(wire[p]) + (i - Len(wire[p])) = i
      BY <3>1
    <3> QED
      BY <2>1, <3>2
  <2>3. k \in 1 .. Len(out) /\ wire'[p][i].msg = out[k].msg
    BY <1>1, <2>2
  <2>4. out[k].msg.type = Kind(p, (Len(wire[p]) + k) - Lead(p))
    BY <2>3 DEF InOrder
  <2> QED
    BY <1>4, <2>2, <2>3, <2>4
<1>5. q # p => wire'[q] = wire[q]
  BY <1>1, WritePlaces
<1> QED
  BY <1>3, <1>4, <1>5
-----------------------------------------------------------------------------
\* Handshake steps.

\* What a handler has done that returns Err, or whose write failed.
Drops(p, out) == /\ GiveUp(p) /\ Writes(p, out) /\ UNCHANGED starts
                 /\ rd' = [rd EXCEPT ![p] = @ + 1]

\* And what one has done that returns the state next.
Moves(p, next, out) == /\ ep' = [ep EXCEPT ![p] = next] /\ UNCHANGED <<closed, starts>>
                       /\ Write(p, out) /\ rd' = [rd EXCEPT ![p] = @ + 1]

\* A handler that returns Err drops its stream.
LEMMA RefuseDrops ==
  ASSUME NEW p, NEW out, Refuse(p, out)
  PROVE  Drops(p, out)
BY DEF Refuse, Consume, Drops, Writes

\* One that would return Ok does so, unless a write fails.
LEMMA ProceedOutcomes ==
  ASSUME NEW p, NEW next, NEW out, Proceed(p, next, out)
  PROVE  Drops(p, out) \/ Moves(p, next, out)
BY DEF Proceed, Consume, Drops, Moves, Writes

\* An endpoint that has something to read is not the first to write.
LEMMA ReaderIsNotFirst ==
  ASSUME TypeOK, PlaceInv, NEW p \in Roles, Unread(p)
  PROVE  starts # 0 /\ starts \in Nat
<1>1. Peer(p) \in Roles
  BY DEF Peer, Roles
<1>2. Len(wire[Peer(p)]) \in Nat /\ rd[p] \in Nat /\ rd[p] < Len(wire[Peer(p)])
  BY <1>1 DEF TypeOK, Unread
<1> QED
  BY <1>1, <1>2 DEF PlaceInv, StartsFirst, TypeOK

\* The place of an endpoint does not depend on starts once it has one.
LEMMA GiveUpPlaces ==
  ASSUME TypeOK, PlaceInv, NEW p \in Roles, GiveUp(p), UNCHANGED starts, KindsInOrder',
         \A q \in Roles : q # p => wire'[q] = wire[q] /\ rd'[q] = rd[q],
         starts # 0 \/ UNCHANGED wire
  PROVE  PlaceInv'
<1>1. /\ ep'[p].st = "Failed" /\ closed'[p]
      /\ \A q \in Roles : q # p => ep'[q] = ep[q] /\ closed'[q] = closed[q]
  BY DEF TypeOK, GiveUp, Failed
<1>2. Places'
  BY <1>1 DEF PlaceInv, Places, Place, Lead
<1>3. LinesWritten'
  BY <1>1 DEF PlaceInv, LinesWritten, Roles
<1>4. WholeUntilReady'
  BY <1>1 DEF PlaceInv, WholeUntilReady, Handshaking
<1>5. StartsFirst'
  BY DEF PlaceInv, StartsFirst
<1>6. StartedOnce'
  BY <1>1 DEF PlaceInv, StartedOnce, Roles
<1> QED
  BY <1>2, <1>3, <1>4, <1>5, <1>6 DEF PlaceInv

\* A handler that returns Err, or fails to write, keeps the invariant.
LEMMA DropsPlaces ==
  ASSUME TypeOK, PlaceInv, NEW p \in Roles, Unread(p),
         NEW out \in Seq(Units), InOrder(p, out), Drops(p, out)
  PROVE  PlaceInv'
<1>1. KindsInOrder'
  BY OrderedWrite DEF Drops, PlaceInv
<1>2. \A q \in Roles : q # p => wire'[q] = wire[q] /\ rd'[q] = rd[q]
  BY WriteAlone DEF Drops, Writes, TypeOK
<1> QED
  BY <1>1, <1>2, ReaderIsNotFirst, GiveUpPlaces DEF Drops

\* So does one that returns Ok, if it leaves its end where the next state says.
LEMMA MovesPlaces ==
  ASSUME TypeOK, PlaceInv, NEW p \in Roles, Handshaking(p), Unread(p),
         NEW out \in Seq(Units), InOrder(p, out),
         \A k \in 1 .. Len(out) : out[k].form = "whole",
         NEW next, Moves(p, next, out), next.st # "WaitingForProtoVersion",
         Place(p, next.st, Len(wire[p]) + Len(out), rd[p] + 1),
         p = "server" /\ next.st \in {"WaitingForKexDhInit", "WaitingForNewKeys", "Ready"} =>
           starts = 1 /\ ep["client"].st # "WaitingForProtoVersion"
  PROVE  PlaceInv'
<1>1. /\ ep'[p] = next /\ rd'[p] = rd[p] + 1
      /\ \A q \in Roles : q # p => ep'[q] = ep[q] /\ rd'[q] = rd[q]
  BY DEF TypeOK, Moves
<1>2. \A q \in Roles : q # p => wire'[q] = wire[q]
  BY WritePlaces DEF Moves
<1>3. KindsInOrder'
  BY OrderedWrite DEF Moves, Writes, PlaceInv
<1>4. Places'
  <2>1. Len(wire'[p]) = Len(wire[p]) + Len(out)
    BY WritePlaces DEF Moves
  <2>2. Place(p, ep'[p].st, Len(wire'[p]), rd'[p])
    BY <1>1, <2>1
  <2> QED
    BY <1>1, <1>2, <2>2 DEF Moves, PlaceInv, Places, Place, Lead
<1>5. LinesWritten'
  BY <1>1, <1>2 DEF Moves, PlaceInv, LinesWritten, Roles
<1>6. WholeUntilReady'
  <2> SUFFICES ASSUME NEW q \in Roles, Handshaking(q)', NEW i \in 1 .. Len(wire'[q])
               PROVE  wire'[q][i].form # "partial"
    BY DEF WholeUntilReady
  <2>1. CASE q # p
    BY <1>1, <1>2, <2>1 DEF Moves, PlaceInv, WholeUntilReady, Handshaking
  <2>2. CASE q = p
    <3>1. \/ i \in 1 .. Len(wire[p]) /\ wire'[p][i] = wire[p][i]
          \/ \E k \in 1 .. Len(out) : wire'[p][i] = out[k]
      BY <2>2, WritePlaces DEF Moves
    <3> QED
      BY <2>2, <3>1 DEF PlaceInv, WholeUntilReady
  <2> QED
    BY <2>1, <2>2
<1>7. StartsFirst'
  BY ReaderIsNotFirst DEF Moves, StartsFirst
<1>8. StartedOnce'
  BY <1>1 DEF Moves, PlaceInv, StartedOnce, Roles
<1> QED
  BY <1>3, <1>4, <1>5, <1>6, <1>7, <1>8 DEF PlaceInv

\* One unit goes where its message belongs.
LEMMA OneInOrder ==
  ASSUME TypeOK, NEW p \in Roles, NEW codec \in Codecs, NEW seq \in Nat, NEW msg \in Messages,
         msg.type = Kind(p, (Len(wire[p]) + 1) - Lead(p))
  PROVE  LET out == <<Build(codec, seq, msg)>>
         IN  /\ out \in Seq(Units) /\ Len(out) = 1 /\ InOrder(p, out)
             /\ \A k \in 1 .. Len(out) : out[k].form = "whole"
<1> DEFINE unit == Build(codec, seq, msg)
<1>1. unit \in Units /\ unit.msg = msg /\ unit.form = "whole"
  BY BuildType DEF Build
<1> HIDE DEF unit
<1> DEFINE out == <<unit>>
<1>2. out \in Seq(Units) /\ Len(out) = 1 /\ out[1] = unit
  BY <1>1
<1>3. InOrder(p, out) /\ \A k \in 1 .. Len(out) : out[k].form = "whole"
  BY <1>1, <1>2 DEF InOrder
<1> QED
  BY <1>2, <1>3 DEF unit

\* No output is in order.
LEMMA NoneInOrder ==
  ASSUME NEW p
  PROVE  <<>> \in Seq(Units) /\ Len(<<>>) = 0 /\ InOrder(p, <<>>)
         /\ \A k \in 1 .. Len(<<>>) : <<>>[k].form = "whole"
BY DEF InOrder

\* start writes one line more in front of everything else.
LEMMA StartPlaces ==
  ASSUME TypeOK, PlaceInv, Start
  PROVE  PlaceInv'
<1> DEFINE line == <<Line("client")>>
           n == Len(wire["client"])
<1>1. /\ "client" \in Roles /\ ep["client"].st = "WaitingForProtoVersion" /\ ~closed["client"]
      /\ starts' = starts + 1 /\ starts \in Nat /\ UNCHANGED <<ep, rd>>
  BY DEF Roles, Start, TypeOK
<1>2. n = starts /\ ep["server"].st \notin {"WaitingForKexDhInit", "WaitingForNewKeys", "Ready"}
  BY <1>1 DEF PlaceInv, LinesWritten, StartedOnce
<1>3. /\ line \in Seq(Units) /\ Len(line) = 1
      /\ line[1].msg.type = "ID" /\ line[1].form = "whole"
  <2>1. IdLine(OwnId["client"]) \in Messages /\ IdLine(OwnId["client"]).type = "ID"
    BY <1>1, TransportAssumption DEF IdLine, Messages
  <2>2. Line("client") \in Units
    BY <2>1, CodecTypes, BuildType DEF Line, Naked
  <2>3. Line("client").msg.type = "ID" /\ Line("client").form = "whole"
    BY <2>1 DEF Line, Build
  <2> QED
    BY <2>2, <2>3
<1> HIDE DEF line
<1>4. PICK units \in Seq(Units) :
        /\ Write("client", units) /\ Len(units) <= 1
        /\ \A k \in 1 .. Len(units) : units[k].msg.type = "ID"
        /\ ~closed'["client"] => units = line
  <2>1. CASE StartOk
    <3>1. Write("client", line)
      BY <2>1 DEF StartOk, line
    <3>2. Len(line) <= 1 /\ \A k \in 1 .. Len(line) : line[k].msg.type = "ID"
      BY <1>3
    <3> QED
      BY <1>3, <3>1, <3>2, Zenon
  <2>2. CASE StartErr
    <3>1. PICK cut \in Cuts(line) : Write("client", cut)
      BY <2>2 DEF StartErr, line
    <3>2. closed'["client"]
      BY <1>1, <2>2 DEF StartErr, TypeOK
    <3>3. cut \in Seq(Units) /\ Len(cut) <= 1
      BY <1>3, CutsShorter
    <3>4. \A k \in 1 .. Len(cut) : k \in 1 .. Len(line) /\ cut[k].msg = line[k].msg
      BY <1>3, CutsUnits
    <3>5. \A k \in 1 .. Len(cut) : cut[k].msg.type = "ID"
      BY <1>3, <3>4
    <3> QED
      BY <3>1, <3>2, <3>3, <3>5
  <2> QED
    BY <2>1, <2>2 DEF Start
<1>5. /\ wire'["server"] = wire["server"] /\ n \in Nat /\ Len(units) \in Nat
      /\ Len(wire'["client"]) = n + Len(units)
      /\ \A i \in 1 .. Len(wire'["client"]) :
           \/ i \in 1 .. n /\ wire'["client"][i] = wire["client"][i]
           \/ \E k \in 1 .. Len(units) : wire'["client"][i] = units[k]
  BY <1>1, <1>4, WritePlaces DEF Roles
<1>6. closed'["server"] = closed["server"]
  BY DEF Start, StartOk, StartErr, TypeOK, Roles
<1>7. Lead("client")' = starts + 1 /\ Lead("client") = starts
      /\ Lead("server")' = 1 /\ Lead("server") = 1
  BY <1>1 DEF Lead
<1>8. KindsInOrder'
  <2> SUFFICES ASSUME NEW q \in Roles, NEW i \in 1 .. Len(wire'[q])
               PROVE  wire'[q][i].msg.type \in {Kind(q, i - Lead(q)'), "GARBAGE"}
    BY DEF KindsInOrder
  <2>1. CASE q = "server"
    BY <1>5, <1>7, <2>1 DEF PlaceInv, KindsInOrder
  <2>2. CASE q = "client"
    <3>1. i - Lead("client")' <= 0
      BY <1>1, <1>2, <1>4, <1>5, <1>7, <2>2
    <3>2. Kind("client", i - Lead("client")') = "ID"
      BY <3>1 DEF Kind
    <3>3. CASE i \in 1 .. n /\ wire'["client"][i] = wire["client"][i]
      <4>1. i - Lead("client") <= 0
        BY <1>1, <1>2, <1>7, <3>3
      <4>2. Kind("client", i - Lead("client")) = "ID"
        BY <4>1 DEF Kind
      <4> QED
        BY <1>1, <2>2, <3>2, <3>3, <4>2 DEF PlaceInv, KindsInOrder
    <3>4. CASE \E k \in 1 .. Len(units) : wire'["client"][i] = units[k]
      BY <1>4, <2>2, <3>2, <3>4
    <3> QED
      BY <1>5, <2>2, <3>3, <3>4
  <2> QED
    BY <2>1, <2>2 DEF Roles
<1>9. Places'
  <2>1. Place("server", ep["server"].st, Len(wire["server"]), rd["server"])'
    BY <1>1, <1>5, <1>7 DEF PlaceInv, Places, Place, Roles
  <2>2. rd["client"] = 0
    BY <1>1 DEF PlaceInv, Places, Place
  <2>3. Len(wire'["client"]) <= starts'
    BY <1>1, <1>2, <1>4, <1>5
  <2>4. Place("client", ep["client"].st, Len(wire["client"]), rd["client"])'
    BY <1>1, <2>2, <2>3 DEF Place
  <2> QED
    BY <2>1, <2>4 DEF Places, Roles
<1>10. LinesWritten'
  BY <1>1, <1>2, <1>3, <1>4, <1>5 DEF LinesWritten
<1>11. WholeUntilReady'
  <2> SUFFICES ASSUME NEW q \in Roles, Handshaking(q)', NEW i \in 1 .. Len(wire'[q])
               PROVE  wire'[q][i].form # "partial"
    BY DEF WholeUntilReady
  <2>1. CASE q = "server"
    BY <1>1, <1>5, <1>6, <2>1 DEF PlaceInv, WholeUntilReady, Handshaking
  <2>2. CASE q = "client"
    <3>1. units = line /\ Handshaking("client")
      BY <1>1, <1>4, <2>2 DEF Handshaking
    <3>2. \A k \in 1 .. Len(units) : units[k].form # "partial"
      <4>1. \A k \in 1 .. Len(line) : line[k].form # "partial"
        BY <1>3
      <4> QED
        BY <3>1, <4>1, Zenon
    <3>3. \A k \in 1 .. n : wire["client"][k].form # "partial"
      BY <1>1, <3>1 DEF PlaceInv, WholeUntilReady
    <3> QED
      BY <1>5, <2>2, <3>2, <3>3
  <2> QED
    BY <2>1, <2>2 DEF Roles
<1>12. StartsFirst' /\ StartedOnce'
  BY <1>1, <1>2 DEF StartsFirst, StartedOnce
<1> QED
  BY <1>8, <1>9, <1>10, <1>11, <1>12 DEF PlaceInv
-----------------------------------------------------------------------------
\* Handler by handler.

\* A handler that returns Err keeps the invariant.
LEMMA RefusePlaces ==
  ASSUME TypeOK, PlaceInv, NEW p \in Roles, Unread(p),
         NEW out \in Seq(Units), InOrder(p, out), Refuse(p, out)
  PROVE  PlaceInv'
BY RefuseDrops, DropsPlaces

\* One that stores the state next does, if next fits what it wrote and read.
LEMMA ProceedPlaces ==
  ASSUME TypeOK, PlaceInv, NEW p \in Roles, Handshaking(p), Unread(p),
         NEW out \in Seq(Units), InOrder(p, out),
         \A k \in 1 .. Len(out) : out[k].form = "whole",
         NEW next, Proceed(p, next, out), next.st # "WaitingForProtoVersion",
         Place(p, next.st, Len(wire[p]) + Len(out), rd[p] + 1),
         p = "server" /\ next.st \in {"WaitingForKexDhInit", "WaitingForNewKeys", "Ready"} =>
           starts = 1 /\ ep["client"].st # "WaitingForProtoVersion"
  PROVE  PlaceInv'
<1>1. CASE Drops(p, out)
  BY <1>1, DropsPlaces
<1>2. CASE Moves(p, next, out)
  BY <1>2, MovesPlaces
<1> QED
  BY <1>1, <1>2, ProceedOutcomes

\* What holds when a handler of state st runs.
LEMMA AtPlaces ==
  ASSUME TypeOK, PlaceInv, NEW p \in Roles, NEW st, At(p, st), st \notin {"Ready", "Failed"}
  PROVE  /\ Handshaking(p) /\ Unread(p) /\ ep[p].st = st
         /\ Place(p, st, Len(wire[p]), rd[p])
         /\ Len(wire[p]) \in Nat /\ rd[p] \in Nat /\ starts \in Nat /\ Lead(p) \in Nat
<1>1. Handshaking(p) /\ Unread(p) /\ ep[p].st = st
  BY DEF At, Handshaking, Readable
<1>2. Place(p, st, Len(wire[p]), rd[p])
  BY <1>1 DEF PlaceInv, Places
<1>3. Len(wire[p]) \in Nat /\ rd[p] \in Nat /\ starts \in Nat
  BY DEF TypeOK
<1> QED
  BY <1>1, <1>2, <1>3 DEF Lead

\* The client's KEXINIT follows its lines.
LEMMA ClientReceiveProtoVersionPlaces ==
  ASSUME TypeOK, PlaceInv, ClientReceiveProtoVersion
  PROVE  PlaceInv'
<1> DEFINE c == ep["client"]
           Next1(kexinit) == ClientAfterProtoVersion(c, NextUnit("client").msg, kexinit)
<1>1. "client" \in Roles /\ At("client", "WaitingForProtoVersion")
  BY DEF Roles, ClientReceiveProtoVersion
<1>2. /\ Handshaking("client") /\ Unread("client") /\ c.st = "WaitingForProtoVersion"
      /\ rd["client"] = 0 /\ Len(wire["client"]) \in Nat
  BY <1>1, AtPlaces DEF Place
<1>3. Len(wire["client"]) = starts /\ Lead("client") = starts
  BY <1>1, <1>2 DEF At, PlaceInv, LinesWritten, Lead
<1>4. CASE Refuse("client", <<>>)
  BY <1>1, <1>2, <1>4, NoneInOrder, RefusePlaces
<1>5. ASSUME NEW cookie \in Cookies, NEW offer \in OwnOffers["client"],
             Proceed("client", Next1(KexInit(cookie, offer)),
                     <<Build(Naked, 0, KexInit(cookie, offer))>>)
      PROVE  PlaceInv'
  <2> DEFINE kexinit == KexInit(cookie, offer)
             out == <<Build(Naked, 0, kexinit)>>
             next == Next1(kexinit)
  <2>1. kexinit \in Messages /\ kexinit.type = "KEXINIT"
    BY <1>1, KexInitType DEF KexInit
  <2>2. (Len(wire["client"]) + 1) - Lead("client") = 1 /\ Kind("client", 1) = "KEXINIT"
    BY <1>2, <1>3 DEF Kind
  <2> HIDE DEF kexinit
  <2>3. /\ out \in Seq(Units) /\ Len(out) = 1 /\ InOrder("client", out)
        /\ \A k \in 1 .. Len(out) : out[k].form = "whole"
    BY <1>1, <2>1, <2>2, OneInOrder, CodecTypes
  <2>4. next.st = "WaitingForServerKexInit"
    BY DEF ClientAfterProtoVersion
  <2>5. Place("client", next.st, Len(wire["client"]) + Len(out), rd["client"] + 1)
    BY <1>2, <1>3, <2>3, <2>4 DEF Place
  <2>6. Proceed("client", next, out)
    BY <1>5 DEF kexinit
  <2> HIDE DEF out, next
  <2> QED
    BY <1>1, <1>2, <2>3, <2>4, <2>5, <2>6, ProceedPlaces
<1> QED
  BY <1>4, <1>5 DEF ClientReceiveProtoVersion

\* Its KEXDH_INIT follows its KEXINIT.
LEMMA ClientReceiveServerKexinitPlaces ==
  ASSUME TypeOK, PlaceInv, ClientReceiveServerKexinit
  PROVE  PlaceInv'
<1> DEFINE c == ep["client"]
           msg == NextUnit("client").msg
           neg == client_negotiate(c.client_kexinit.offer, msg.offer)
<1>1. "client" \in Roles /\ At("client", "WaitingForServerKexInit")
  BY DEF Roles, ClientReceiveServerKexinit
<1>2. /\ Handshaking("client") /\ Unread("client") /\ c.st = "WaitingForServerKexInit"
      /\ rd["client"] = 1 /\ Len(wire["client"]) = Lead("client") + 1
      /\ Lead("client") \in Nat
  BY <1>1, AtPlaces DEF Place
<1>3. CASE Refuse("client", <<>>)
  BY <1>1, <1>2, <1>3, NoneInOrder, RefusePlaces
<1>4. ASSUME Negotiable(c.client_kexinit.offer, msg.offer), NEW secret \in DhSecrets(neg["kex"]),
             Proceed("client", ClientAfterKexInit(c, msg, neg, secret),
                     <<Build(c.encoder, c.send_seq, KexDhInit(PublicValue(neg["kex"], secret)))>>)
      PROVE  PlaceInv'
  <2> DEFINE init == KexDhInit(PublicValue(neg["kex"], secret))
             out == <<Build(c.encoder, c.send_seq, init)>>
             next == ClientAfterKexInit(c, msg, neg, secret)
  <2>1. init \in Messages /\ init.type = "KEXDH_INIT"
    <3>1. neg["kex"] \in KexNames
      BY <1>4, NegotiatedType, NegotiatedKex
    <3>2. PublicValue(neg["kex"], secret) \in Nat
      BY <1>4, <3>1, SecretType, DhType
    <3> QED
      BY <3>2 DEF KexDhInit, Messages
  <2>2. c.encoder \in Codecs /\ c.send_seq \in Nat
    BY <1>2, ClientVariant DEF ClientAtKexInit
  <2>3. (Len(wire["client"]) + 1) - Lead("client") = 2 /\ Kind("client", 2) = "KEXDH_INIT"
    BY <1>2 DEF Kind
  <2> HIDE DEF init
  <2>4. /\ out \in Seq(Units) /\ Len(out) = 1 /\ InOrder("client", out)
        /\ \A k \in 1 .. Len(out) : out[k].form = "whole"
    BY <1>1, <2>1, <2>2, <2>3, OneInOrder
  <2>5. next.st = "WaitingForKexReply"
    BY DEF ClientAfterKexInit
  <2>6. Place("client", next.st, Len(wire["client"]) + Len(out), rd["client"] + 1)
    BY <1>2, <2>4, <2>5 DEF Place
  <2>7. Proceed("client", next, out)
    BY <1>4 DEF init
  <2> HIDE DEF out, next
  <2> QED
    BY <1>1, <1>2, <2>4, <2>5, <2>6, <2>7, ProceedPlaces
<1> QED
  BY <1>3, <1>4 DEF ClientReceiveServerKexinit

\* Its NEWKEYS follows its KEXDH_INIT.
LEMMA ClientReceiveKexReplyPlaces ==
  ASSUME TypeOK, PlaceInv, ClientReceiveKexReply
  PROVE  PlaceInv'
<1> DEFINE c == ep["client"]
           msg == NextUnit("client").msg
           out == <<Build(c.encoder, c.send_seq, NewKeys)>>
           next == ClientAfterKexReply(c, msg)
<1>1. "client" \in Roles /\ At("client", "WaitingForKexReply")
  BY DEF Roles, ClientReceiveKexReply
<1>2. /\ Handshaking("client") /\ Unread("client") /\ c.st = "WaitingForKexReply"
      /\ rd["client"] = 2 /\ Len(wire["client"]) = Lead("client") + 2
      /\ Lead("client") \in Nat
  BY <1>1, AtPlaces DEF Place
<1>3. CASE Refuse("client", <<>>)
  BY <1>1, <1>2, <1>3, NoneInOrder, RefusePlaces
<1>4. CASE Proceed("client", next, out)
  <2>1. NewKeys \in Messages /\ NewKeys.type = "NEWKEYS"
    BY DEF NewKeys, Messages
  <2>2. c.encoder \in Codecs /\ c.send_seq \in Nat
    BY <1>2, ClientVariant DEF ClientAtKexReply
  <2>3. (Len(wire["client"]) + 1) - Lead("client") = 3 /\ Kind("client", 3) = "NEWKEYS"
    BY <1>2 DEF Kind
  <2>4. /\ out \in Seq(Units) /\ Len(out) = 1 /\ InOrder("client", out)
        /\ \A k \in 1 .. Len(out) : out[k].form = "whole"
    BY <1>1, <2>1, <2>2, <2>3, OneInOrder
  <2>5. next.st = "WaitingForNewKeys"
    BY DEF ClientAfterKexReply
  <2>6. Place("client", next.st, Len(wire["client"]) + Len(out), rd["client"] + 1)
    BY <1>2, <2>4, <2>5 DEF Place
  <2> HIDE DEF out, next
  <2> QED
    BY <1>1, <1>2, <1>4, <2>4, <2>5, <2>6, ProceedPlaces
<1> QED
  BY <1>3, <1>4 DEF ClientReceiveKexReply
\* The server's line answers the client's.
LEMMA ServerReceiveProtoVersionPlaces ==
  ASSUME TypeOK, PlaceInv, ServerReceiveProtoVersion
  PROVE  PlaceInv'
<1> DEFINE next == ServerAfterProtoVersion(ep["server"], NextUnit("server").msg)
           out == <<Line("server")>>
<1>1. "server" \in Roles /\ At("server", "WaitingForProtoVersion")
  BY DEF Roles, ServerReceiveProtoVersion
<1>2. /\ Handshaking("server") /\ Unread("server") /\ Lead("server") = 1
      /\ rd["server"] = 0 /\ Len(wire["server"]) = 0
  BY <1>1, AtPlaces DEF Place, Lead
<1>3. CASE Refuse("server", <<>>)
  BY <1>1, <1>2, <1>3, NoneInOrder, RefusePlaces
<1>4. CASE Proceed("server", next, out)
  <2>1. IdLine(OwnId["server"]) \in Messages /\ IdLine(OwnId["server"]).type = "ID"
    BY <1>1, TransportAssumption DEF IdLine, Messages
  <2>2. (Len(wire["server"]) + 1) - Lead("server") = 0 /\ Kind("server", 0) = "ID"
    BY <1>2 DEF Kind
  <2>3. /\ out \in Seq(Units) /\ Len(out) = 1 /\ InOrder("server", out)
        /\ \A k \in 1 .. Len(out) : out[k].form = "whole"
    BY <1>1, <2>1, <2>2, OneInOrder, CodecTypes DEF Line
  <2>4. next.st = "WaitingForClientKexInit"
    BY DEF ServerAfterProtoVersion
  <2>5. Place("server", next.st, Len(wire["server"]) + Len(out), rd["server"] + 1)
    BY <1>2, <2>3, <2>4 DEF Place
  <2> HIDE DEF out, next
  <2> QED
    BY <1>1, <1>2, <1>4, <2>3, <2>4, <2>5, ProceedPlaces
<1> QED
  BY <1>3, <1>4 DEF ServerReceiveProtoVersion

\* The client's KEXINIT in its place proves that start was called once only.
LEMMA KexInitAfterOneLine ==
  ASSUME TypeOK, PlaceInv, At("server", "WaitingForClientKexInit"), Received("server", "KEXINIT")
  PROVE  starts = 1 /\ ep["client"].st # "WaitingForProtoVersion"
<1>1. "server" \in Roles /\ "client" \in Roles /\ Peer("server") = "client"
  BY DEF Roles, Peer
<1>2. Unread("server") /\ rd["server"] = 1 /\ starts \in Nat
  BY <1>1, AtPlaces DEF Place
<1>3. Len(wire["client"]) \in Nat /\ Len(wire["client"]) >= 2
  BY <1>1, <1>2 DEF Unread, TypeOK
<1>4. wire["client"][2].msg.type = "KEXINIT"
  BY <1>1, <1>2 DEF Received, NextUnit
<1>5. wire["client"][2].msg.type \in {Kind("client", 2 - starts), "GARBAGE"}
  BY <1>1, <1>3 DEF PlaceInv, KindsInOrder, Lead
<1>6. Kind("client", 2 - starts) = "KEXINIT"
  BY <1>4, <1>5
<1>7. 2 - starts = 1
  BY <1>2, <1>6 DEF Kind
<1>8. starts = 1
  BY <1>2, <1>7
<1>9. ep["client"].st = "WaitingForProtoVersion" => Len(wire["client"]) <= starts
  BY <1>1 DEF PlaceInv, Places, Place
<1> QED
  BY <1>3, <1>8, <1>9

\* The server's KEXINIT follows its line, also when the proposals mismatch.
LEMMA ServerReceiveClientKexinitPlaces ==
  ASSUME TypeOK, PlaceInv, ServerReceiveClientKexinit
  PROVE  PlaceInv'
<1> DEFINE s == ep["server"]
           msg == NextUnit("server").msg
<1>1. "server" \in Roles /\ At("server", "WaitingForClientKexInit")
  BY DEF Roles, ServerReceiveClientKexinit
<1>2. /\ Handshaking("server") /\ Unread("server") /\ s.st = "WaitingForClientKexInit"
      /\ rd["server"] = 1 /\ Len(wire["server"]) = 1 /\ Lead("server") = 1
  BY <1>1, AtPlaces DEF Place, Lead
<1>3. CASE Refuse("server", <<>>)
  BY <1>1, <1>2, <1>3, NoneInOrder, RefusePlaces
<1>4. ASSUME Received("server", "KEXINIT"), NEW cookie \in Cookies, NEW offer \in OwnOffers["server"],
             LET kexinit == KexInit(cookie, offer)
                 out == <<Build(s.encoder, s.send_seq, kexinit)>>
             IN  \/ ~Negotiable(msg.offer, offer) /\ Refuse("server", out)
                 \/ /\ Negotiable(msg.offer, offer)
                    /\ Proceed("server", ServerAfterKexInit(s, msg, kexinit), out)
      PROVE  PlaceInv'
  <2> DEFINE kexinit == KexInit(cookie, offer)
             out == <<Build(s.encoder, s.send_seq, kexinit)>>
             next == ServerAfterKexInit(s, msg, kexinit)
  <2>1. kexinit \in Messages /\ kexinit.type = "KEXINIT"
    BY <1>1, <1>4, KexInitType DEF KexInit
  <2>2. s.encoder \in Codecs /\ s.send_seq \in Nat
    BY <1>2, ServerVariant DEF ServerAtKexInit
  <2>3. (Len(wire["server"]) + 1) - Lead("server") = 1 /\ Kind("server", 1) = "KEXINIT"
    BY <1>2 DEF Kind
  <2>4. Refuse("server", out) \/ Proceed("server", next, out)
    BY <1>4
  <2>5. next.st = "WaitingForKexDhInit"
    BY DEF ServerAfterKexInit
  <2>6. starts = 1 /\ ep["client"].st # "WaitingForProtoVersion"
    BY <1>1, <1>4, KexInitAfterOneLine
  <2> HIDE DEF kexinit
  <2>7. /\ out \in Seq(Units) /\ Len(out) = 1 /\ InOrder("server", out)
        /\ \A k \in 1 .. Len(out) : out[k].form = "whole"
    BY <1>1, <2>1, <2>2, <2>3, OneInOrder
  <2>8. Place("server", next.st, Len(wire["server"]) + Len(out), rd["server"] + 1)
    BY <1>2, <2>5, <2>7 DEF Place, Lead
  <2> HIDE DEF out, next
  <2>9. CASE Refuse("server", out)
    BY <1>1, <1>2, <2>7, <2>9, RefusePlaces
  <2>10. CASE Proceed("server", next, out)
    BY <1>1, <1>2, <2>5, <2>6, <2>7, <2>8, <2>10, ProceedPlaces
  <2> QED
    BY <2>4, <2>9, <2>10
<1> QED
  BY <1>3, <1>4 DEF ServerReceiveClientKexinit

\* The reply and NEWKEYS follow its KEXINIT.
LEMMA ServerReceiveKexdhInitPlaces ==
  ASSUME TypeOK, PlaceInv, ServerReceiveKexdhInit
  PROVE  PlaceInv'
<1> DEFINE s == ep["server"]
           msg == NextUnit("server").msg
<1>1. "server" \in Roles /\ At("server", "WaitingForKexDhInit")
  BY DEF Roles, ServerReceiveKexdhInit
<1>2. /\ Handshaking("server") /\ Unread("server") /\ s.st = "WaitingForKexDhInit"
      /\ rd["server"] = 2 /\ Len(wire["server"]) = 2 /\ Lead("server") = 1
  BY <1>1, AtPlaces DEF Place, Lead
<1>3. CASE Refuse("server", <<>>)
  BY <1>1, <1>2, <1>3, NoneInOrder, RefusePlaces
<1>4. ASSUME Received("server", "KEXDH_INIT"), NEW secret \in DhSecrets(s.negotiated["kex"]),
             Proceed("server", ServerAfterKexDhInit(s, msg.e, secret),
               <<Build(s.encoder, s.send_seq, ServerReply(s, msg.e, secret)),
                 Build(Advance(s.encoder), SeqAdd(s.send_seq, 1), NewKeys)>>)
      PROVE  PlaceInv'
  <2> DEFINE reply == Build(s.encoder, s.send_seq, ServerReply(s, msg.e, secret))
             newkeys == Build(Advance(s.encoder), SeqAdd(s.send_seq, 1), NewKeys)
             next == ServerAfterKexDhInit(s, msg.e, secret)
  <2>1. s \in ServerAtKexDhInit /\ msg \in Messages
    BY <1>1, <1>2, ServerVariant, NextUnitType
  <2>2. msg.e \in Nat
    BY <1>4, <2>1, MessageVariant DEF Received
  <2>3. ServerReply(s, msg.e, secret) \in Messages
        /\ ServerReply(s, msg.e, secret).type = "KEXDH_REPLY"
    <3>1. ServerReply(s, msg.e, secret) \in Messages
      BY <1>4, <2>1, <2>2, ServerReplyType
    <3> QED
      BY <3>1 DEF ServerReply, KexDhReply
  <2>4. s.encoder \in Codecs /\ s.send_seq \in Nat
    BY <2>1 DEF ServerAtKexDhInit
  <2>5. reply \in Units /\ reply.form = "whole" /\ reply.msg.type = "KEXDH_REPLY"
    BY <2>3, <2>4, BuildType DEF Build
  <2>6. newkeys \in Units /\ newkeys.form = "whole" /\ newkeys.msg.type = "NEWKEYS"
    <3>1. NewKeys \in Messages /\ NewKeys.type = "NEWKEYS"
      BY DEF NewKeys, Messages
    <3>2. Advance(s.encoder) \in Codecs /\ SeqAdd(s.send_seq, 1) \in Nat
      BY <2>4, CodecTypes, SeqAddType
    <3> QED
      BY <3>1, <3>2, BuildType DEF Build
  <2>7. next.st = "WaitingForNewKeys"
    BY DEF ServerAfterKexDhInit
  <2>8. Proceed("server", next, <<reply, newkeys>>)
    BY <1>4
  <2> HIDE DEF reply, newkeys, next
  <2> DEFINE out == <<reply, newkeys>>
  <2>9. out \in Seq(Units) /\ Len(out) = 2 /\ out[1] = reply /\ out[2] = newkeys
    BY <2>5, <2>6
  <2>10. /\ (Len(wire["server"]) + 1) - Lead("server") = 2 /\ Kind("server", 2) = "KEXDH_REPLY"
         /\ (Len(wire["server"]) + 2) - Lead("server") = 3 /\ Kind("server", 3) = "NEWKEYS"
    BY <1>2 DEF Kind
  <2>11. 1 .. Len(out) = {1, 2}
    BY <2>9
  <2>12. InOrder("server", out) /\ \A k \in 1 .. Len(out) : out[k].form = "whole"
    BY <2>5, <2>6, <2>9, <2>10, <2>11 DEF InOrder
  <2>13. Place("server", next.st, Len(wire["server"]) + Len(out), rd["server"] + 1)
    BY <1>2, <2>7, <2>9 DEF Place
  <2>14. starts = 1 /\ ep["client"].st # "WaitingForProtoVersion"
    BY <1>2 DEF PlaceInv, StartedOnce
  <2>15. Proceed("server", next, out) /\ out \in Seq(Units)
    BY <2>8, <2>9
  <2> HIDE DEF out
  <2> QED
    BY <1>1, <1>2, <2>7, <2>12, <2>13, <2>14, <2>15, ProceedPlaces
<1> QED
  BY <1>3, <1>4 DEF ServerReceiveKexdhInit

\* NEWKEYS is read without an answer.
LEMMA ReceiveNewkeysPlaces ==
  ASSUME TypeOK, PlaceInv, NEW p \in Roles, ReceiveNewkeys(p)
  PROVE  PlaceInv'
<1> DEFINE next == AfterNewKeys(ep[p])
<1>1. At(p, "WaitingForNewKeys")
  BY DEF ReceiveNewkeys
<1>2. /\ Handshaking(p) /\ Unread(p) /\ ep[p].st = "WaitingForNewKeys"
      /\ rd[p] = 3 /\ Len(wire[p]) = Lead(p) + 3 /\ Lead(p) \in Nat
  BY <1>1, AtPlaces DEF Place
<1>3. CASE Refuse(p, <<>>)
  BY <1>1, <1>2, <1>3, NoneInOrder, RefusePlaces
<1>4. CASE Proceed(p, next, <<>>)
  <2>1. next.st = "Ready"
    BY DEF AfterNewKeys
  <2>2. Place(p, next.st, Len(wire[p]) + Len(<<>>), rd[p] + 1)
    BY <1>2, <2>1, NoneInOrder DEF Place
  <2>3. p = "server" => starts = 1 /\ ep["client"].st # "WaitingForProtoVersion"
    BY <1>2 DEF PlaceInv, StartedOnce
  <2> HIDE DEF next
  <2> QED
    BY <1>2, <1>4, <2>1, <2>2, <2>3, NoneInOrder, ProceedPlaces
<1> QED
  BY <1>3, <1>4 DEF ReceiveNewkeys
\* A handshake that breaks off leaves the wires as they are.
LEMMA AbandonPlaces ==
  ASSUME TypeOK, PlaceInv, NEW p \in Roles, GiveUp(p), UNCHANGED <<wire, rd, starts>>
  PROVE  PlaceInv'
<1>1. KindsInOrder'
  BY DEF PlaceInv, KindsInOrder, Lead
<1> QED
  BY <1>1, GiveUpPlaces

\* An open end is past its handshake.
LEMMA OpenPlaces ==
  ASSUME TypeOK, PlaceInv, NEW p \in Roles, Open(p)
  PROVE  /\ ep[p] \in AtReady /\ ep[p].st = "Ready" /\ starts \in Nat /\ starts > 0
         /\ Len(wire[p]) \in Nat /\ Lead(p) \in Nat /\ Len(wire[p]) >= Lead(p) + 3
         /\ rd[p] \in Nat /\ rd[p] >= 4
<1>1. ep[p] \in AtReady /\ ep[p].st = "Ready"
  BY ReadyVariant DEF Open
<1>2. starts \in Nat /\ Len(wire[p]) \in Nat /\ rd[p] \in Nat /\ Lead(p) \in Nat
  BY DEF TypeOK, Lead
<1>3. Len(wire[p]) >= Lead(p) + 3 /\ rd[p] >= 4
  BY <1>1 DEF PlaceInv, Places, Place
<1>4. Len(wire[p]) # 0
  BY <1>2, <1>3
<1>5. starts # 0
  BY <1>4 DEF PlaceInv, StartsFirst
<1> QED
  BY <1>1, <1>2, <1>3, <1>5

\* Payload comes after all of it.
LEMMA SendPacketPlaces ==
  ASSUME TypeOK, PlaceInv, NEW p \in Roles, SendPacket(p)
  PROVE  PlaceInv'
<1> DEFINE x == ep[p]
           unit == Build(x.encoder, x.send_seq, Payload(Len(sends[p]) + 1))
           out == <<unit>>
<1>1. /\ x \in AtReady /\ x.st = "Ready" /\ starts > 0 /\ starts \in Nat
      /\ Len(wire[p]) \in Nat /\ Lead(p) \in Nat /\ Len(wire[p]) >= Lead(p) + 3
      /\ rd[p] >= 4
  BY OpenPlaces DEF SendPacket
<1>2. UNCHANGED <<starts, rd, closed>>
  BY DEF SendPacket
<1>3. ep'[p].st = "Ready" /\ \A q \in Roles : q # p => ep'[q] = ep[q]
  <2>1. ep'[p] \in {[x EXCEPT !.encoder = Advance(x.encoder),
                              !.send_seq = SeqAdd(x.send_seq, 1)],
                    [x EXCEPT !.encoder = Advance(x.encoder)]}
        /\ \A q \in Roles : q # p => ep'[q] = ep[q]
    BY DEF SendPacket, TypeOK
  <2> QED
    BY <1>1, <2>1 DEF AtReady
<1>4. Writes(p, out)
  BY DEF SendPacket, Writes
<1>5. out \in Seq(Units) /\ InOrder(p, out)
  <2>1. Len(sends[p]) \in Nat
    BY DEF TypeOK
  <2>2. Payload(Len(sends[p]) + 1) \in Messages /\ Payload(Len(sends[p]) + 1).type = "PAYLOAD"
    BY <2>1 DEF Payload, Messages
  <2>3. x.encoder \in Codecs /\ x.send_seq \in Nat
    BY <1>1 DEF AtReady
  <2>4. Kind(p, (Len(wire[p]) + 1) - Lead(p)) = "PAYLOAD"
    BY <1>1 DEF Kind
  <2> QED
    BY <2>2, <2>3, <2>4, OneInOrder
<1> HIDE DEF out
<1>6. KindsInOrder'
  BY <1>2, <1>4, <1>5, OrderedWrite DEF PlaceInv
<1>7. PICK units \in Seq(Units) : Write(p, units)
  BY <1>4, <1>5, CutsShorter DEF Writes
<1>8. /\ \A q \in Roles : q # p => wire'[q] = wire[q]
      /\ Len(wire'[p]) \in Nat /\ Len(wire'[p]) >= Len(wire[p])
  BY <1>1, <1>7, WritePlaces
<1>9. Places'
  <2>1. Len(wire'[p]) >= Lead(p) + 3
    BY <1>1, <1>8
  <2>2. Place(p, ep'[p].st, Len(wire'[p]), rd[p])
    BY <1>1, <1>3, <2>1 DEF Place
  <2> QED
    BY <1>2, <1>3, <1>8, <2>2 DEF PlaceInv, Places, Place, Lead
<1>10. LinesWritten'
  BY <1>2, <1>3, <1>8 DEF PlaceInv, LinesWritten, Roles
<1>11. WholeUntilReady'
  BY <1>2, <1>3, <1>8 DEF PlaceInv, WholeUntilReady, Handshaking
<1>12. StartsFirst'
  BY <1>1, <1>2 DEF StartsFirst
<1>13. StartedOnce'
  BY <1>1, <1>2, <1>3 DEF PlaceInv, StartedOnce, Roles
<1> QED
  BY <1>6, <1>9, <1>10, <1>11, <1>12, <1>13 DEF PlaceInv

\* Reading payload, and leaving, change no wire.
LEMMA QuietPlaces ==
  ASSUME TypeOK, PlaceInv, NEW p \in Roles, Open(p), UNCHANGED <<wire, starts>>,
         ep'[p].st = "Ready", \A q \in Roles : q # p => ep'[q] = ep[q],
         rd'[p] \in {rd[p], rd[p] + 1}, \A q \in Roles : q # p => rd'[q] = rd[q],
         \A q \in Roles : q # p => closed'[q] = closed[q]
  PROVE  PlaceInv'
<1>1. ep[p].st = "Ready" /\ rd[p] \in Nat /\ rd[p] >= 4
  BY OpenPlaces
<1>2. rd'[p] >= 4
  BY <1>1
<1>3. KindsInOrder'
  BY DEF PlaceInv, KindsInOrder, Lead
<1>4. Places'
  <2>1. Place(p, ep'[p].st, Len(wire[p]), rd'[p])
    BY <1>1, <1>2 DEF PlaceInv, Places, Place
  <2> QED
    BY <2>1 DEF PlaceInv, Places, Place, Lead
<1>5. LinesWritten'
  BY <1>1 DEF PlaceInv, LinesWritten, Roles
<1>6. WholeUntilReady'
  BY <1>1 DEF PlaceInv, WholeUntilReady, Handshaking
<1>7. StartsFirst' /\ StartedOnce'
  BY <1>1 DEF PlaceInv, StartsFirst, StartedOnce, Roles
<1> QED
  BY <1>3, <1>4, <1>5, <1>6, <1>7 DEF PlaceInv

\* What a call of an open end that sends nothing does to its state.
LEMMA ReadyPlaces ==
  ASSUME TypeOK, PlaceInv, NEW p \in Roles, ReadPacket(p) \/ ReadPacketError(p) \/ Close(p)
  PROVE  PlaceInv'
<1> DEFINE x == ep[p]
<1>1. Open(p) /\ UNCHANGED <<wire, starts>>
  BY DEF ReadPacket, ReadPacketError, Close
<1>2. x \in AtReady /\ x.st = "Ready"
  BY <1>1, OpenPlaces
<1>3. ep'[p].st = "Ready" /\ \A q \in Roles : q # p => ep'[q] = ep[q]
  <2>1. CASE ReadPacket(p)
    <3>1. \/ ep'[p] = [x EXCEPT !.decoder = Advance(x.decoder), !.recv_seq = SeqAdd(x.recv_seq, 1)]
          \/ \E decoder : ep'[p] = [x EXCEPT !.decoder = decoder]
      BY <2>1 DEF ReadPacket, TypeOK
    <3> QED
      BY <1>2, <2>1, <3>1 DEF ReadPacket, AtReady, TypeOK
  <2>2. CASE ReadPacketError(p)
    BY <1>2, <2>2 DEF ReadPacketError, AtReady, TypeOK
  <2>3. CASE Close(p)
    BY <1>2, <2>3 DEF Close
  <2> QED
    BY <2>1, <2>2, <2>3
<1>4. rd'[p] \in {rd[p], rd[p] + 1} /\ \A q \in Roles : q # p => rd'[q] = rd[q]
  BY DEF ReadPacket, ReadPacketError, Close, TypeOK
<1>5. \A q \in Roles : q # p => closed'[q] = closed[q]
  BY DEF ReadPacket, ReadPacketError, Close, TypeOK
<1> QED
  BY <1>1, <1>3, <1>4, <1>5, QuietPlaces

\* Damage changes one unread unit, neither its place nor its length; what is
\* not sealed stays of its kind or becomes garbage, what is sealed its message.
LEMMA DamageAlters ==
  ASSUME TypeOK, NEW p \in Roles, Damage(p), NEW r \in Roles
  PROVE  /\ Len(wire'[r]) = Len(wire[r])
         /\ \A i \in 1 .. Len(wire[r]) :
              \/ wire'[r][i] = wire[r][i]
              \/ /\ r = Peer(p) /\ i = rd[p] + 1 /\ wire[r][i].form = "whole"
                 /\ wire'[r][i].key = wire[r][i].key
                 /\ wire'[r][i].form \in {"whole", "damaged"}
                 /\ wire'[r][i].msg.type \in {wire[r][i].msg.type, "GARBAGE"}
                 /\ wire[r][i].key = NoKey =>
                      wire'[r][i].msg \in Garbled(wire[r][i].msg) \ {wire[r][i].msg}
                 /\ wire[r][i].key # NoKey =>
                      wire'[r][i].form = "damaged" /\ wire'[r][i].msg = wire[r][i].msg
<1> DEFINE q == Peer(p)
           n == rd[p] + 1
           u == NextUnit(p)
<1>1. q \in Roles /\ n \in 1 .. Len(wire[q]) /\ u \in Units /\ u = wire[q][n] /\ u.form = "whole"
  BY NextUnitType DEF Damage, NextUnit, Peer, Roles
<1>2. PICK unit \in Damaged(u) : wire' = [wire EXCEPT ![q][n] = unit]
  BY DEF Damage
<1>3. /\ unit.key = u.key /\ unit.form \in {"whole", "damaged"}
      /\ unit.msg.type \in {u.msg.type, "GARBAGE"}
      /\ u.key = NoKey => unit.msg \in Garbled(u.msg) \ {u.msg}
      /\ u.key # NoKey => unit.form = "damaged" /\ unit.msg = u.msg
  <2>1. CASE u.key = NoKey
    <3>1. PICK m \in Garbled(u.msg) \ {u.msg} : unit = [u EXCEPT !.msg = m]
      BY <1>2, <2>1 DEF Damaged
    <3>2. m.type \in {u.msg.type, "GARBAGE"}
      BY <3>1 DEF Garbled, Garbage, IdLine, KexInit, KexDhInit, KexDhReply
    <3> QED
      BY <1>1, <2>1, <3>1, <3>2 DEF Units
  <2>2. CASE u.key # NoKey
    <3>1. unit = [u EXCEPT !.form = "damaged"]
      BY <1>2, <2>2 DEF Damaged
    <3> QED
      BY <1>1, <2>2, <3>1 DEF Units
  <2> QED
    BY <2>1, <2>2
<1>4. wire[r] \in Seq(Units)
  BY DEF TypeOK
<1>5. wire'[r] = IF r = q THEN [wire[q] EXCEPT ![n] = unit] ELSE wire[r]
  BY <1>1, <1>2 DEF TypeOK
<1> HIDE DEF q, n, u
<1>6. Len(wire'[r]) = Len(wire[r])
      /\ \A i \in 1 .. Len(wire[r]) :
           wire'[r][i] = IF r = q /\ i = n THEN unit ELSE wire[r][i]
  BY <1>1, <1>4, <1>5
<1> QED
  BY <1>1, <1>3, <1>6 DEF q, n

\* So it keeps the invariant.
LEMMA DamagePlaces ==
  ASSUME TypeOK, PlaceInv, NEW p \in Roles, Damage(p)
  PROVE  PlaceInv'
<1>1. UNCHANGED <<ep, rd, closed, starts>>
  BY DEF Damage
<1>2. \A r \in Roles : Len(wire'[r]) = Len(wire[r])
  BY DamageAlters
<1>3. \A r \in Roles : \A i \in 1 .. Len(wire[r]) :
        /\ wire'[r][i].msg.type \in {wire[r][i].msg.type, "GARBAGE"}
        /\ wire[r][i].form # "partial" => wire'[r][i].form # "partial"
  BY DamageAlters
<1>4. KindsInOrder'
  BY <1>1, <1>2, <1>3 DEF PlaceInv, KindsInOrder, Lead
<1>5. Places' /\ LinesWritten'
  BY <1>1, <1>2 DEF PlaceInv, Places, Place, LinesWritten, Lead, Roles
<1>6. WholeUntilReady'
  BY <1>1, <1>2, <1>3 DEF PlaceInv, WholeUntilReady, Handshaking
<1>7. StartsFirst' /\ StartedOnce'
  BY <1>1, <1>2 DEF PlaceInv, StartsFirst, StartedOnce
<1> QED
  BY <1>4, <1>5, <1>6, <1>7 DEF PlaceInv
-----------------------------------------------------------------------------
\* Nothing is written before the first step.
LEMMA InitPlaces == Init => PlaceInv
<1> SUFFICES ASSUME Init
             PROVE  PlaceInv
  OBVIOUS
<1>1. \A p \in Roles : /\ ep[p].st = "WaitingForProtoVersion" /\ wire[p] = <<>> /\ rd[p] = 0
  BY DEF Init, Roles
<1>2. starts = 0 /\ \A p \in Roles : Len(wire[p]) = 0
  BY <1>1 DEF Init
<1>3. KindsInOrder /\ WholeUntilReady
  BY <1>1 DEF KindsInOrder, WholeUntilReady
<1>4. Places /\ LinesWritten /\ StartsFirst /\ StartedOnce
  BY <1>1, <1>2 DEF Places, Place, LinesWritten, StartsFirst, StartedOnce, Roles
<1> QED
  BY <1>3, <1>4 DEF PlaceInv

\* Every step keeps the places.
LEMMA NextPlaces ==
  ASSUME TypeOK, PlaceInv, [Next]_vars
  PROVE  PlaceInv'
<1>1. CASE UNCHANGED vars
  BY <1>1 DEF vars, PlaceInv, KindsInOrder, Places, Place, LinesWritten, WholeUntilReady,
     Handshaking, StartsFirst, StartedOnce, Lead
<1>2. CASE Start
  BY <1>2, StartPlaces
<1>3. CASE ClientReceive
  BY <1>3, ClientReceiveProtoVersionPlaces, ClientReceiveServerKexinitPlaces,
     ClientReceiveKexReplyPlaces, ReceiveNewkeysPlaces, AbandonPlaces
  DEF ClientReceive, Hangup, Roles
<1>4. CASE ServerReceive
  BY <1>4, ServerReceiveProtoVersionPlaces, ServerReceiveClientKexinitPlaces,
     ServerReceiveKexdhInitPlaces, ReceiveNewkeysPlaces, AbandonPlaces
  DEF ServerReceive, Hangup, Roles
<1>5. ASSUME NEW p \in Roles, Ready(p) \/ ReadError(p) \/ Damage(p)
      PROVE  PlaceInv'
  BY <1>5, SendPacketPlaces, ReadyPlaces, AbandonPlaces, DamagePlaces
  DEF Ready, ReadError
<1> QED
  BY <1>1, <1>2, <1>3, <1>4, <1>5 DEF Next

\* The state of an end tells what it has written and read, for every damage
\* and failure, and the place of a unit what it was (all handlers).
THEOREM PlacesHold == Spec => []PlaceInv
<1>1. Init => TypeOK /\ PlaceInv
  BY InitType, InitPlaces
<1>2. TypeOK /\ PlaceInv /\ [Next]_vars => TypeOK' /\ PlaceInv'
  BY NextType, NextPlaces
<1> QED
  BY <1>1, <1>2, PTL DEF Spec

\* No two states of the handshake wait for each other with nothing on its way.
LEMMA PlacesLeaveNoWait ==
  ASSUME TypeOK, PlaceInv
  PROVE  NoMutualWait
<1> SUFFICES ASSUME starts > 0, Blocked("client"), Blocked("server")
             PROVE  FALSE
  BY DEF NoMutualWait
<1> DEFINE c == Len(wire["client"])
           s == Len(wire["server"])
<1>1. /\ Peer("client") = "server" /\ Peer("server") = "client"
      /\ "client" \in Roles /\ "server" \in Roles
  BY DEF Peer, Roles
<1>2. \A p \in Roles : ~closed[p] /\ Handshaking(p)
  BY DEF Blocked, Handshaking, Roles
<1>3. ASSUME NEW p \in Roles, Unread(p), ~Readable(p)
      PROVE  FALSE
  <2>1. rd[p] + 1 \in 1 .. Len(wire[Peer(p)]) /\ Peer(p) \in Roles
    BY <1>3, NextUnitType
  <2>2. NextUnit(p).form # "partial"
    BY <1>2, <2>1 DEF PlaceInv, WholeUntilReady, NextUnit
  <2> QED
    BY <1>3, <2>2 DEF Readable
<1>4. ~Unread("client") /\ ~Unread("server")
  BY <1>1, <1>3 DEF Blocked
<1>5. starts \in Nat /\ c \in Nat /\ s \in Nat /\ rd["client"] = s /\ rd["server"] = c
  BY <1>1, <1>4 DEF TypeOK, Unread
<1>6. /\ ep["client"].st \in {"WaitingForProtoVersion", "WaitingForServerKexInit",
                              "WaitingForKexReply", "WaitingForNewKeys"}
      /\ ep["server"].st \in {"WaitingForProtoVersion", "WaitingForClientKexInit",
                              "WaitingForKexDhInit", "WaitingForNewKeys"}
  <2>1. ep["client"] \in States("client") /\ ep["server"] \in States("server")
    BY <1>1 DEF TypeOK
  <2>2. ep["client"].st \notin {"Ready", "Failed"} /\ ep["server"].st \notin {"Ready", "Failed"}
    BY <1>1, <1>2 DEF Handshaking
  <2> QED
    BY <2>1, <2>2 DEF States, AtReady, Failed,
       ClientAtProtoVersion, ClientAtKexInit, ClientAtKexReply, ClientAtNewKeys,
       ServerAtProtoVersion, ServerAtKexInit, ServerAtKexDhInit, ServerAtNewKeys
<1>7. Place("client", ep["client"].st, c, s) /\ Place("server", ep["server"].st, s, c)
  BY <1>1, <1>5 DEF PlaceInv, Places
<1>8. ep["client"].st = "WaitingForProtoVersion" => c = starts
  BY <1>1, <1>2 DEF PlaceInv, LinesWritten
<1> HIDE DEF c, s
<1> QED
  BY <1>5, <1>6, <1>7, <1>8 DEF Place, Lead

\* Client and server never both wait for the other to write, whatever was
\* damaged, cut short or started twice (client.rs, server.rs, all handlers).
THEOREM NeverBothBlocked == Spec => []NoMutualWait
<1>1. TypeOK /\ PlaceInv => NoMutualWait
  BY PlacesLeaveNoWait
<1> QED
  BY <1>1, TypeCorrect, PlacesHold, PTL
-----------------------------------------------------------------------------
(***************************************************************************)
(* The two state machines implement SecureChannel.                         *)
(***************************************************************************)

\* What remains to be known: an end that failed has dropped its stream, and on
\* a stream without I/O errors a send fails only once the reader is gone.
FailedHasLeft == \A p \in Roles : ep[p].st = "Failed" => closed[p]
SendsReachReader ==
  \A p \in Roles : \A m \in 1 .. Len(sends[p]) : sends[p][m] \/ closed[Peer(p)]
LeaveInv == FailedHasLeft /\ (~IoErrors => SendsReachReader)

\* A step that keeps closed streams closed, and sends nothing.
LEMMA LeaveStep ==
  ASSUME LeaveInv, UNCHANGED sends, \A p \in Roles : closed[p] => closed'[p],
         \A p \in Roles : ep'[p].st = "Failed" => ep[p].st = "Failed" \/ closed'[p]
  PROVE  LeaveInv'
<1>1. \A p \in Roles : Peer(p) \in Roles
  BY DEF Peer, Roles
<1>2. FailedHasLeft'
  BY DEF LeaveInv, FailedHasLeft
<1>3. SendsReachReader => SendsReachReader'
  BY <1>1 DEF SendsReachReader
<1> QED
  BY <1>2, <1>3 DEF LeaveInv

\* Every handler either returns a state or drops the stream.
LEMMA HandlerLeaves ==
  ASSUME TypeOK, LeaveInv, NEW p \in Roles, NEW next, NEW out,
         Refuse(p, out) \/ (next.st # "Failed" /\ Proceed(p, next, out))
  PROVE  LeaveInv'
<1>1. UNCHANGED sends
  BY DEF Refuse, Proceed, Consume
<1>2. CASE GiveUp(p)
  <2>1. \A q \in Roles : closed[q] => closed'[q]
    BY <1>2 DEF GiveUp, TypeOK
  <2>2. closed'[p] /\ \A q \in Roles : q # p => ep'[q] = ep[q]
    BY <1>2 DEF GiveUp, TypeOK
  <2> QED
    BY <1>1, <2>1, <2>2, LeaveStep
<1>3. CASE next.st # "Failed" /\ ep' = [ep EXCEPT ![p] = next] /\ UNCHANGED closed
  BY <1>1, <1>3, LeaveStep DEF TypeOK
<1> QED
  BY <1>2, <1>3 DEF Refuse, Proceed

\* A handshake that breaks off drops the stream too.
LEMMA AbandonLeaves ==
  ASSUME TypeOK, LeaveInv, NEW p \in Roles, GiveUp(p), UNCHANGED sends
  PROVE  LeaveInv'
<1>1. closed'[p] /\ \A q \in Roles : (closed[q] => closed'[q]) /\ (q # p => ep'[q] = ep[q])
  BY DEF GiveUp, TypeOK
<1> QED
  BY <1>1, LeaveStep

\* Each handler of the two state machines is of that form.
LEMMA ReceiveLeaves ==
  ASSUME TypeOK, LeaveInv, ClientReceive \/ ServerReceive
  PROVE  LeaveInv'
<1>1. "client" \in Roles /\ "server" \in Roles
  BY DEF Roles
<1>2. CASE ClientReceiveProtoVersion
  BY <1>1, <1>2, HandlerLeaves DEF ClientReceiveProtoVersion, ClientAfterProtoVersion
<1>3. CASE ClientReceiveServerKexinit
  BY <1>1, <1>3, HandlerLeaves DEF ClientReceiveServerKexinit, ClientAfterKexInit
<1>4. CASE ClientReceiveKexReply
  BY <1>1, <1>4, HandlerLeaves DEF ClientReceiveKexReply, ClientAfterKexReply
<1>5. CASE ServerReceiveProtoVersion
  BY <1>1, <1>5, HandlerLeaves DEF ServerReceiveProtoVersion, ServerAfterProtoVersion
<1>6. CASE ServerReceiveClientKexinit
  BY <1>1, <1>6, HandlerLeaves DEF ServerReceiveClientKexinit, ServerAfterKexInit
<1>7. CASE ServerReceiveKexdhInit
  BY <1>1, <1>7, HandlerLeaves DEF ServerReceiveKexdhInit, ServerAfterKexDhInit
<1>8. ASSUME NEW p \in Roles, ReceiveNewkeys(p)
      PROVE  LeaveInv'
  BY <1>8, HandlerLeaves DEF ReceiveNewkeys, AfterNewKeys
<1>9. ASSUME NEW p \in Roles, Hangup(p)
      PROVE  LeaveInv'
  BY <1>9, AbandonLeaves DEF Hangup
<1> QED
  BY <1>1, <1>2, <1>3, <1>4, <1>5, <1>6, <1>7, <1>8, <1>9 DEF ClientReceive, ServerReceive

\* A send that fails without an I/O error finds its reader gone.
LEMMA SendPacketLeaves ==
  ASSUME TypeOK, LeaveInv, NEW p \in Roles, SendPacket(p)
  PROVE  LeaveInv'
<1> DEFINE x == ep[p]
           calls == sends[p]
<1>1. x \in AtReady /\ calls \in Seq(BOOLEAN) /\ UNCHANGED closed
  BY ReadyVariant DEF SendPacket, TypeOK
<1>2. ep'[p].st = "Ready" /\ \A q \in Roles : q # p => ep'[q] = ep[q]
  <2>1. ep'[p] \in {[x EXCEPT !.encoder = Advance(x.encoder),
                              !.send_seq = SeqAdd(x.send_seq, 1)],
                    [x EXCEPT !.encoder = Advance(x.encoder)]}
        /\ \A q \in Roles : q # p => ep'[q] = ep[q]
    BY DEF SendPacket, TypeOK
  <2> QED
    BY <1>1, <2>1 DEF AtReady
<1>3. PICK ok \in BOOLEAN : /\ sends' = [sends EXCEPT ![p] = Append(calls, ok)]
                            /\ ok \/ WriteMayFail(p)
  BY DEF SendPacket
<1>4. FailedHasLeft'
  BY <1>1, <1>2 DEF LeaveInv, FailedHasLeft
<1>5. ~IoErrors => SendsReachReader'
  <2> SUFFICES ASSUME ~IoErrors, NEW q \in Roles, NEW m \in 1 .. Len(sends'[q])
               PROVE  sends'[q][m] \/ closed[Peer(q)]
    BY <1>1 DEF SendsReachReader
  <2>1. CASE q # p
    BY <1>3, <2>1 DEF TypeOK, LeaveInv, SendsReachReader
  <2>2. CASE q = p
    <3>1. sends'[p] = Append(calls, ok)
      BY <1>3 DEF TypeOK
    <3>2. \/ m \in 1 .. Len(calls) /\ sends'[p][m] = calls[m]
          \/ sends'[p][m] = ok
      BY <1>1, <2>2, <3>1
    <3>3. calls[m] \in BOOLEAN \/ m \notin 1 .. Len(calls)
      BY <1>1
    <3> QED
      BY <1>3, <2>2, <3>2 DEF LeaveInv, SendsReachReader, WriteMayFail
  <2> QED
    BY <2>1, <2>2
<1> QED
  BY <1>4, <1>5 DEF LeaveInv

\* Nothing else fails an end or a send.
LEMMA OtherLeaves ==
  ASSUME TypeOK, LeaveInv,
         \/ Start
         \/ \E p \in Roles : ReadPacket(p) \/ ReadPacketError(p) \/ Close(p) \/ Damage(p)
  PROVE  LeaveInv'
<1>1. UNCHANGED sends /\ \A p \in Roles : closed[p] => closed'[p]
  BY DEF Start, StartOk, StartErr, ReadPacket, ReadPacketError, Close, Damage, TypeOK
<1>2. \A p \in Roles : ep'[p].st = "Failed" => ep[p].st = "Failed"
  <2>1. CASE Start \/ \E p \in Roles : Close(p) \/ Damage(p)
    BY <2>1 DEF Start, Close, Damage
  <2>2. ASSUME NEW p \in Roles, ReadPacket(p) \/ ReadPacketError(p)
        PROVE  \A q \in Roles : ep'[q].st = "Failed" => ep[q].st = "Failed"
    <3> DEFINE x == ep[p]
    <3>1. x \in AtReady
      BY <2>2, ReadyVariant DEF ReadPacket, ReadPacketError
    <3>2. /\ \/ ep'[p] = [x EXCEPT !.decoder = Advance(x.decoder), !.recv_seq = SeqAdd(x.recv_seq, 1)]
             \/ \E decoder : ep'[p] = [x EXCEPT !.decoder = decoder]
          /\ \A q \in Roles : q # p => ep'[q] = ep[q]
      BY <2>2 DEF ReadPacket, ReadPacketError, TypeOK
    <3> QED
      BY <3>1, <3>2 DEF AtReady
  <2> QED
    BY <2>1, <2>2
<1> QED
  BY <1>1, <1>2, LeaveStep

\* Every step keeps this invariant.
LEMMA NextLeaves ==
  ASSUME TypeOK, LeaveInv, [Next]_vars
  PROVE  LeaveInv'
<1>1. CASE UNCHANGED vars
  BY <1>1, LeaveStep DEF vars
<1>2. CASE Start
  BY <1>2, OtherLeaves
<1>3. CASE ClientReceive \/ ServerReceive
  BY <1>3, ReceiveLeaves
<1>4. ASSUME NEW p \in Roles, Ready(p) \/ ReadError(p) \/ Damage(p)
      PROVE  LeaveInv'
  BY <1>4, OtherLeaves, SendPacketLeaves, AbandonLeaves DEF Ready, ReadError
<1> QED
  BY <1>1, <1>2, <1>3, <1>4 DEF Next

\* At first nobody has failed or sent.
LEMMA InitLeaves == Init => LeaveInv
<1> SUFFICES ASSUME Init
             PROVE  LeaveInv
  OBVIOUS
<1>1. \A p \in Roles : ep[p].st = "WaitingForProtoVersion" /\ sends[p] = <<>>
  BY DEF Init, Roles
<1> QED
  BY <1>1 DEF LeaveInv, FailedHasLeft, SendsReachReader
-----------------------------------------------------------------------------
\* The offer: the reply has one place on the server's wire.
OfferOn(w) ==
  LET signed == {i \in 1 .. Len(w) : w[i].msg.type = "KEXDH_REPLY"}
  IN  IF signed = {} THEN NoSession ELSE w[CHOOSE i \in signed : TRUE].msg.signature.over

OfferHolds(w) == Len(w) >= 3 /\ w[3].msg.type = "KEXDH_REPLY"

\* The offer is the hash of the third unit, if that is a signed reply.
LEMMA OfferPlace ==
  ASSUME NEW w \in Seq(Units),
         \A i \in 1 .. Len(w) : w[i].msg.type \in {Kind("server", i - 1), "GARBAGE"}
  PROVE  OfferOn(w) = IF OfferHolds(w) THEN w[3].msg.signature.over ELSE NoSession
<1> DEFINE signed == {i \in 1 .. Len(w) : w[i].msg.type = "KEXDH_REPLY"}
<1>1. Len(w) \in Nat
  OBVIOUS
<1>2. \A i \in signed : i = 3
  <2> TAKE i \in signed
  <2>1. Kind("server", i - 1) = "KEXDH_REPLY" /\ i - 1 \in Int
    BY <1>1
  <2>2. i - 1 = 2
    BY <2>1 DEF Kind
  <2> QED
    BY <1>1, <2>2
<1>3. CASE OfferHolds(w)
  <2>1. 3 \in signed
    BY <1>1, <1>3 DEF OfferHolds
  <2>2. signed # {} /\ (CHOOSE i \in signed : TRUE) = 3
    BY <1>2, <2>1
  <2> QED
    BY <1>3, <2>2 DEF OfferOn
<1>4. CASE ~OfferHolds(w)
  <2>1. 3 \notin signed
    BY <1>1, <1>4 DEF OfferHolds
  <2>2. signed = {}
    BY <1>2, <2>1
  <2> QED
    BY <1>4, <2>2 DEF OfferOn
<1> QED
  BY <1>3, <1>4

\* It is there before a step and after it.
LEMMA OfferedBefore ==
  ASSUME TypeOK, KindsInOrder
  PROVE  Offered = IF OfferHolds(wire["server"])
                   THEN wire["server"][3].msg.signature.over ELSE NoSession
<1>1. "server" \in Roles /\ Lead("server") = 1
  BY DEF Roles, Lead
<1>2. wire["server"] \in Seq(Units)
  BY <1>1 DEF TypeOK
<1>3. \A i \in 1 .. Len(wire["server"]) :
        wire["server"][i].msg.type \in {Kind("server", i - 1), "GARBAGE"}
  BY <1>1 DEF KindsInOrder
<1>4. Offered = OfferOn(wire["server"])
  BY DEF Offered, OfferOn
<1> QED
  BY <1>2, <1>3, <1>4, OfferPlace

\* The same after a step.
LEMMA OfferedAfter ==
  ASSUME TypeOK', KindsInOrder'
  PROVE  Offered' = IF OfferHolds(wire'["server"])
                    THEN wire'["server"][3].msg.signature.over ELSE NoSession
<1>1. "server" \in Roles /\ Lead("server")' = 1
  BY DEF Roles, Lead
<1>2. wire'["server"] \in Seq(Units)
  BY <1>1 DEF TypeOK
<1>3. \A i \in 1 .. Len(wire'["server"]) :
        wire'["server"][i].msg.type \in {Kind("server", i - 1), "GARBAGE"}
  BY <1>1 DEF KindsInOrder
<1>4. Offered' = OfferOn(wire'["server"])
  BY DEF Offered, OfferOn
<1> QED
  BY <1>2, <1>3, <1>4, OfferPlace

\* It stays while the third unit's message does.
LEMMA OfferStays ==
  ASSUME TypeOK, TypeOK', KindsInOrder, KindsInOrder',
         \/ wire'["server"] = wire["server"]
         \/ Len(wire["server"]) < 3 /\ Len(wire'["server"]) < 3
         \/ /\ Len(wire["server"]) >= 3 /\ Len(wire'["server"]) >= 3
            /\ wire'["server"][3].msg = wire["server"][3].msg
  PROVE  Offered' = Offered
<1>1. wire["server"] \in Seq(Units) /\ wire'["server"] \in Seq(Units)
  BY DEF TypeOK, Roles
<1>2. Len(wire["server"]) \in Nat /\ Len(wire'["server"]) \in Nat
  BY <1>1
<1> QED
  BY <1>2, OfferedBefore, OfferedAfter DEF OfferHolds

-----------------------------------------------------------------------------
\* The view of SecureChannel.

SameView(p) == Phase(p)' = Phase(p) /\ SessionOf(p)' = SessionOf(p)

\* Where no end's view changes, the channel does not.
LEMMA ViewSame ==
  ASSUME \A p \in Roles : SameView(p), Offered' = Offered, UNCHANGED <<sends, got>>
  PROVE  UNCHANGED Channel!channel
BY DEF SameView, Channel!channel

\* Where one end's view changes, that end enters a phase.
LEMMA ViewEnter ==
  ASSUME NEW p \in Roles, NEW where, NEW s, Phase(p)' = where, SessionOf(p)' = s,
         \A q \in Roles : q # p => SameView(q)
  PROVE  Channel!Enter(p, where, s)
BY DEF SameView, Channel!Enter

\* An end whose state and stream do not change looks the same.
LEMMA StillSame ==
  ASSUME NEW p, ep'[p] = ep[p], closed'[p] = closed[p]
  PROVE  SameView(p)
BY DEF SameView, Phase, SessionOf

\* An end that drops its stream leaves.
LEMMA DropLeaves ==
  ASSUME NEW p \in Roles, ~closed[p], closed'[p], Offered' = Offered, UNCHANGED <<sends, got>>,
         \A q \in Roles : q # p => ep'[q] = ep[q] /\ closed'[q] = closed[q]
  PROVE  Channel!Leave(p)
<1>1. Phase(p) # "left"
  BY DEF Phase
<1>2. Phase(p)' = "left" /\ SessionOf(p)' = NoSession
  BY DEF Phase, SessionOf
<1>3. Channel!Enter(p, "left", NoSession)
  BY <1>2, StillSame, ViewEnter
<1> QED
  BY <1>1, <1>3 DEF Channel!Leave

\* So does one that gives up.
LEMMA GiveUpIsLeave ==
  ASSUME TypeOK, NEW p \in Roles, ~closed[p], GiveUp(p), Offered' = Offered,
         UNCHANGED <<sends, got>>
  PROVE  Channel!Leave(p)
<1>1. closed'[p] /\ \A q \in Roles : q # p => ep'[q] = ep[q] /\ closed'[q] = closed[q]
  BY DEF GiveUp, TypeOK
<1> QED
  BY <1>1, DropLeaves

\* A handler that moves between two states without keys does not show.
Opening == {"WaitingForProtoVersion", "WaitingForServerKexInit", "WaitingForKexReply",
            "WaitingForClientKexInit", "WaitingForKexDhInit"}

\* The states before the keys are one phase of the channel.
LEMMA OpeningIsHidden ==
  ASSUME TypeOK, NEW p \in Roles, NEW next, ep' = [ep EXCEPT ![p] = next], UNCHANGED closed,
         ep[p].st \in Opening, next.st \in Opening, Offered' = Offered, UNCHANGED <<sends, got>>
  PROVE  UNCHANGED Channel!channel
<1>1. ep'[p] = next /\ \A q \in Roles : q # p => ep'[q] = ep[q]
  BY DEF TypeOK
<1>2. SameView(p)
  BY <1>1 DEF SameView, Phase, SessionOf, Opening
<1> QED
  BY <1>1, <1>2, StillSame, ViewSame

\* What a handler of a state without keys does, if it makes no offer.
LEMMA OpeningHandler ==
  ASSUME TypeOK, NEW p \in Roles, Handshaking(p), ep[p].st \in Opening, NEW next, NEW out,
         Refuse(p, out) \/ (next.st \in Opening /\ Proceed(p, next, out)), Offered' = Offered
  PROVE  Channel!Leave(p) \/ UNCHANGED Channel!channel
<1>1. ~closed[p] /\ UNCHANGED <<sends, got>>
  BY DEF Handshaking, Refuse, Proceed, Consume
<1>2. CASE GiveUp(p)
  BY <1>1, <1>2, GiveUpIsLeave
<1>3. CASE next.st \in Opening /\ ep' = [ep EXCEPT ![p] = next] /\ UNCHANGED closed
  BY <1>1, <1>3, OpeningIsHidden
<1> QED
  BY <1>2, <1>3 DEF Refuse, Proceed
-----------------------------------------------------------------------------
\* Handler by handler, what each is in SecureChannel.  The offer is that of
\* the wires before and after.
WiresKnown == TypeOK /\ TypeOK' /\ KindsInOrder /\ KindsInOrder'

\* A handler writes on its own wire, no more than it meant to.
LEMMA HandlerWires ==
  ASSUME TypeOK, NEW p \in Roles, NEW next, NEW out \in Seq(Units),
         Refuse(p, out) \/ Proceed(p, next, out)
  PROVE  /\ \A q \in Roles : q # p => wire'[q] = wire[q]
         /\ Len(wire'[p]) \in Nat /\ Len(wire'[p]) <= Len(wire[p]) + Len(out)
<1>1. PICK units \in Seq(Units) : Write(p, units) /\ Len(units) <= Len(out)
  <2>1. CASE Write(p, out)
    <3>1. Len(out) <= Len(out)
      OBVIOUS
    <3> QED
      BY <2>1, <3>1
  <2>2. ASSUME NEW cut \in Cuts(out), Write(p, cut)
        PROVE  cut \in Seq(Units) /\ Len(cut) <= Len(out)
    BY CutsShorter
  <2> QED
    BY <2>1, <2>2 DEF Refuse, Proceed
<1>2. /\ \A q \in Roles : q # p => wire'[q] = wire[q]
      /\ Len(wire[p]) \in Nat /\ Len(units) \in Nat
      /\ Len(wire'[p]) = Len(wire[p]) + Len(units)
  BY <1>1, WritePlaces
<1>3. Len(out) \in Nat
  OBVIOUS
<1> QED
  BY <1>1, <1>2, <1>3

\* The client's handlers do not touch the server's wire.
LEMMA ClientKeepsOffer ==
  ASSUME WiresKnown, NEW next, NEW out \in Seq(Units),
         Refuse("client", out) \/ Proceed("client", next, out)
  PROVE  Offered' = Offered
<1>1. "client" \in Roles /\ "server" \in Roles
  BY DEF Roles
<1>2. wire'["server"] = wire["server"]
  BY <1>1, HandlerWires DEF WiresKnown
<1> QED
  BY <1>2, OfferStays DEF WiresKnown

\* Nor do the server's first two reach the place of the reply.
LEMMA ServerKeepsOffer ==
  ASSUME WiresKnown, NEW next, NEW out \in Seq(Units),
         Refuse("server", out) \/ Proceed("server", next, out),
         Len(wire["server"]) + Len(out) < 3
  PROVE  Offered' = Offered
<1>1. "server" \in Roles
  BY DEF Roles
<1>2. Len(wire'["server"]) \in Nat /\ Len(wire'["server"]) <= Len(wire["server"]) + Len(out)
  BY <1>1, HandlerWires DEF WiresKnown
<1>3. wire["server"] \in Seq(Units)
  BY <1>1 DEF WiresKnown, TypeOK
<1>4. Len(wire["server"]) \in Nat /\ Len(out) \in Nat
  BY <1>3
<1>5. Len(wire["server"]) < 3 /\ Len(wire'["server"]) < 3
  BY <1>2, <1>4
<1> QED
  BY <1>5, OfferStays DEF WiresKnown

\* So their handlers without keys leave, or do not show.
LEMMA ClientOpening ==
  ASSUME WiresKnown, Handshaking("client"), ep["client"].st \in Opening,
         NEW next, NEW out \in Seq(Units),
         Refuse("client", out) \/ (next.st \in Opening /\ Proceed("client", next, out))
  PROVE  Channel!Leave("client") \/ UNCHANGED Channel!channel
<1>1. "client" \in Roles /\ Offered' = Offered
  BY ClientKeepsOffer DEF Roles
<1> QED
  BY <1>1, OpeningHandler DEF WiresKnown

\* A handler of the server that does not reach the reply is hidden, or leaves.
LEMMA ServerOpening ==
  ASSUME WiresKnown, Handshaking("server"), ep["server"].st \in Opening,
         NEW next, NEW out \in Seq(Units),
         Refuse("server", out) \/ (next.st \in Opening /\ Proceed("server", next, out)),
         Len(wire["server"]) + Len(out) < 3
  PROVE  Channel!Leave("server") \/ UNCHANGED Channel!channel
<1>1. "server" \in Roles /\ Offered' = Offered
  BY ServerKeepsOffer DEF Roles
<1> QED
  BY <1>1, OpeningHandler DEF WiresKnown

\* receive_proto_version of the client, in the channel.
LEMMA ClientReceiveProtoVersionMaps ==
  ASSUME WiresKnown, ClientReceiveProtoVersion
  PROVE  Channel!Leave("client") \/ UNCHANGED Channel!channel
<1>1. "client" \in Roles /\ Handshaking("client") /\ ep["client"].st \in Opening
  BY DEF Roles, ClientReceiveProtoVersion, At, Handshaking, Opening
<1>2. CASE Refuse("client", <<>>)
  BY <1>1, <1>2, EmptyType, ClientOpening
<1>3. ASSUME NEW cookie \in Cookies, NEW offer \in OwnOffers["client"],
             Proceed("client",
               ClientAfterProtoVersion(ep["client"], NextUnit("client").msg, KexInit(cookie, offer)),
               <<Build(Naked, 0, KexInit(cookie, offer))>>)
      PROVE  Channel!Leave("client") \/ UNCHANGED Channel!channel
  <2>1. <<Build(Naked, 0, KexInit(cookie, offer))>> \in Seq(Units)
    BY <1>1, KexInitType, BuildType, CodecTypes
  <2>2. ClientAfterProtoVersion(ep["client"], NextUnit("client").msg, KexInit(cookie, offer)).st
          \in Opening
    BY DEF ClientAfterProtoVersion, Opening
  <2> QED
    BY <1>1, <1>3, <2>1, <2>2, ClientOpening
<1> QED
  BY <1>2, <1>3 DEF ClientReceiveProtoVersion

\* receive_server_kexinit, in the channel.
LEMMA ClientReceiveServerKexinitMaps ==
  ASSUME WiresKnown, ClientReceiveServerKexinit
  PROVE  Channel!Leave("client") \/ UNCHANGED Channel!channel
<1> DEFINE c == ep["client"]
           msg == NextUnit("client").msg
           neg == client_negotiate(c.client_kexinit.offer, msg.offer)
<1>1. /\ Handshaking("client") /\ c.st \in Opening /\ c.st = "WaitingForServerKexInit"
  BY DEF ClientReceiveServerKexinit, At, Handshaking, Opening
<1>2. CASE Refuse("client", <<>>)
  BY <1>1, <1>2, EmptyType, ClientOpening
<1>3. ASSUME Negotiable(c.client_kexinit.offer, msg.offer), NEW secret \in DhSecrets(neg["kex"]),
             Proceed("client", ClientAfterKexInit(c, msg, neg, secret),
                     <<Build(c.encoder, c.send_seq, KexDhInit(PublicValue(neg["kex"], secret)))>>)
      PROVE  Channel!Leave("client") \/ UNCHANGED Channel!channel
  <2>1. PublicValue(neg["kex"], secret) \in Nat
    BY <1>3, NegotiatedType, NegotiatedKex, SecretType, DhType
  <2>2. KexDhInit(PublicValue(neg["kex"], secret)) \in Messages
    BY <2>1 DEF KexDhInit, Messages
  <2>3. c.encoder \in Codecs /\ c.send_seq \in Nat
    BY <1>1, ClientVariant DEF WiresKnown, ClientAtKexInit
  <2>4. <<Build(c.encoder, c.send_seq, KexDhInit(PublicValue(neg["kex"], secret)))>> \in Seq(Units)
    BY <2>2, <2>3, BuildType
  <2>5. ClientAfterKexInit(c, msg, neg, secret).st \in Opening
    BY DEF ClientAfterKexInit, Opening
  <2> QED
    BY <1>1, <1>3, <2>4, <2>5, ClientOpening
<1> QED
  BY <1>2, <1>3 DEF ClientReceiveServerKexinit

\* receive_proto_version of the server, in the channel.
LEMMA ServerReceiveProtoVersionMaps ==
  ASSUME WiresKnown, PlaceInv, ServerReceiveProtoVersion
  PROVE  Channel!Leave("server") \/ UNCHANGED Channel!channel
<1> DEFINE next == ServerAfterProtoVersion(ep["server"], NextUnit("server").msg)
           out == <<Line("server")>>
<1>1. /\ "server" \in Roles /\ At("server", "WaitingForProtoVersion")
  BY DEF Roles, ServerReceiveProtoVersion
<1>2. /\ Handshaking("server") /\ ep["server"].st \in Opening /\ Len(wire["server"]) = 0
  BY <1>1, AtPlaces DEF WiresKnown, Place, Opening
<1>3. out \in Seq(Units) /\ Len(out) = 1 /\ next.st \in Opening
  BY <1>1, LineType DEF ServerAfterProtoVersion, Opening
<1>4. Len(wire["server"]) + Len(<<>>) < 3 /\ Len(wire["server"]) + Len(out) < 3
  BY <1>2, <1>3, NoneInOrder
<1> HIDE DEF next, out
<1>5. Refuse("server", <<>>) \/ Proceed("server", next, out)
  BY DEF ServerReceiveProtoVersion, next, out
<1> QED
  BY <1>2, <1>3, <1>4, <1>5, EmptyType, ServerOpening

\* receive_client_kexinit, in the channel.
LEMMA ServerReceiveClientKexinitMaps ==
  ASSUME WiresKnown, PlaceInv, ServerReceiveClientKexinit
  PROVE  Channel!Leave("server") \/ UNCHANGED Channel!channel
<1> DEFINE s == ep["server"]
           msg == NextUnit("server").msg
<1>1. "server" \in Roles /\ At("server", "WaitingForClientKexInit")
  BY DEF Roles, ServerReceiveClientKexinit
<1>2. /\ Handshaking("server") /\ s.st \in Opening /\ Len(wire["server"]) = 1
      /\ s.st = "WaitingForClientKexInit"
  BY <1>1, AtPlaces DEF WiresKnown, Place, Opening
<1>3. CASE Refuse("server", <<>>)
  <2>1. Len(wire["server"]) + Len(<<>>) < 3
    BY <1>2, NoneInOrder
  <2> QED
    BY <1>2, <1>3, <2>1, EmptyType, ServerOpening
<1>4. ASSUME NEW cookie \in Cookies, NEW offer \in OwnOffers["server"],
             LET kexinit == KexInit(cookie, offer)
                 out == <<Build(s.encoder, s.send_seq, kexinit)>>
             IN  \/ Refuse("server", out)
                 \/ Proceed("server", ServerAfterKexInit(s, msg, kexinit), out)
      PROVE  Channel!Leave("server") \/ UNCHANGED Channel!channel
  <2> DEFINE kexinit == KexInit(cookie, offer)
             unit == Build(s.encoder, s.send_seq, kexinit)
             out == <<unit>>
             next == ServerAfterKexInit(s, msg, kexinit)
  <2>1. s.encoder \in Codecs /\ s.send_seq \in Nat
    BY <1>2, ServerVariant DEF WiresKnown, ServerAtKexInit
  <2>2. unit \in Units
    BY <1>1, <2>1, KexInitType, BuildType
  <2>3. next.st \in Opening
    BY DEF ServerAfterKexInit, Opening
  <2>4. Refuse("server", out) \/ Proceed("server", next, out)
    BY <1>4
  <2> HIDE DEF unit, next
  <2>5. out \in Seq(Units) /\ Len(out) = 1
    BY <2>2
  <2>6. Len(wire["server"]) + Len(out) < 3
    BY <1>2, <2>5
  <2> HIDE DEF out
  <2> QED
    BY <1>2, <2>3, <2>4, <2>5, <2>6, ServerOpening
<1> QED
  BY <1>3, <1>4 DEF ServerReceiveClientKexinit
\* A reply that verifies is adopted as the session it was signed for.
LEMMA ClientReceiveKexReplyMaps ==
  ASSUME WiresKnown, PlaceInv, ClientReceiveKexReply
  PROVE  Channel!Leave("client") \/ Channel!Adopt
<1> DEFINE c == ep["client"]
           msg == NextUnit("client").msg
           out == <<Build(c.encoder, c.send_seq, NewKeys)>>
           next == ClientAfterKexReply(c, msg)
<1>1. /\ "client" \in Roles /\ "server" \in Roles /\ Peer("client") = "server"
      /\ At("client", "WaitingForKexReply")
  BY DEF Roles, ClientReceiveKexReply, Peer
<1>2. /\ Handshaking("client") /\ Unread("client") /\ c.st = "WaitingForKexReply"
      /\ rd["client"] = 2 /\ ~closed["client"]
  BY <1>1, AtPlaces DEF WiresKnown, Place, At
<1>3. out \in Seq(Units)
  <2>1. NewKeys \in Messages
    BY DEF Messages
  <2>2. c.encoder \in Codecs /\ c.send_seq \in Nat
    BY <1>2, ClientVariant DEF WiresKnown, ClientAtKexReply
  <2> QED
    BY <2>1, <2>2, BuildType
<1>4. \/ Refuse("client", <<>>)
      \/ /\ Received("client", "KEXDH_REPLY") /\ ClientAccepts(c, msg)
         /\ Proceed("client", next, out)
  BY DEF ClientReceiveKexReply
<1> HIDE DEF out
<1>5. Offered' = Offered /\ UNCHANGED <<sends, got>>
  BY <1>3, <1>4, EmptyType, ClientKeepsOffer DEF Refuse, Proceed, Consume
<1>6. CASE GiveUp("client")
  BY <1>1, <1>2, <1>5, <1>6, GiveUpIsLeave DEF WiresKnown
<1>7. CASE /\ Received("client", "KEXDH_REPLY") /\ ClientAccepts(c, msg)
           /\ ep' = [ep EXCEPT !["client"] = next] /\ UNCHANGED closed
  <2>1. OfferHolds(wire["server"]) /\ msg = wire["server"][3].msg /\ msg \in Messages
    <3>1. Len(wire["server"]) \in Nat /\ rd["client"] + 1 \in 1 .. Len(wire["server"])
          /\ msg \in Messages
      BY <1>1, <1>2, NextUnitType DEF WiresKnown
    <3> QED
      BY <1>1, <1>2, <1>7, <3>1 DEF Received, NextUnit, OfferHolds
  <2>2. Offered = msg.signature.over
    BY <2>1, OfferedBefore DEF WiresKnown
  <2>3. msg.signature.over = ClientHash(c, msg)
    BY <1>7 DEF ClientAccepts, Verifies, Sign
  <2>4. msg.signature.over \in Hashes
    BY <1>7, <2>1, MessageVariant DEF Received, Signatures
  <2>5. Offered # NoSession
    BY <2>2, <2>4 DEF Hashes, NoSession
  <2>6. ep'["client"] = next /\ \A q \in Roles : q # "client" => ep'[q] = ep[q]
    <3>1. DOMAIN ep = Roles
      BY DEF WiresKnown, TypeOK
    <3> HIDE DEF next
    <3> QED
      BY <1>1, <1>7, <3>1
  <2>7. next.st = "WaitingForNewKeys" /\ next.session_id = ClientHash(c, msg)
    BY DEF ClientAfterKexReply
  <2> HIDE DEF next
  <2>8. /\ Phase("client") = "opening"
        /\ Phase("client")' = "agreed" /\ SessionOf("client")' = Offered
    BY <1>2, <1>7, <2>2, <2>3, <2>6, <2>7 DEF Phase, SessionOf
  <2>9. Channel!Enter("client", "agreed", Offered)
    BY <1>1, <1>7, <2>6, <2>8, StillSame, ViewEnter
  <2> QED
    BY <1>1, <1>5, <2>5, <2>8, <2>9 DEF Channel!Adopt
<1> QED
  BY <1>4, <1>6, <1>7 DEF Refuse, Proceed

\* The server's reply offers the session it has computed, even if it is cut
\* short and the server gives up.
LEMMA ServerReceiveKexdhInitMaps ==
  ASSUME WiresKnown, PlaceInv, ServerReceiveKexdhInit
  PROVE  Channel!Leave("server") \/ Channel!Offer
<1> DEFINE s == ep["server"]
           msg == NextUnit("server").msg
<1>1. /\ "server" \in Roles /\ At("server", "WaitingForKexDhInit")
  BY DEF Roles, ServerReceiveKexdhInit
<1>2. /\ Handshaking("server") /\ Unread("server") /\ s.st = "WaitingForKexDhInit"
      /\ Len(wire["server"]) = 2 /\ ~closed["server"]
  BY <1>1, AtPlaces DEF WiresKnown, Place, At
<1>3. Offered = NoSession /\ Phase("server") = "opening" /\ UNCHANGED <<sends, got>>
  <2>1. ~OfferHolds(wire["server"])
    BY <1>2 DEF OfferHolds
  <2> QED
    BY <1>2, <2>1, OfferedBefore
    DEF WiresKnown, Phase, ServerReceiveKexdhInit, Refuse, Proceed, Consume
<1>4. CASE Refuse("server", <<>>)
  <2>1. Len(wire["server"]) + Len(<<>>) < 3
    BY <1>2, NoneInOrder
  <2>2. Offered' = Offered
    BY <1>4, <2>1, EmptyType, ServerKeepsOffer
  <2> QED
    BY <1>1, <1>2, <1>3, <1>4, <2>2, GiveUpIsLeave DEF WiresKnown, Refuse
<1>5. ASSUME Received("server", "KEXDH_INIT"), NEW secret \in DhSecrets(s.negotiated["kex"]),
             Proceed("server", ServerAfterKexDhInit(s, msg.e, secret),
               <<Build(s.encoder, s.send_seq, ServerReply(s, msg.e, secret)),
                 Build(Advance(s.encoder), SeqAdd(s.send_seq, 1), NewKeys)>>)
      PROVE  Channel!Leave("server") \/ Channel!Offer
  <2> DEFINE reply == Build(s.encoder, s.send_seq, ServerReply(s, msg.e, secret))
             newkeys == Build(Advance(s.encoder), SeqAdd(s.send_seq, 1), NewKeys)
             next == ServerAfterKexDhInit(s, msg.e, secret)
             hash == ServerHash(s, msg.e, secret)
  <2>1. s \in ServerAtKexDhInit /\ msg \in Messages
    BY <1>1, <1>2, ServerVariant, NextUnitType DEF WiresKnown
  <2>2. msg.e \in Nat
    BY <1>5, <2>1, MessageVariant DEF Received
  <2>3. /\ ServerReply(s, msg.e, secret) \in Messages /\ hash \in Hashes
        /\ ServerReply(s, msg.e, secret).type = "KEXDH_REPLY"
        /\ ServerReply(s, msg.e, secret).signature.over = hash
    <3>1. ServerReply(s, msg.e, secret) \in Messages /\ hash \in Hashes
      BY <1>5, <2>1, <2>2, ServerReplyType
    <3> QED
      BY <3>1 DEF ServerReply, KexDhReply, Sign
  <2>4. s.encoder \in Codecs /\ s.send_seq \in Nat
    BY <2>1 DEF ServerAtKexDhInit
  <2>5. reply \in Units /\ reply.msg.type = "KEXDH_REPLY" /\ reply.msg.signature.over = hash
    BY <2>3, <2>4, BuildType DEF Build
  <2>6. newkeys \in Units
    <3>1. NewKeys \in Messages /\ Advance(s.encoder) \in Codecs /\ SeqAdd(s.send_seq, 1) \in Nat
      BY <2>4, CodecTypes, SeqAddType DEF Messages
    <3> QED
      BY <3>1, BuildType
  <2>7. next.st = "WaitingForNewKeys" /\ next.session_id = hash
    BY DEF ServerAfterKexDhInit
  <2>8. Proceed("server", next, <<reply, newkeys>>)
    BY <1>5
  <2> HIDE DEF reply, newkeys, next, hash
  <2> DEFINE out == <<reply, newkeys>>
  <2>9. out \in Seq(Units) /\ Len(out) = 2 /\ out[1] = reply
    BY <2>5, <2>6
  <2> HIDE DEF out
\* Once the first of the two units is on the wire, the offer stands.
  <2>10. ASSUME NEW units \in Seq(Units), Write("server", units), Len(units) \in Nat \ {0},
                units[1].msg = reply.msg
         PROVE  Offered' = hash
    <3>1. /\ Len(wire'["server"]) = 2 + Len(units)
          /\ \A i \in 1 .. Len(wire'["server"]) :
               \/ i \in 1 .. Len(wire["server"]) /\ wire'["server"][i] = wire["server"][i]
               \/ i - Len(wire["server"]) \in 1 .. Len(units)
                  /\ wire'["server"][i] = units[i - Len(wire["server"])]
      BY <1>1, <1>2, <2>10, WritePlaces DEF WiresKnown
    <3>2. 3 \in 1 .. Len(wire'["server"]) /\ 3 - Len(wire["server"]) = 1
      BY <1>2, <2>10, <3>1
    <3>3. wire'["server"][3] = units[1]
      BY <1>2, <3>1, <3>2
    <3>4. OfferHolds(wire'["server"]) /\ wire'["server"][3].msg.signature.over = hash
      BY <2>5, <2>10, <3>1, <3>3 DEF OfferHolds
    <3> QED
      BY <3>4, OfferedAfter DEF WiresKnown
  <2>11. CASE /\ Write("server", out) /\ ep' = [ep EXCEPT !["server"] = next]
              /\ UNCHANGED closed
    <3>1. Offered' = hash
      BY <2>9, <2>10, <2>11
    <3>2. ep'["server"] = next /\ \A q \in Roles : q # "server" => ep'[q] = ep[q]
      <4>1. DOMAIN ep = Roles
        BY DEF WiresKnown, TypeOK
      <4> QED
        BY <1>1, <2>11, <4>1
    <3>3. Phase("server")' = "agreed" /\ SessionOf("server")' = Offered'
      BY <1>2, <2>7, <2>11, <3>1, <3>2 DEF Phase, SessionOf
    <3>4. Channel!Enter("server", "agreed", Offered')
      BY <1>1, <2>11, <3>2, <3>3, StillSame, ViewEnter
    <3> QED
      BY <1>1, <1>3, <2>3, <3>1, <3>4 DEF Channel!Offer
  <2>12. ASSUME NEW cut \in Cuts(out), Write("server", cut), GiveUp("server")
         PROVE  Channel!Leave("server") \/ Channel!Offer
    <3>1. cut \in Seq(Units)
      BY <2>9, CutsShorter
    <3>2. CASE Len(cut) = 0
      <4>1. Len(wire["server"]) \in Nat /\ Len(wire'["server"]) = Len(wire["server"]) + Len(cut)
        BY <1>1, <2>12, <3>1, WritePlaces DEF WiresKnown
      <4>2. Len(wire["server"]) < 3 /\ Len(wire'["server"]) < 3
        BY <1>2, <3>2, <4>1
      <4>3. Offered' = Offered
        BY <4>2, OfferStays DEF WiresKnown
      <4> QED
        BY <1>1, <1>2, <1>3, <2>12, <4>3, GiveUpIsLeave DEF WiresKnown
    <3>3. CASE Len(cut) # 0
      <4>1. Len(cut) \in Nat \ {0} /\ 1 \in 1 .. Len(cut)
        BY <3>1, <3>3
      <4>2. cut[1].msg = reply.msg
        BY <2>9, <4>1, CutsUnits
      <4>3. Offered' = hash
        BY <2>10, <2>12, <3>1, <4>1, <4>2
      <4>4. closed'["server"] /\ \A q \in Roles : q # "server" => ep'[q] = ep[q] /\ closed'[q] = closed[q]
        BY <1>1, <2>12 DEF GiveUp, WiresKnown, TypeOK
      <4>5. Phase("server")' = "left" /\ SessionOf("server")' = NoSession
        BY <4>4 DEF Phase, SessionOf
      <4>6. Channel!Enter("server", "left", NoSession)
        BY <1>1, <4>4, <4>5, StillSame, ViewEnter
      <4> QED
        BY <1>1, <1>3, <2>3, <4>3, <4>6 DEF Channel!Offer
    <3> QED
      BY <3>2, <3>3
  <2>13. Proceed("server", next, out)
    BY <2>8 DEF out
  <2> QED
    BY <2>11, <2>12, <2>13 DEF Proceed
<1> QED
  BY <1>4, <1>5 DEF ServerReceiveKexdhInit
\* Whoever is offered NEWKEYS knows that the other has derived its keys too,
\* or has failed since.
LEMMA AnnouncedPeer ==
  ASSUME TypeOK, PlaceInv, LeaveInv, NEW p \in Roles, ep[p].st \in KeysDerived,
         Len(wire[Peer(p)]) >= 4
  PROVE  /\ ep[Peer(p)].st \in KeysDerived \cup {"Failed"}
         /\ Phase(Peer(p)) # "opening"
<1> DEFINE q == Peer(p)
           written == Len(wire[q])
<1>1. q \in Roles /\ ep[q] \in States(q)
  BY DEF Peer, Roles, TypeOK
<1>2. written \in Nat /\ written >= 4
  BY <1>1 DEF TypeOK
<1>3. Place(q, ep[q].st, written, rd[q])
  BY <1>1 DEF PlaceInv, Places
<1> HIDE DEF written
<1>4. ep[q].st \in KeysDerived \cup {"Failed"}
  <2>1. CASE q = "server"
    <3>1. ep[q].st \in {"WaitingForProtoVersion", "WaitingForClientKexInit",
                        "WaitingForKexDhInit", "WaitingForNewKeys", "Ready", "Failed"}
      BY <1>1, <2>1 DEF States, AtReady, Failed, ServerAtProtoVersion, ServerAtKexInit,
         ServerAtKexDhInit, ServerAtNewKeys
    <3> HIDE DEF q
    <3> QED
      BY <1>2, <1>3, <2>1, <3>1 DEF Place, KeysDerived
  <2>2. CASE q = "client"
    <3>1. ep[q].st \in {"WaitingForProtoVersion", "WaitingForServerKexInit",
                        "WaitingForKexReply", "WaitingForNewKeys", "Ready", "Failed"}
      BY <1>1, <2>2 DEF States, AtReady, Failed, ClientAtProtoVersion, ClientAtKexInit,
         ClientAtKexReply, ClientAtNewKeys
\* The server is past the client's KEXINIT, so start was called once.
    <3>2. starts = 1
      BY <2>2 DEF PlaceInv, StartedOnce, KeysDerived, Peer, Roles
    <3> HIDE DEF q
    <3> QED
      BY <1>2, <1>3, <2>2, <3>1, <3>2 DEF Place, Lead, KeysDerived
  <2> QED
    BY <1>1, <2>1, <2>2 DEF Roles
<1>5. ep[q].st = "Failed" => closed[q]
  BY <1>1 DEF LeaveInv, FailedHasLeft
<1> QED
  BY <1>4, <1>5 DEF Phase, KeysDerived

\* An end that processes NEWKEYS opens up in its session.
LEMMA ReceiveNewkeysMaps ==
  ASSUME WiresKnown, PlaceInv, LeaveInv, NEW p \in Roles, ReceiveNewkeys(p)
  PROVE  Channel!Leave(p) \/ Channel!OpenUp(p)
<1> DEFINE next == AfterNewKeys(ep[p])
<1>1. At(p, "WaitingForNewKeys") /\ TypeOK
  BY DEF ReceiveNewkeys, WiresKnown
<1>2. /\ Unread(p) /\ ep[p].st = "WaitingForNewKeys" /\ rd[p] = 3 /\ ~closed[p]
  BY <1>1, AtPlaces DEF Place, At
<1>3. /\ Refuse(p, <<>>) \/ Proceed(p, next, <<>>)
      /\ UNCHANGED <<sends, got>>
  BY DEF ReceiveNewkeys, Refuse, Proceed, Consume
<1>4. Offered' = Offered
  <2>1. CASE p = "client"
    BY <1>3, <2>1, EmptyType, ClientKeepsOffer
  <2>2. CASE p = "server"
    <3>1. Write(p, <<>>)
      BY <1>3 DEF Refuse, Proceed
    <3>2. wire' = wire
      BY <1>1, <3>1, EmptyWrite
    <3> QED
      BY <3>2 DEF Offered
  <2> QED
    BY <2>1, <2>2 DEF Roles
<1>5. CASE GiveUp(p)
  BY <1>1, <1>2, <1>3, <1>4, <1>5, GiveUpIsLeave
<1>6. CASE ep' = [ep EXCEPT ![p] = next] /\ UNCHANGED closed
  <2>1. ep'[p] = next /\ \A q \in Roles : q # p => ep'[q] = ep[q]
    BY <1>1, <1>6 DEF TypeOK
  <2>2. next.st = "Ready" /\ next.session_id = ep[p].session_id
    BY DEF AfterNewKeys
  <2> HIDE DEF next
  <2>3. Phase(p) = "agreed" /\ Phase(p)' = "ready" /\ SessionOf(p)' = SessionOf(p)
    BY <1>2, <1>6, <2>1, <2>2 DEF Phase, SessionOf
  <2>4. Len(wire[Peer(p)]) >= 4
    <3>1. Peer(p) \in Roles
      BY DEF Peer, Roles
    <3>2. Len(wire[Peer(p)]) \in Nat
      BY <1>1, <3>1 DEF TypeOK
    <3> QED
      BY <1>2, <3>2 DEF Unread
  <2>5. Phase(Peer(p)) # "opening"
    BY <1>1, <1>2, <2>4, AnnouncedPeer DEF KeysDerived
  <2>6. Channel!Enter(p, "ready", SessionOf(p))
    BY <1>6, <2>1, <2>3, StillSame, ViewEnter
  <2> QED
    BY <1>3, <1>4, <2>3, <2>5, <2>6 DEF Channel!OpenUp, Channel!Other, Peer, Roles
<1> QED
  BY <1>3, <1>5, <1>6 DEF Refuse, Proceed
-----------------------------------------------------------------------------
\* What an open end does, and damage.

\* start does not show, unless it fails.
LEMMA StartMaps ==
  ASSUME WiresKnown, Start
  PROVE  Channel!Leave("client") \/ UNCHANGED Channel!channel
<1>1. "client" \in Roles /\ "server" \in Roles /\ ~closed["client"]
      /\ UNCHANGED <<ep, sends, got>>
  BY DEF Start, Roles
<1>2. Offered' = Offered
  <2>1. wire'["server"] = wire["server"]
    BY DEF Start, StartOk, StartErr, Write, WiresKnown, TypeOK, Roles
  <2> QED
    BY <2>1, OfferStays DEF WiresKnown
<1>3. CASE StartOk
  BY <1>1, <1>2, <1>3, StillSame, ViewSame DEF StartOk
<1>4. CASE StartErr
  <2>1. closed'["client"] /\ \A q \in Roles : q # "client" => closed'[q] = closed[q]
    BY <1>1, <1>4 DEF StartErr, WiresKnown, TypeOK
  <2> QED
    BY <1>1, <1>2, <2>1, DropLeaves
<1> QED
  BY <1>3, <1>4 DEF Start

\* A call that leaves an open end in its session, and open, changes no view.
LEMMA OpenSame ==
  ASSUME TypeOK, NEW p \in Roles, Open(p), UNCHANGED closed,
         ep'[p].st = "Ready", ep'[p].session_id = ep[p].session_id,
         \A q \in Roles : q # p => ep'[q] = ep[q]
  PROVE  \A q \in Roles : SameView(q)
<1>1. SameView(p)
  BY DEF Open, SameView, Phase, SessionOf
<1> QED
  BY <1>1, StillSame

\* send_packet is Send.
LEMMA SendPacketMaps ==
  ASSUME WiresKnown, PlaceInv, NEW p \in Roles, SendPacket(p)
  PROVE  Channel!Send(p)
<1> DEFINE x == ep[p]
           calls == sends[p]
<1>1. /\ TypeOK /\ Open(p) /\ UNCHANGED <<closed, got>>
      /\ Phase(p) = "ready" /\ x \in AtReady
  BY ReadyVariant DEF WiresKnown, SendPacket, Open, Phase
<1>2. /\ ep'[p].st = "Ready" /\ ep'[p].session_id = x.session_id
      /\ \A q \in Roles : q # p => ep'[q] = ep[q]
  <2>1. ep'[p] \in {[x EXCEPT !.encoder = Advance(x.encoder),
                              !.send_seq = SeqAdd(x.send_seq, 1)],
                    [x EXCEPT !.encoder = Advance(x.encoder)]}
        /\ \A q \in Roles : q # p => ep'[q] = ep[q]
    BY <1>1 DEF SendPacket, TypeOK
  <2> QED
    BY <1>1, <2>1 DEF AtReady
<1>3. \A q \in Roles : SameView(q)
  BY <1>1, <1>2, OpenSame
<1>4. PICK ok \in BOOLEAN : sends' = [sends EXCEPT ![p] = Append(calls, ok)]
  BY DEF SendPacket
<1>5. Len(sends'[p]) = Len(sends[p]) + 1 /\ \A q \in Roles : q # p => sends'[q] = sends[q]
  <2>1. calls \in Seq(BOOLEAN)
    BY <1>1 DEF TypeOK
  <2>2. sends'[p] = Append(calls, ok) /\ \A q \in Roles : q # p => sends'[q] = sends[q]
    BY <1>1, <1>4 DEF TypeOK
  <2>3. Len(Append(calls, ok)) = Len(calls) + 1
    BY <2>1
  <2> QED
    BY <2>2, <2>3
<1>6. Offered' = Offered
  <2> DEFINE unit == Build(x.encoder, x.send_seq, Payload(Len(calls) + 1))
             w == wire["server"]
  <2>1. unit \in Units
    <3>1. Len(calls) \in Nat
      BY <1>1 DEF TypeOK
    <3>2. Payload(Len(calls) + 1) \in Messages
      BY <3>1 DEF Payload, Messages
    <3>3. x.encoder \in Codecs /\ x.send_seq \in Nat
      BY <1>1 DEF AtReady
    <3> QED
      BY <3>2, <3>3, BuildType
  <2>2. Writes(p, <<unit>>)
    BY DEF SendPacket, Writes
  <2> HIDE DEF unit
  <2>3. PICK units \in Seq(Units) : Write(p, units)
    <3>1. <<unit>> \in Seq(Units)
      BY <2>1
    <3> QED
      BY <2>2, <3>1, CutsShorter DEF Writes
  <2>4. CASE p = "client"
    <3>1. wire'["server"] = wire["server"]
      BY <1>1, <2>3, <2>4, WritePlaces DEF Roles
    <3> QED
      BY <3>1, OfferStays DEF WiresKnown
  <2>5. CASE p = "server"
    <3>1. Len(w) \in Nat /\ Len(w) >= 4
      BY <1>1, <2>5, OpenPlaces DEF Lead
    <3>2. Len(wire'["server"]) \in Nat /\ Len(wire'["server"]) >= 4
      BY <1>1, <2>3, <2>5, <3>1, WritePlaces
    <3>3. wire'["server"][3] = w[3]
      <4>1. 3 \in 1 .. Len(w)
        BY <3>1
      <4> QED
        BY <1>1, <2>3, <2>5, <4>1, WriteAppends
    <3> QED
      BY <3>1, <3>2, <3>3, OfferStays DEF WiresKnown
  <2> QED
    BY <2>4, <2>5 DEF Roles
<1> QED
  BY <1>1, <1>3, <1>5, <1>6 DEF SameView, Channel!Send

\* close is Leave.
LEMMA CloseMaps ==
  ASSUME TypeOK, NEW p \in Roles, Close(p)
  PROVE  Channel!Leave(p)
<1>1. /\ ~closed[p] /\ closed'[p] /\ UNCHANGED <<ep, wire, sends, got>>
      /\ \A q \in Roles : q # p => closed'[q] = closed[q]
  BY DEF Close, Open, TypeOK
<1>2. Offered' = Offered
  BY <1>1 DEF Offered
<1> QED
  BY <1>1, <1>2, DropLeaves

\* Damage does not show, unless it strikes the reply so that it is none.
LEMMA DamageMaps ==
  ASSUME WiresKnown, NEW p \in Roles, Damage(p)
  PROVE  Channel!Lose \/ UNCHANGED Channel!channel
<1> DEFINE w == wire["server"]
           v == wire'["server"]
<1>1. UNCHANGED <<ep, closed, sends, got>> /\ "server" \in Roles
  BY DEF Damage, Roles
<1>2. \A q \in Roles : SameView(q)
  BY <1>1, StillSame
<1>3. w \in Seq(Units) /\ Len(w) \in Nat /\ Len(v) = Len(w)
  <2>1. w \in Seq(Units)
    BY <1>1 DEF WiresKnown, TypeOK
  <2> QED
    BY <1>1, <2>1, DamageAlters DEF WiresKnown
<1>4. CASE Offered' = Offered
  BY <1>1, <1>2, <1>4, ViewSame
<1>5. CASE ~OfferHolds(v)
  <2>1. Offered' = NoSession
    BY <1>5, OfferedAfter DEF WiresKnown
  <2>2. Channel!Lose
    BY <1>1, <1>2, <2>1 DEF SameView, Channel!Lose
  <2> QED
    BY <2>2
<1>6. CASE OfferHolds(v)
  <2>1. 3 \in 1 .. Len(w) /\ v[3].msg.type = "KEXDH_REPLY"
    BY <1>3, <1>6 DEF OfferHolds
  <2>2. w[3].msg \in Messages
    <3> HIDE DEF w
    <3>1. w[3] \in Units
      BY <1>3, <2>1
    <3> QED
      BY <3>1 DEF Units
  <2>3. w[3].msg.type = "KEXDH_REPLY" /\ v[3].msg.signature.over = w[3].msg.signature.over
    <3>1. CASE v[3] = w[3]
      BY <2>1, <3>1
    <3>2. CASE v[3].msg \in Garbled(w[3].msg)
      <4> DEFINE m == v[3].msg
                 msg == w[3].msg
      <4>1. msg \in Messages /\ m \in Garbled(msg) /\ m.type = "KEXDH_REPLY"
        BY <2>1, <2>2, <3>2
      <4> HIDE DEF m, msg
      <4>2. msg.type = "KEXDH_REPLY" /\ m.signature.over = msg.signature.over
        BY <4>1, GarbledReply
      <4> QED
        BY <4>2 DEF m, msg
    <3>3. CASE v[3].msg = w[3].msg
      BY <2>1, <3>3
    <3> QED
      BY <1>1, <2>1, <3>1, <3>2, <3>3, DamageAlters DEF WiresKnown
  <2>4. Offered' = Offered
    <3>1. OfferHolds(w)
      BY <1>3, <2>1, <2>3 DEF OfferHolds
    <3> QED
      BY <1>6, <2>3, <3>1, OfferedBefore, OfferedAfter DEF WiresKnown
  <2> QED
    BY <1>4, <2>4
<1> QED
  BY <1>5, <1>6
-----------------------------------------------------------------------------
\* Deliveries.

\* While nobody but the reader's own leaving can fail a send, all succeeded.
LEMMA SuccessesAll ==
  ASSUME NEW calls, NEW k \in Nat, \A m \in 1 .. k : calls[m]
  PROVE  Successes(calls, k) = k
<1>1. {m \in 1 .. k : ~calls[m]} = {} /\ Cardinality({}) = 0
  BY FS_EmptySet
<1>2. Cardinality({m \in 1 .. k : calls[m]}) + Cardinality({m \in 1 .. k : ~calls[m]})
        = k - 1 + 1
      /\ Cardinality({m \in 1 .. k : calls[m]}) \in Nat
  BY 1 \in Nat \ {0}, CallsCounted
<1> QED
  BY <1>1, <1>2 DEF Successes

\* The numbers of the payloads returned.
Numbers(s) == [i \in DOMAIN s |-> s[i].n]

\* The numbers of a list of payloads with one more.
LEMMA NumbersAppend ==
  ASSUME NEW s \in Seq(Messages), NEW m \in Messages
  PROVE  Numbers(Append(s, m)) = Append(Numbers(s), m.n) /\ Len(Numbers(s)) = Len(s)
<1> DEFINE k == Len(s)
           t == Append(s, m)
<1>1. /\ k \in Nat /\ DOMAIN s = 1 .. k
      /\ DOMAIN t = 1 .. (k + 1) /\ t[k + 1] = m /\ \A i \in 1 .. k : t[i] = s[i]
  OBVIOUS
<1>2. Len(Numbers(s)) = k
  BY <1>1 DEF Numbers
<1> HIDE DEF t
<1>3. Numbers(t) = [i \in 1 .. (k + 1) |-> IF i = k + 1 THEN m.n ELSE s[i].n]
  BY <1>1 DEF Numbers
<1>4. Append(Numbers(s), m.n) = [i \in 1 .. (k + 1) |-> IF i = k + 1 THEN m.n ELSE s[i].n]
  BY <1>1, <1>2 DEF Numbers
<1> QED
  BY <1>2, <1>3, <1>4 DEF t

\* Two ends in a session are in the same one.
LEMMA OpenPeers ==
  ASSUME TypeOK, SessionInvariant, PlaceInv, LeaveInv, NEW p \in Roles, Open(p)
  PROVE  Phase(Peer(p)) = "left" \/ SessionOf(Peer(p)) = SessionOf(p)
<1>1. Peer(p) \in Roles /\ ep[p].st = "Ready" /\ ~closed[p]
  BY DEF Peer, Roles, Open
<1>2. Len(wire[Peer(p)]) >= 4
  <2>1. rd[p] <= Len(wire[Peer(p)]) /\ rd[p] \in Nat /\ Len(wire[Peer(p)]) \in Nat
    BY <1>1 DEF TypeOK
  <2>2. rd[p] >= 4
    BY OpenPlaces
  <2> QED
    BY <2>1, <2>2
<1>3. ep[Peer(p)].st \in KeysDerived \cup {"Failed"}
  BY <1>1, <1>2, AnnouncedPeer DEF KeysDerived
<1>4. CASE ep[Peer(p)].st = "Failed" \/ closed[Peer(p)]
  BY <1>1, <1>4 DEF LeaveInv, FailedHasLeft, Phase
<1>5. CASE ep[Peer(p)].st \in KeysDerived /\ ~closed[Peer(p)]
  <2>1. ep["client"].session_id = ep["server"].session_id
    BY <1>1, <1>5 DEF SessionInvariant, SameSession, KeysDerived, Peer, Roles
  <2>2. SessionOf(p) = ep[p].session_id /\ SessionOf(Peer(p)) = ep[Peer(p)].session_id
    BY <1>1, <1>5 DEF SessionOf, Phase, KeysDerived
  <2>3. ep[Peer(p)].session_id = ep[p].session_id
    BY <2>1 DEF Peer, Roles
  <2> QED
    BY <2>2, <2>3
<1> QED
  BY <1>3, <1>4, <1>5

\* read_packet returns the payload that is next, or does not show.
LEMMA ReadPacketMaps ==
  ASSUME TypeOK, SessionInvariant, PlaceInv, CountInv, LeaveInv, NoWrap, ~IoErrors,
         NEW p \in Roles, ReadPacket(p)
  PROVE  Channel!Deliver(p) \/ UNCHANGED Channel!channel
<1> DEFINE x == ep[p]
           u == NextUnit(p)
           q == Peer(p)
           k == Len(got[p])
<1>1. /\ Open(p) /\ Unread(p) /\ UNCHANGED <<wire, closed, sends>>
      /\ x \in AtReady /\ Phase(p) = "ready" /\ ~closed[p]
  BY ReadyVariant DEF ReadPacket, Readable, Open, Phase
<1>2. /\ q \in Roles /\ Peer(q) = p /\ u.msg \in Messages
      /\ got[p] \in Seq(Messages) /\ k \in Nat
  BY <1>1, NextUnitType DEF Peer, Roles, TypeOK
<1>3. Offered' = Offered
  BY <1>1 DEF Offered
<1>4. /\ ep'[p].st = "Ready" /\ ep'[p].session_id = x.session_id
      /\ \A r \in Roles : r # p => ep'[r] = ep[r]
  <2>1. /\ \/ ep'[p] = [x EXCEPT !.decoder = Advance(x.decoder), !.recv_seq = SeqAdd(x.recv_seq, 1)]
           \/ \E decoder : ep'[p] = [x EXCEPT !.decoder = decoder]
        /\ \A r \in Roles : r # p => ep'[r] = ep[r]
    BY DEF ReadPacket, TypeOK
  <2> QED
    BY <1>1, <2>1 DEF AtReady
<1>5. \A r \in Roles : SameView(r)
  BY <1>1, <1>4, OpenSame
<1>6. CASE UNCHANGED got
  BY <1>1, <1>3, <1>5, <1>6, ViewSame
<1>7. CASE Decodes(x.decoder, x.recv_seq, u) /\ got' = [got EXCEPT ![p] = Append(@, u.msg)]
  <2>1. u.msg.n \in 1 .. Len(sends[q]) /\ Successes(sends[q], u.msg.n - 1) = k
    BY <1>1, <1>7, DecodedIsNext
  <2>2. Len(sends[q]) \in Nat
    BY <1>2 DEF TypeOK
  <2>3. \A m \in 1 .. Len(sends[q]) : sends[q][m]
    BY <1>1, <1>2 DEF LeaveInv, SendsReachReader
  <2> HIDE DEF u, q, k
  <2>4. Successes(sends[q], u.msg.n - 1) = u.msg.n - 1
    <3>1. u.msg.n - 1 \in Nat /\ \A m \in 1 .. (u.msg.n - 1) : sends[q][m]
      BY <2>1, <2>2, <2>3
    <3> QED
      BY <3>1, SuccessesAll
  <2>5. u.msg.n = k + 1 /\ k < Len(sends[q])
    BY <1>2, <2>1, <2>2, <2>4
  <2>6. got'[p] = Append(got[p], u.msg) /\ \A r \in Roles : r # p => got'[r] = got[r]
    BY <1>7 DEF TypeOK
  <2>7. Numbers(got'[p]) = Append(Numbers(got[p]), Len(Numbers(got[p])) + 1)
        /\ Len(Numbers(got[p])) = k
    BY <1>2, <2>5, <2>6, NumbersAppend DEF k
  <2>8. Phase(q) = "left" \/ SessionOf(q) = SessionOf(p)
    BY <1>1, OpenPeers DEF q
  <2>9. q \in Roles /\ q = Channel!Other(p)
    BY <1>2 DEF q, Peer, Channel!Other
  <2>10. UNCHANGED sends
    BY <1>1
  <2>11. [r \in Roles |-> Numbers(got'[r])] =
           [[r \in Roles |-> Numbers(got[r])] EXCEPT
              ![p] = Append(Numbers(got[p]), Len(Numbers(got[p])) + 1)]
    BY <2>6, <2>7
  <2> QED
    BY <1>1, <1>3, <1>5, <2>5, <2>7, <2>8, <2>9, <2>10, <2>11
    DEF SameView, Numbers, Channel!Deliver
<1> QED
  BY <1>6, <1>7 DEF ReadPacket
-----------------------------------------------------------------------------
\* The initial states are initial states of the channel.
LEMMA InitIsChannel == Init => Channel!Init
<1> SUFFICES ASSUME Init
             PROVE  Channel!Init
  OBVIOUS
<1>1. \A p \in Roles : /\ ep[p].st = "WaitingForProtoVersion" /\ ~closed[p]
                       /\ sends[p] = <<>> /\ got[p] = <<>>
  BY DEF Init, Roles
<1>2. \A p \in Roles : Phase(p) = "opening" /\ SessionOf(p) = NoSession
  BY <1>1 DEF Phase, SessionOf
<1>3. Offered = NoSession
  <2>1. {i \in 1 .. Len(wire["server"]) : wire["server"][i].msg.type = "KEXDH_REPLY"} = {}
    BY DEF Init, Roles
  <2> QED
    BY <2>1 DEF Offered
<1>4. \A p \in Roles : Len(sends[p]) = 0 /\ [i \in DOMAIN got[p] |-> got[p][i].n] = <<>>
  BY <1>1
<1> QED
  BY <1>2, <1>3, <1>4 DEF Channel!Init, Channel!Ends, Roles

\* A handshake that ends because its stream does is a Leave.
LEMMA HangupMaps ==
  ASSUME TypeOK, NEW p \in Roles, Hangup(p)
  PROVE  Channel!Leave(p)
<1>1. /\ GiveUp(p) /\ ~closed[p] /\ UNCHANGED <<wire, sends, got>>
  BY DEF Hangup, Handshaking
<1>2. Offered' = Offered
  BY <1>1 DEF Offered
<1> QED
  BY <1>1, <1>2, GiveUpIsLeave

\* Every step is one of SecureChannel, or does not show.
LEMMA NextIsChannel ==
  ASSUME TypeOK, TypeOK', SessionInvariant, PlaceInv, PlaceInv', CountInv, LeaveInv,
         NoWrap, ~IoErrors, [Next]_vars
  PROVE  Channel!Next \/ UNCHANGED Channel!channel
<1>1. WiresKnown
  BY DEF WiresKnown, PlaceInv
<1>2. Channel!Ends = Roles /\ "client" \in Roles /\ "server" \in Roles
  BY DEF Channel!Ends, Roles
<1>3. ASSUME \/ Channel!Offer \/ Channel!Lose \/ Channel!Adopt
             \/ \E p \in Roles : \/ Channel!OpenUp(p) \/ Channel!Leave(p)
                                 \/ Channel!Send(p) \/ Channel!Deliver(p)
             \/ UNCHANGED Channel!channel
      PROVE  Channel!Next \/ UNCHANGED Channel!channel
  BY <1>2, <1>3 DEF Channel!Next
<1>4. CASE UNCHANGED vars
  <2>1. \A p \in Roles : SameView(p)
    BY <1>4, StillSame DEF vars
  <2>2. Offered' = Offered /\ UNCHANGED <<sends, got>>
    BY <1>4 DEF vars, Offered
  <2> QED
    BY <2>1, <2>2, ViewSame
<1>5. CASE Start
  BY <1>1, <1>2, <1>3, <1>5, StartMaps
<1>6. CASE ClientReceive
  <2>1. \/ Channel!Leave("client") \/ Channel!Adopt \/ Channel!OpenUp("client")
        \/ UNCHANGED Channel!channel
    BY <1>1, <1>2, <1>6, ClientReceiveProtoVersionMaps, ClientReceiveServerKexinitMaps,
       ClientReceiveKexReplyMaps, ReceiveNewkeysMaps, HangupMaps DEF ClientReceive
  <2> QED
    BY <1>2, <1>3, <2>1
<1>7. CASE ServerReceive
  <2>1. \/ Channel!Leave("server") \/ Channel!Offer \/ Channel!OpenUp("server")
        \/ UNCHANGED Channel!channel
    BY <1>1, <1>2, <1>7, ServerReceiveProtoVersionMaps, ServerReceiveClientKexinitMaps,
       ServerReceiveKexdhInitMaps, ReceiveNewkeysMaps, HangupMaps DEF ServerReceive
  <2> QED
    BY <1>2, <1>3, <2>1
<1>8. ASSUME NEW p \in Roles, Ready(p) \/ ReadError(p) \/ Damage(p)
      PROVE  Channel!Next \/ UNCHANGED Channel!channel
  <2>1. \/ Channel!Send(p) \/ Channel!Deliver(p) \/ Channel!Leave(p) \/ Channel!Lose
        \/ UNCHANGED Channel!channel
    BY <1>1, <1>8, SendPacketMaps, ReadPacketMaps, CloseMaps, DamageMaps
    DEF Ready, ReadPacketError, ReadError
  <2> QED
    BY <1>3, <2>1
<1> QED
  BY <1>4, <1>5, <1>6, <1>7, <1>8 DEF Next

\* Where reads and writes fail only because the peer has gone, and no end sends
\* as many packets as there are sequence numbers, the two state machines
\* implement a secure channel: one session or none, payloads in order, none left
\* out and none twice, whatever is damaged (client.rs, server.rs, all handlers).
THEOREM ChannelImplemented ==
  ASSUME ~IoErrors, \A p \in Roles : MaxSends[p] < SeqMod
  PROVE  Spec => ImplementsChannel
<1> DEFINE Invs == TypeOK /\ SessionInvariant /\ StreamInv /\ CountInv /\ PlaceInv /\ LeaveInv
<1>1. NoWrap
  BY DEF NoWrap
<1>2. Init => Invs
  BY InitType, InitSession, InitStream, InitCounts, InitPlaces, InitLeaves
<1>3. Invs /\ [Next]_vars => Invs'
  BY <1>1, NextType, NextSession, NextStream, NextCounts, NextPlaces, NextLeaves
<1>4. Init => Channel!Init
  BY InitIsChannel
<1>5. Invs /\ Invs' /\ [Next]_vars => [Channel!Next]_(Channel!channel)
  BY <1>1, NextIsChannel
<1> QED
  BY <1>2, <1>3, <1>4, <1>5, PTL DEF Spec, ImplementsChannel, Channel!Spec

-----------------------------------------------------------------------------
\* The invariant.

Undisturbed == ~IoErrors /\ MaxDamage = 0

\* p's reader has not dropped its stream, so all that p writes is written.
Reaches(p) == ~closed[Peer(p)]

\* The n-th unit of p after its NEWKEYS is sealed, all up to there are naked.
SealedAt(p, n, unit) ==
  /\ n <= 0 => unit.key = NoKey /\ unit.pos = 0
  /\ n > 0  => /\ ep[p].st = "Ready" /\ unit.key = ep[p].encoder.key
               /\ unit.pos = n - 1 /\ unit.seq = (n + 2) % SeqMod
WritesAligned ==
  \A p \in Roles : Reaches(p) => \A i \in 1 .. Len(wire[p]) :
    /\ wire[p][i].form = "whole" /\ wire[p][i].msg.type # "GARBAGE"
    /\ SealedAt(p, i - Lead(p) - 3, wire[p][i])

\* Until NEWKEYS both codecs are naked, and the ones to come are fresh.
Fresh(codec) == codec.pos = 0 /\ codec.aligned
HandshakeCodecs(x) ==
  /\ x.st \in Shaking => x.encoder = Naked /\ x.decoder = Naked
  /\ x.st = "WaitingForNewKeys" =>
       x.decoder = Naked /\ Fresh(x.pending_encoder) /\ Fresh(x.pending_decoder)
HandshakesAligned ==
  \A p \in Roles : HandshakeCodecs(ep[p]) /\ HandshakeNumbers(ep[p])

\* From Ready on they have passed as many packets as were sealed and read.
EncoderAt(p, x, written) ==
  /\ written = Lead(p) + 3 + x.encoder.pos
  /\ x.send_seq = (3 + x.encoder.pos) % SeqMod
DecoderAt(x, read) ==
  /\ x.decoder.aligned
  /\ read = 4 + x.decoder.pos
  /\ x.recv_seq = (3 + x.decoder.pos) % SeqMod
EndsAligned ==
  \A p \in Roles : ep[p].st = "Ready" =>
    /\ Reaches(p)  => EncoderAt(p, ep[p], Len(wire[p]))
    /\ ~closed[p] => DecoderAt(ep[p], rd[p])

AlignInv == WritesAligned /\ HandshakesAligned /\ EndsAligned
-----------------------------------------------------------------------------
\* What is next to be read decodes.

\* The unit an open end reads next is sealed as its place asks for.
LEMMA NextUnitAligned ==
  ASSUME TypeOK, PlaceInv, AlignInv, NEW p \in Roles, Unread(p), ~closed[p]
  PROVE  /\ Peer(p) \in Roles /\ Lead(Peer(p)) \in Nat /\ rd[p] \in Nat
         /\ NextUnit(p).form = "whole"
         /\ NextUnit(p).msg.type = Kind(Peer(p), (rd[p] + 1) - Lead(Peer(p)))
         /\ SealedAt(Peer(p), (rd[p] + 1) - Lead(Peer(p)) - 3, NextUnit(p))
<1> DEFINE q == Peer(p)
           i == rd[p] + 1
<1>1. q \in Roles /\ i \in 1 .. Len(wire[q]) /\ NextUnit(p) = wire[q][i] /\ Peer(q) = p
  BY NextUnitType DEF NextUnit, Peer, Roles
<1>2. Lead(q) \in Nat /\ rd[p] \in Nat
  BY DEF TypeOK, Lead
<1> HIDE DEF q, i
<1>3. /\ wire[q][i].form = "whole" /\ wire[q][i].msg.type # "GARBAGE"
      /\ SealedAt(q, i - Lead(q) - 3, wire[q][i])
  BY <1>1 DEF AlignInv, WritesAligned, Reaches
<1>4. wire[q][i].msg.type \in {Kind(q, i - Lead(q)), "GARBAGE"}
  BY <1>1 DEF PlaceInv, KindsInOrder
<1>5. wire[q][i].msg.type = Kind(q, i - Lead(q))
  BY <1>3, <1>4
<1> QED
  BY <1>1, <1>2, <1>3, <1>5 DEF q, i

\* In a handshake it is naked, and what the state waits for.
LEMMA HandshakeDecodes ==
  ASSUME TypeOK, PlaceInv, AlignInv, NEW p \in Roles, Unread(p), Handshaking(p), starts < 2
  PROVE  /\ NextUnit(p).form = "whole" /\ NextUnit(p).key = NoKey /\ NextUnit(p).pos = 0
         /\ NextUnit(p).msg.type =
              CASE ep[p].st = "WaitingForProtoVersion"  -> "ID"
                [] ep[p].st = "WaitingForServerKexInit" -> "KEXINIT"
                [] ep[p].st = "WaitingForClientKexInit" -> "KEXINIT"
                [] ep[p].st = "WaitingForKexDhInit"     -> "KEXDH_INIT"
                [] ep[p].st = "WaitingForKexReply"      -> "KEXDH_REPLY"
                [] ep[p].st = "WaitingForNewKeys"       -> "NEWKEYS"
<1> DEFINE q == Peer(p)
           n == (rd[p] + 1) - Lead(q)
           st == ep[p].st
<1>1. /\ q \in Roles /\ NextUnit(p).form = "whole" /\ NextUnit(p).msg.type = Kind(q, n)
      /\ SealedAt(q, n - 3, NextUnit(p)) /\ rd[p] \in Nat
  BY NextUnitAligned DEF Handshaking
<1>2. Lead(q) = 1
  <2>1. starts = 1
    BY ReaderIsNotFirst
  <2> QED
    BY <2>1 DEF Lead
<1>3. n = rd[p]
  BY <1>1, <1>2
<1> HIDE DEF n
<1>4. Place(p, st, Len(wire[p]), rd[p])
  BY DEF PlaceInv, Places
<1>5. st \in (IF p = "client"
                THEN {"WaitingForProtoVersion", "WaitingForServerKexInit", "WaitingForKexReply",
                      "WaitingForNewKeys"}
                ELSE {"WaitingForProtoVersion", "WaitingForClientKexInit", "WaitingForKexDhInit",
                      "WaitingForNewKeys"})
  <2>1. ep[p] \in States(p) /\ st \notin {"Ready", "Failed"}
    BY DEF TypeOK, Handshaking
  <2> QED
    BY <2>1 DEF States, AtReady, Failed,
       ClientAtProtoVersion, ClientAtKexInit, ClientAtKexReply, ClientAtNewKeys,
       ServerAtProtoVersion, ServerAtKexInit, ServerAtKexDhInit, ServerAtNewKeys
<1>6. rd[p] = IF st = "WaitingForProtoVersion" THEN 0
              ELSE IF st \in {"WaitingForServerKexInit", "WaitingForClientKexInit"} THEN 1
              ELSE IF st = "WaitingForNewKeys" THEN 3 ELSE 2
  BY <1>4, <1>5 DEF Place, Roles
<1>7. NextUnit(p).key = NoKey /\ NextUnit(p).pos = 0
  <2>1. n - 3 <= 0
    BY <1>3, <1>6
  <2> QED
    BY <1>1, <2>1 DEF SealedAt
<1>8. Kind(q, n) =
        CASE st = "WaitingForProtoVersion"  -> "ID"
          [] st = "WaitingForServerKexInit" -> "KEXINIT"
          [] st = "WaitingForClientKexInit" -> "KEXINIT"
          [] st = "WaitingForKexDhInit"     -> "KEXDH_INIT"
          [] st = "WaitingForKexReply"      -> "KEXDH_REPLY"
          [] st = "WaitingForNewKeys"       -> "NEWKEYS"
  BY <1>3, <1>5, <1>6 DEF Kind, Peer
<1> QED
  BY <1>1, <1>7, <1>8

\* An open end that is Ready reads at the place and under the number that its
\* peer sealed with.
LEMMA OpenDecodes ==
  ASSUME TypeOK, SessionInvariant, PlaceInv, AlignInv, NEW p \in Roles, Unread(p), Open(p)
  PROVE  /\ Decodes(ep[p].decoder, ep[p].recv_seq, NextUnit(p))
         /\ NextUnit(p).msg.type = "PAYLOAD"
<1> DEFINE q == Peer(p)
           x == ep[p]
           n == (rd[p] + 1) - Lead(q)
<1>1. /\ q \in Roles /\ NextUnit(p).form = "whole" /\ NextUnit(p).msg.type = Kind(q, n)
      /\ SealedAt(q, n - 3, NextUnit(p)) /\ rd[p] \in Nat
  BY NextUnitAligned DEF Open
<1>2. x.decoder.aligned /\ rd[p] = 4 + x.decoder.pos /\ x.recv_seq = (3 + x.decoder.pos) % SeqMod
  BY DEF Open, AlignInv, EndsAligned, DecoderAt
<1>3. Lead(q) = 1
  <2>1. CASE p = "client"
    BY <2>1 DEF Lead, Peer
  <2>2. CASE p = "server"
    <3>1. starts = 1
      BY <2>2 DEF Open, PlaceInv, StartedOnce
    <3> QED
      BY <2>2, <3>1 DEF Lead, Peer
  <2> QED
    BY <2>1, <2>2 DEF Roles
<1>4. x.decoder.pos \in Nat
  BY OpenPlaces DEF AtReady, Codecs
<1>5. n = 4 + x.decoder.pos /\ n - 3 = 1 + x.decoder.pos
  BY <1>1, <1>2, <1>3, <1>4
<1> HIDE DEF n
<1>6. NextUnit(p).msg.type = "PAYLOAD"
  BY <1>1, <1>4, <1>5 DEF Kind
<1>7. /\ ep[q].st = "Ready" /\ NextUnit(p).key = ep[q].encoder.key
      /\ NextUnit(p).pos = (n - 3) - 1 /\ NextUnit(p).seq = ((n - 3) + 2) % SeqMod
  BY <1>1, <1>4, <1>5 DEF SealedAt
<1>8. NextUnit(p).pos = x.decoder.pos /\ NextUnit(p).seq = x.recv_seq
  <2>1. (n - 3) - 1 = x.decoder.pos /\ (n - 3) + 2 = 3 + x.decoder.pos
    BY <1>4, <1>5
  <2> QED
    BY <1>2, <1>7, <2>1
<1>9. ep[q].encoder.key = x.decoder.key
  <2>1. SessionAgreement
    BY SessionImpliesAgreement
  <2> QED
    BY <1>7, <2>1 DEF Open, SessionAgreement, KeysDerived, SealingKey, OpeningKey, Peer, Roles
<1> QED
  BY <1>1, <1>2, <1>6, <1>7, <1>8, <1>9 DEF Decodes, Tracks

\* So everything unread decodes.
LEMMA AlignedDecodes ==
  ASSUME TypeOK, SessionInvariant, PlaceInv, LeaveInv, AlignInv
  PROVE  UnreadDecodes
<1> SUFFICES ASSUME NEW p \in Roles, Unread(p), ~closed[p],
                    ep[p].st # "WaitingForProtoVersion", starts < 2
             PROVE  /\ Decodes(ep[p].decoder, ep[p].recv_seq, NextUnit(p))
                    /\ NextUnit(p).msg.type =
                         CASE ep[p].st = "WaitingForServerKexInit" -> "KEXINIT"
                           [] ep[p].st = "WaitingForClientKexInit" -> "KEXINIT"
                           [] ep[p].st = "WaitingForKexDhInit"     -> "KEXDH_INIT"
                           [] ep[p].st = "WaitingForKexReply"      -> "KEXDH_REPLY"
                           [] ep[p].st = "WaitingForNewKeys"       -> "NEWKEYS"
                           [] OTHER -> "PAYLOAD"
  BY DEF UnreadDecodes
<1>1. ep[p].st # "Failed"
  BY DEF LeaveInv, FailedHasLeft
<1>2. CASE ep[p].st = "Ready"
  BY <1>2, OpenDecodes DEF Open
<1>3. CASE ep[p].st # "Ready"
  <2>1. Handshaking(p)
    BY <1>1, <1>3 DEF Handshaking
  <2>2. ep[p].st \in Shaking \cup {"WaitingForNewKeys"}
    <3>1. ep[p] \in States(p)
      BY DEF TypeOK
    <3> QED
      BY <1>1, <1>3, <3>1 DEF Shaking, States, AtReady, Failed,
         ClientAtProtoVersion, ClientAtKexInit, ClientAtKexReply, ClientAtNewKeys,
         ServerAtProtoVersion, ServerAtKexInit, ServerAtKexDhInit, ServerAtNewKeys
  <2>3. ep[p].decoder = Naked
    BY <2>2 DEF AlignInv, HandshakesAligned, HandshakeCodecs
  <2>4. Decodes(ep[p].decoder, ep[p].recv_seq, NextUnit(p))
    BY <2>1, <2>3, HandshakeDecodes DEF Decodes, Tracks, Naked
  <2> QED
    BY <1>3, <2>1, <2>2, <2>4, HandshakeDecodes DEF Shaking
<1> QED
  BY <1>2, <1>3
-----------------------------------------------------------------------------
\* Handshake steps.

\* Everything p has written is naked and whole, and nothing comes after NEWKEYS.
BareUnit(unit) ==
  /\ unit.form = "whole" /\ unit.msg.type # "GARBAGE"
  /\ unit.key = NoKey /\ unit.pos = 0
BareWire(p) ==
  \A i \in 1 .. Len(wire[p]) : BareUnit(wire[p][i]) /\ i <= Lead(p) + 3

\* So it is before Ready.
LEMMA BareBeforeReady ==
  ASSUME TypeOK, AlignInv, NEW p \in Roles, ep[p].st # "Ready", Reaches(p)
  PROVE  BareWire(p)
<1> SUFFICES ASSUME NEW i \in 1 .. Len(wire[p])
             PROVE  BareUnit(wire[p][i]) /\ i <= Lead(p) + 3
  BY DEF BareWire
<1> DEFINE n == i - Lead(p) - 3
<1>1. wire[p][i].form = "whole" /\ wire[p][i].msg.type # "GARBAGE" /\ SealedAt(p, n, wire[p][i])
  BY DEF AlignInv, WritesAligned
<1>2. Lead(p) \in Nat /\ i \in Nat
  BY DEF TypeOK, Lead
<1>3. n \in Int
  BY <1>2
<1> HIDE DEF n
<1>4. ~(n > 0)
  BY <1>1 DEF SealedAt
<1>5. n <= 0
  BY <1>3, <1>4
<1>6. wire[p][i].key = NoKey /\ wire[p][i].pos = 0
  BY <1>1, <1>5 DEF SealedAt
<1>7. i <= Lead(p) + 3
  BY <1>2, <1>5 DEF n
<1> QED
  BY <1>1, <1>6, <1>7 DEF BareUnit

\* A step of an end that is not Ready, after which its wire is bare and its
\* codecs are where its new state has them.
LEMMA HandshakeAligns ==
  ASSUME TypeOK, TypeOK', AlignInv, NEW p \in Roles, ep[p].st # "Ready",
         \A q \in Roles : q # p => /\ ep'[q] = ep[q] /\ wire'[q] = wire[q] /\ rd'[q] = rd[q]
                                   /\ Lead(q)' = Lead(q),
         \A q \in Roles : closed[q] => closed'[q],
         Reaches(p)' => BareWire(p)',
         HandshakeCodecs(ep'[p]), HandshakeNumbers(ep'[p]),
         ep'[p].st = "Ready" =>
           EncoderAt(p, ep[p], Len(wire[p]))' /\ DecoderAt(ep'[p], rd'[p])
  PROVE  AlignInv'
<1>1. \A q \in Roles : Peer(q) \in Roles
  BY DEF Peer, Roles
<1>2. WritesAligned'
  <2> SUFFICES ASSUME NEW q \in Roles, Reaches(q)', NEW i \in 1 .. Len(wire'[q])
               PROVE  /\ wire'[q][i].form = "whole" /\ wire'[q][i].msg.type # "GARBAGE"
                      /\ SealedAt(q, i - Lead(q) - 3, wire[q][i])'
    BY DEF WritesAligned
  <2>1. CASE q # p
    <3>1. Reaches(q) /\ wire'[q] = wire[q] /\ ep'[q] = ep[q] /\ Lead(q)' = Lead(q)
      BY <1>1, <2>1 DEF Reaches
    <3> QED
      BY <3>1 DEF AlignInv, WritesAligned, SealedAt
  <2>2. CASE q = p
    <3>1. BareUnit(wire'[p][i]) /\ i <= Lead(p)' + 3
      BY <2>2 DEF BareWire
    <3>2. i \in Nat /\ Lead(p)' \in Nat
      BY DEF TypeOK, Lead
    <3>3. ~(i - Lead(p)' - 3 > 0)
      BY <3>1, <3>2
    <3> QED
      BY <2>2, <3>1, <3>3 DEF BareUnit, SealedAt
  <2> QED
    BY <2>1, <2>2
<1>3. HandshakesAligned'
  BY DEF AlignInv, HandshakesAligned
<1>4. EndsAligned'
  <2> SUFFICES ASSUME NEW q \in Roles, ep'[q].st = "Ready"
               PROVE  /\ Reaches(q)'  => EncoderAt(q, ep[q], Len(wire[q]))'
                      /\ ~closed'[q] => DecoderAt(ep'[q], rd'[q])
    BY DEF EndsAligned
  <2>1. CASE q # p
    <3>1. /\ Reaches(q)' => Reaches(q)
          /\ wire'[q] = wire[q] /\ ep'[q] = ep[q] /\ rd'[q] = rd[q] /\ Lead(q)' = Lead(q)
      BY <1>1, <2>1 DEF Reaches
    <3> QED
      BY <3>1 DEF AlignInv, EndsAligned, EncoderAt
  <2>2. CASE q = p
    BY <2>2
  <2> QED
    BY <2>1, <2>2
<1> QED
  BY <1>2, <1>3, <1>4 DEF AlignInv

\* What a handshake handler writes.
BareOut(p, out) ==
  /\ out \in Seq(Units) /\ \A k \in 1 .. Len(out) : BareUnit(out[k])
  /\ Len(wire[p]) + Len(out) <= Lead(p) + 3

\* Written in full it leaves a bare wire.
LEMMA WriteBare ==
  ASSUME TypeOK, NEW p \in Roles, UNCHANGED starts, BareWire(p),
         NEW out, BareOut(p, out), Write(p, out)
  PROVE  BareWire(p)'
<1> SUFFICES ASSUME NEW i \in 1 .. Len(wire'[p])
             PROVE  BareUnit(wire'[p][i]) /\ i <= Lead(p)' + 3
  BY DEF BareWire
<1>1. /\ Len(wire[p]) \in Nat /\ Len(out) \in Nat /\ Len(wire'[p]) = Len(wire[p]) + Len(out)
      /\ \/ i \in 1 .. Len(wire[p]) /\ wire'[p][i] = wire[p][i]
         \/ i - Len(wire[p]) \in 1 .. Len(out) /\ wire'[p][i] = out[i - Len(wire[p])]
  BY WritePlaces DEF BareOut
<1>2. BareUnit(wire'[p][i])
  BY <1>1 DEF BareWire, BareOut
<1>3. Lead(p)' = Lead(p) /\ Lead(p) \in Nat
  BY DEF Lead, TypeOK
<1> QED
  BY <1>1, <1>2, <1>3 DEF BareOut

\* An end that gives up has no codecs.
LEMMA FailedIsAligned ==
  ASSUME TypeOK, NEW p \in Roles, GiveUp(p)
  PROVE  /\ ep'[p] = Failed /\ HandshakeCodecs(ep'[p]) /\ HandshakeNumbers(ep'[p])
         /\ ep'[p].st # "Ready" /\ closed'[p]
         /\ \A q \in Roles : q # p => ep'[q] = ep[q] /\ closed'[q] = closed[q]
BY DEF TypeOK, GiveUp, Failed, HandshakeCodecs, HandshakeNumbers, Shaking

\* A handler that returns Err, or whose write fails because nobody reads it.
LEMMA GiveUpAligns ==
  ASSUME TypeOK, TypeOK', AlignInv, NEW p \in Roles, ep[p].st # "Ready",
         GiveUp(p), UNCHANGED starts, \A q \in Roles : q # p => rd'[q] = rd[q],
         NEW out,
         \/ BareOut(p, out) /\ Write(p, out)
         \/ UNCHANGED wire
         \/ closed[Peer(p)] /\ \E cut : Write(p, cut)
  PROVE  AlignInv'
<1>1. \A q \in Roles : q # p => wire'[q] = wire[q]
  BY WriteAlone
<1>2. \A q \in Roles : Lead(q)' = Lead(q)
  BY DEF Lead
<1>3. \A q \in Roles : closed[q] => closed'[q]
  BY FailedIsAligned
<1>4. ASSUME Reaches(p)'
      PROVE  BareWire(p)'
  <2>1. Reaches(p) /\ Peer(p) \in Roles
    BY <1>3, <1>4 DEF Reaches, Peer, Roles
  <2>2. BareWire(p)
    BY <2>1, BareBeforeReady
  <2>3. CASE BareOut(p, out) /\ Write(p, out)
    BY <2>2, <2>3, WriteBare
  <2>4. CASE UNCHANGED wire
    BY <1>2, <2>2, <2>4 DEF BareWire
  <2> QED
    BY <2>1, <2>3, <2>4 DEF Reaches
<1> QED
  BY <1>1, <1>2, <1>3, <1>4, FailedIsAligned, HandshakeAligns

\* A handler that returns Err.
LEMMA RefuseAligns ==
  ASSUME TypeOK, TypeOK', AlignInv, Undisturbed, NEW p \in Roles, ep[p].st # "Ready",
         NEW out, BareOut(p, out), Refuse(p, out)
  PROVE  AlignInv'
<1>1. GiveUp(p) /\ UNCHANGED starts /\ \A q \in Roles : q # p => rd'[q] = rd[q]
  BY DEF Refuse, Consume, TypeOK
<1>2. Write(p, out) \/ (closed[Peer(p)] /\ \E cut : Write(p, cut))
  BY DEF Refuse, WriteMayFail, Undisturbed
<1> QED
  BY <1>1, <1>2, GiveUpAligns

\* A handler that returns a state of the handshake.
LEMMA ProceedAligns ==
  ASSUME TypeOK, TypeOK', AlignInv, Undisturbed, NEW p \in Roles, ep[p].st # "Ready",
         NEW out, BareOut(p, out), NEW next, Proceed(p, next, out), next.st # "Ready",
         HandshakeCodecs(next), HandshakeNumbers(next)
  PROVE  AlignInv'
<1>1. UNCHANGED starts /\ \A q \in Roles : q # p => rd'[q] = rd[q]
  BY DEF Proceed, Consume, TypeOK
<1>2. CASE Write(p, out) /\ ep' = [ep EXCEPT ![p] = next] /\ UNCHANGED closed
  <2>1. ep'[p] = next /\ \A q \in Roles : q # p => ep'[q] = ep[q] /\ wire'[q] = wire[q]
    BY <1>2, WriteAlone DEF TypeOK
  <2>2. \A q \in Roles : Lead(q)' = Lead(q)
    BY <1>1 DEF Lead
  <2>3. Reaches(p)' => BareWire(p)'
    BY <1>1, <1>2, BareBeforeReady, WriteBare DEF Reaches
  <2> QED
    BY <1>1, <1>2, <2>1, <2>2, <2>3, HandshakeAligns
<1>3. CASE WriteMayFail(p) /\ GiveUp(p) /\ \E cut \in Cuts(out) : Write(p, cut)
  <2>1. closed[Peer(p)] /\ \E cut : Write(p, cut)
    BY <1>3 DEF WriteMayFail, Undisturbed
  <2> QED
    BY <1>1, <1>3, <2>1, GiveUpAligns
<1> QED
  BY <1>2, <1>3 DEF Proceed
-----------------------------------------------------------------------------
\* Handler by handler.

\* A unit of a naked encoder is bare.
LEMMA BareOne ==
  ASSUME TypeOK, NEW p \in Roles, NEW seq \in Nat, NEW msg \in Messages, msg.type # "GARBAGE",
         Len(wire[p]) + 1 <= Lead(p) + 3
  PROVE  BareOut(p, <<Build(Naked, seq, msg)>>)
<1> DEFINE unit == Build(Naked, seq, msg)
<1>1. unit \in Units /\ BareUnit(unit)
  BY CodecTypes, BuildType DEF Build, Naked, BareUnit
<1> HIDE DEF unit
<1>2. <<unit>> \in Seq(Units) /\ Len(<<unit>>) = 1 /\ <<unit>>[1] = unit
  BY <1>1
<1>3. \A k \in 1 .. Len(<<unit>>) : BareUnit(<<unit>>[k])
  BY <1>1, <1>2
<1> QED
  BY <1>2, <1>3 DEF BareOut, unit

\* So is nothing.
LEMMA BareNone ==
  ASSUME TypeOK, NEW p \in Roles, Len(wire[p]) <= Lead(p) + 3
  PROVE  BareOut(p, <<>>)
<1>1. Len(wire[p]) \in Nat /\ Lead(p) \in Nat
  BY DEF TypeOK, Lead
<1>2. <<>> \in Seq(Units) /\ Len(<<>>) = 0
  OBVIOUS
<1> QED
  BY <1>1, <1>2 DEF BareOut

\* start writes its line in front of everything, or to nobody.
LEMMA StartAligns ==
  ASSUME TypeOK, TypeOK', PlaceInv, AlignInv, Undisturbed, Start
  PROVE  AlignInv'
<1> DEFINE line == <<Line("client")>>
<1>1. /\ "client" \in Roles /\ ep["client"].st = "WaitingForProtoVersion" /\ ~closed["client"]
      /\ starts' = starts + 1 /\ starts \in Nat /\ UNCHANGED <<ep, rd>>
  BY DEF Roles, Start, TypeOK
<1>2. Lead("client") = starts /\ Lead("client")' = starts + 1
      /\ \A q \in Roles : q # "client" => Lead(q)' = Lead(q)
  BY <1>1 DEF Lead
<1>3. Len(wire["client"]) = starts
  BY <1>1 DEF PlaceInv, LinesWritten
<1>4. IdLine(OwnId["client"]) \in Messages /\ IdLine(OwnId["client"]).type = "ID"
  BY <1>1, TransportAssumption DEF IdLine, Messages
<1>5. BareOut("client", line)
  BY <1>1, <1>2, <1>3, <1>4, BareOne DEF Line
<1>6. Write("client", line) \/ (closed["server"] /\ \E cut : Write("client", cut))
  BY DEF Start, StartOk, StartErr, WriteMayFail, Undisturbed, Peer
<1>7. \A q \in Roles : closed[q] => closed'[q]
  BY DEF Start, StartOk, StartErr, TypeOK
<1>8. \A q \in Roles : q # "client" => wire'[q] = wire[q]
  BY <1>1, <1>6, WriteAlone
<1>9. ASSUME Reaches("client")'
      PROVE  BareWire("client")'
  <2>1. ~closed["server"] /\ Reaches("client")
    BY <1>7, <1>9 DEF Reaches, Peer, Roles
  <2>2. Write("client", line)
    BY <1>6, <2>1
  <2>3. BareWire("client")
    BY <1>1, <2>1, BareBeforeReady
  <2> SUFFICES ASSUME NEW i \in 1 .. Len(wire'["client"])
               PROVE  BareUnit(wire'["client"][i]) /\ i <= Lead("client")' + 3
    BY DEF BareWire
  <2>4. Len(line) = 1 /\ line \in Seq(Units)
    BY <1>5 DEF BareOut
  <2> HIDE DEF line
  <2>5. /\ Len(wire'["client"]) = Len(wire["client"]) + 1
        /\ \/ i \in 1 .. Len(wire["client"]) /\ wire'["client"][i] = wire["client"][i]
           \/ \E k \in 1 .. Len(line) : wire'["client"][i] = line[k]
    BY <1>1, <2>2, <2>4, WritePlaces
  <2>6. BareUnit(wire'["client"][i])
    BY <1>5, <2>3, <2>5 DEF BareWire, BareOut
  <2> QED
    BY <1>1, <1>2, <1>3, <2>5, <2>6
<1>10. HandshakeCodecs(ep'["client"]) /\ HandshakeNumbers(ep'["client"])
  BY <1>1 DEF AlignInv, HandshakesAligned
<1> QED
  BY <1>1, <1>2, <1>7, <1>8, <1>9, <1>10, HandshakeAligns

\* The client's KEXINIT is bare, and its codecs stay naked.
LEMMA ClientReceiveProtoVersionAligns ==
  ASSUME TypeOK, TypeOK', PlaceInv, AlignInv, Undisturbed, ClientReceiveProtoVersion
  PROVE  AlignInv'
<1> DEFINE c == ep["client"]
           line == NextUnit("client").msg
<1>1. "client" \in Roles /\ At("client", "WaitingForProtoVersion")
  BY DEF Roles, ClientReceiveProtoVersion
<1>2. /\ c.st = "WaitingForProtoVersion" /\ Len(wire["client"]) \in Nat /\ Lead("client") \in Nat
      /\ Len(wire["client"]) <= Lead("client")
  BY <1>1, AtPlaces DEF Place, Lead
<1>3. CASE Refuse("client", <<>>)
  <2>1. BareOut("client", <<>>)
    <3>1. Len(wire["client"]) <= Lead("client") + 3
      BY <1>2
    <3> QED
      BY <1>1, <3>1, BareNone, Zenon
  <2> QED
    BY <1>1, <1>2, <1>3, <2>1, RefuseAligns
<1>4. ASSUME NEW cookie \in Cookies, NEW offer \in OwnOffers["client"],
             Proceed("client", ClientAfterProtoVersion(c, line, KexInit(cookie, offer)),
                     <<Build(Naked, 0, KexInit(cookie, offer))>>)
      PROVE  AlignInv'
  <2> DEFINE kexinit == KexInit(cookie, offer)
             next == ClientAfterProtoVersion(c, line, kexinit)
  <2>1. kexinit \in Messages /\ kexinit.type = "KEXINIT"
    BY <1>1, KexInitType DEF KexInit
  <2> HIDE DEF kexinit
  <2>2. BareOut("client", <<Build(Naked, 0, kexinit)>>)
    BY <1>1, <1>2, <2>1, BareOne
  <2>3. /\ next.st = "WaitingForServerKexInit" /\ next.encoder = Naked /\ next.decoder = Naked
        /\ next.send_seq = SeqAdd(0, 1) /\ next.recv_seq = 0
    BY DEF ClientAfterProtoVersion, Advance, Naked
  <2>4. HandshakeCodecs(next)
    BY <2>3 DEF HandshakeCodecs
  <2>5. HandshakeNumbers(next)
    <3>1. 0 % SeqMod = 0
      BY TransportAssumption
    <3> QED
      BY <2>3, <3>1 DEF HandshakeNumbers, Numbered, SeqAdd
  <2>6. Proceed("client", next, <<Build(Naked, 0, kexinit)>>)
    BY <1>4 DEF kexinit
  <2> HIDE DEF next
  <2> QED
    BY <1>1, <1>2, <2>2, <2>3, <2>4, <2>5, <2>6, ProceedAligns
<1> QED
  BY <1>3, <1>4 DEF ClientReceiveProtoVersion

\* So is its KEXDH_INIT.
LEMMA ClientReceiveServerKexinitAligns ==
  ASSUME TypeOK, TypeOK', PlaceInv, AlignInv, Undisturbed, ClientReceiveServerKexinit
  PROVE  AlignInv'
<1> DEFINE c == ep["client"]
           msg == NextUnit("client").msg
           neg == client_negotiate(c.client_kexinit.offer, msg.offer)
<1>1. "client" \in Roles /\ At("client", "WaitingForServerKexInit")
  BY DEF Roles, ClientReceiveServerKexinit
<1>2. /\ c.st = "WaitingForServerKexInit" /\ Lead("client") \in Nat
      /\ Len(wire["client"]) = Lead("client") + 1
  BY <1>1, AtPlaces DEF Place
<1>3. CASE Refuse("client", <<>>)
  <2>1. BareOut("client", <<>>)
    <3>1. Len(wire["client"]) <= Lead("client") + 3
      BY <1>2
    <3> QED
      BY <1>1, <3>1, BareNone, Zenon
  <2> QED
    BY <1>1, <1>2, <1>3, <2>1, RefuseAligns
<1>4. ASSUME Negotiable(c.client_kexinit.offer, msg.offer), NEW secret \in DhSecrets(neg["kex"]),
             Proceed("client", ClientAfterKexInit(c, msg, neg, secret),
                     <<Build(c.encoder, c.send_seq, KexDhInit(PublicValue(neg["kex"], secret)))>>)
      PROVE  AlignInv'
  <2> DEFINE init == KexDhInit(PublicValue(neg["kex"], secret))
             next == ClientAfterKexInit(c, msg, neg, secret)
  <2>1. init \in Messages /\ init.type = "KEXDH_INIT"
    <3>1. neg["kex"] \in KexNames
      BY <1>4, NegotiatedType, NegotiatedKex
    <3>2. PublicValue(neg["kex"], secret) \in Nat
      BY <1>4, <3>1, SecretType, DhType
    <3> QED
      BY <3>2 DEF KexDhInit, Messages
  <2>2. c.encoder = Naked /\ c.decoder = Naked /\ Numbered(c, 1, 0)
    BY <1>1, <1>2 DEF AlignInv, HandshakesAligned, HandshakeCodecs, HandshakeNumbers, Shaking
  <2>3. c.send_seq \in Nat
    BY <1>1, <1>2, ClientVariant DEF ClientAtKexInit
  <2> HIDE DEF init
  <2>4. BareOut("client", <<Build(c.encoder, c.send_seq, init)>>)
    <3>1. Len(wire["client"]) + 1 <= Lead("client") + 3 /\ init.type # "GARBAGE"
      BY <1>2, <2>1
    <3>2. BareOut("client", <<Build(Naked, c.send_seq, init)>>)
      BY <1>1, <2>1, <2>3, <3>1, BareOne
    <3> QED
      BY <2>2, <3>2
  <2>5. /\ next.st = "WaitingForKexReply" /\ next.encoder = Naked /\ next.decoder = Naked
        /\ next.send_seq = SeqAdd(1 % SeqMod, 1) /\ next.recv_seq = SeqAdd(0 % SeqMod, 1)
    BY <2>2 DEF ClientAfterKexInit, Advance, Naked, Numbered
  <2>6. HandshakeCodecs(next)
    BY <2>5 DEF HandshakeCodecs
  <2>7. next.send_seq = (1 + 1) % SeqMod /\ next.recv_seq = (0 + 1) % SeqMod
    BY <2>5, SeqAddCounts
  <2>8. HandshakeNumbers(next)
    BY <2>5, <2>7 DEF HandshakeNumbers, Numbered
  <2>9. Proceed("client", next, <<Build(c.encoder, c.send_seq, init)>>)
    BY <1>4 DEF init
  <2> HIDE DEF next
  <2> QED
    BY <1>1, <1>2, <2>4, <2>5, <2>6, <2>8, <2>9, ProceedAligns
<1> QED
  BY <1>3, <1>4 DEF ClientReceiveServerKexinit

\* So is its NEWKEYS; the codecs to come are fresh.
LEMMA ClientReceiveKexReplyAligns ==
  ASSUME TypeOK, TypeOK', PlaceInv, AlignInv, Undisturbed, ClientReceiveKexReply
  PROVE  AlignInv'
<1> DEFINE c == ep["client"]
           msg == NextUnit("client").msg
           next == ClientAfterKexReply(c, msg)
<1>1. "client" \in Roles /\ At("client", "WaitingForKexReply")
  BY DEF Roles, ClientReceiveKexReply
<1>2. /\ c.st = "WaitingForKexReply" /\ Lead("client") \in Nat
      /\ Len(wire["client"]) = Lead("client") + 2
  BY <1>1, AtPlaces DEF Place
<1>3. CASE Refuse("client", <<>>)
  <2>1. BareOut("client", <<>>)
    <3>1. Len(wire["client"]) <= Lead("client") + 3
      BY <1>2
    <3> QED
      BY <1>1, <3>1, BareNone, Zenon
  <2> QED
    BY <1>1, <1>2, <1>3, <2>1, RefuseAligns
<1>4. CASE Proceed("client", next, <<Build(c.encoder, c.send_seq, NewKeys)>>)
  <2>1. NewKeys \in Messages /\ NewKeys.type = "NEWKEYS"
    BY DEF NewKeys, Messages
  <2>2. c.encoder = Naked /\ c.decoder = Naked /\ Numbered(c, 2, 1)
    BY <1>1, <1>2 DEF AlignInv, HandshakesAligned, HandshakeCodecs, HandshakeNumbers, Shaking
  <2>3. c.send_seq \in Nat
    BY <1>1, <1>2, ClientVariant DEF ClientAtKexReply
  <2>4. BareOut("client", <<Build(c.encoder, c.send_seq, NewKeys)>>)
    BY <1>1, <1>2, <2>1, <2>2, <2>3, BareOne
  <2>5. /\ next.st = "WaitingForNewKeys" /\ next.decoder = Naked
        /\ Fresh(next.pending_encoder) /\ Fresh(next.pending_decoder)
        /\ next.send_seq = SeqAdd(2 % SeqMod, 1) /\ next.recv_seq = SeqAdd(1 % SeqMod, 1)
    BY <2>2 DEF ClientAfterKexReply, Advance, Naked, Numbered, Fresh, PendingEncoder,
       PendingDecoder, Traditional
  <2>6. HandshakeCodecs(next)
    BY <2>5 DEF HandshakeCodecs, Shaking
  <2>7. next.send_seq = (2 + 1) % SeqMod /\ next.recv_seq = (1 + 1) % SeqMod
    BY <2>5, SeqAddCounts
  <2>8. HandshakeNumbers(next)
    BY <2>5, <2>7 DEF HandshakeNumbers, Numbered
  <2> HIDE DEF next
  <2> QED
    BY <1>1, <1>2, <1>4, <2>4, <2>5, <2>6, <2>8, ProceedAligns
<1> QED
  BY <1>3, <1>4 DEF ClientReceiveKexReply
\* The server's line answers the client's.
LEMMA ServerReceiveProtoVersionAligns ==
  ASSUME TypeOK, TypeOK', PlaceInv, AlignInv, Undisturbed, ServerReceiveProtoVersion
  PROVE  AlignInv'
<1> DEFINE next == ServerAfterProtoVersion(ep["server"], NextUnit("server").msg)
<1>1. "server" \in Roles /\ At("server", "WaitingForProtoVersion")
  BY DEF Roles, ServerReceiveProtoVersion
<1>2. /\ ep["server"].st = "WaitingForProtoVersion" /\ Lead("server") = 1
      /\ Len(wire["server"]) = 0
  BY <1>1, AtPlaces DEF Place, Lead
<1>3. CASE Refuse("server", <<>>)
  <2>1. BareOut("server", <<>>)
    <3>1. Len(wire["server"]) <= Lead("server") + 3
      BY <1>2
    <3> QED
      BY <1>1, <3>1, BareNone, Zenon
  <2> QED
    BY <1>1, <1>2, <1>3, <2>1, RefuseAligns
<1>4. CASE Proceed("server", next, <<Line("server")>>)
  <2>1. IdLine(OwnId["server"]) \in Messages /\ IdLine(OwnId["server"]).type = "ID"
    BY <1>1, TransportAssumption DEF IdLine, Messages
  <2>2. BareOut("server", <<Line("server")>>)
    BY <1>1, <1>2, <2>1, BareOne DEF Line
  <2>3. /\ next.st = "WaitingForClientKexInit" /\ next.encoder = Naked /\ next.decoder = Naked
        /\ next.send_seq = 0 /\ next.recv_seq = 0
    BY DEF ServerAfterProtoVersion
  <2>4. HandshakeCodecs(next)
    BY <2>3 DEF HandshakeCodecs
  <2>5. HandshakeNumbers(next)
    <3>1. 0 % SeqMod = 0
      BY TransportAssumption
    <3> QED
      BY <2>3, <3>1 DEF HandshakeNumbers, Numbered
  <2> HIDE DEF next
  <2> QED
    BY <1>1, <1>2, <1>4, <2>2, <2>3, <2>4, <2>5, ProceedAligns
<1> QED
  BY <1>3, <1>4 DEF ServerReceiveProtoVersion

\* Its KEXINIT follows, also when the proposals mismatch.
LEMMA ServerReceiveClientKexinitAligns ==
  ASSUME TypeOK, TypeOK', PlaceInv, AlignInv, Undisturbed, ServerReceiveClientKexinit
  PROVE  AlignInv'
<1> DEFINE s == ep["server"]
           msg == NextUnit("server").msg
<1>1. "server" \in Roles /\ At("server", "WaitingForClientKexInit")
  BY DEF Roles, ServerReceiveClientKexinit
<1>2. /\ s.st = "WaitingForClientKexInit" /\ Lead("server") = 1
      /\ Len(wire["server"]) = 1
  BY <1>1, AtPlaces DEF Place, Lead
<1>3. CASE Refuse("server", <<>>)
  <2>1. BareOut("server", <<>>)
    <3>1. Len(wire["server"]) <= Lead("server") + 3
      BY <1>2
    <3> QED
      BY <1>1, <3>1, BareNone, Zenon
  <2> QED
    BY <1>1, <1>2, <1>3, <2>1, RefuseAligns
<1>4. ASSUME NEW cookie \in Cookies, NEW offer \in OwnOffers["server"],
             LET kexinit == KexInit(cookie, offer)
                 out == <<Build(s.encoder, s.send_seq, kexinit)>>
             IN  \/ Refuse("server", out)
                 \/ Proceed("server", ServerAfterKexInit(s, msg, kexinit), out)
      PROVE  AlignInv'
  <2> DEFINE kexinit == KexInit(cookie, offer)
             out == <<Build(s.encoder, s.send_seq, kexinit)>>
             next == ServerAfterKexInit(s, msg, kexinit)
  <2>1. kexinit \in Messages /\ kexinit.type = "KEXINIT"
    BY <1>1, KexInitType DEF KexInit
  <2>2. s.encoder = Naked /\ s.decoder = Naked /\ Numbered(s, 0, 0)
    BY <1>1, <1>2 DEF AlignInv, HandshakesAligned, HandshakeCodecs, HandshakeNumbers, Shaking
  <2>3. s.send_seq \in Nat
    BY <1>1, <1>2, ServerVariant DEF ServerAtKexInit
  <2>4. Refuse("server", out) \/ Proceed("server", next, out)
    BY <1>4
  <2> HIDE DEF kexinit
  <2>5. BareOut("server", out)
    <3>1. Len(wire["server"]) + 1 <= Lead("server") + 3 /\ kexinit.type # "GARBAGE"
      BY <1>2, <2>1
    <3>2. BareOut("server", <<Build(Naked, s.send_seq, kexinit)>>)
      BY <1>1, <2>1, <2>3, <3>1, BareOne
    <3> QED
      BY <2>2, <3>2
  <2>6. /\ next.st = "WaitingForKexDhInit" /\ next.encoder = Naked /\ next.decoder = Naked
        /\ next.send_seq = SeqAdd(0 % SeqMod, 1) /\ next.recv_seq = SeqAdd(0 % SeqMod, 1)
    BY <2>2 DEF ServerAfterKexInit, Advance, Naked, Numbered
  <2>7. HandshakeCodecs(next)
    BY <2>6 DEF HandshakeCodecs
  <2>8. next.send_seq = (0 + 1) % SeqMod /\ next.recv_seq = (0 + 1) % SeqMod
    BY <2>6, SeqAddCounts
  <2>9. HandshakeNumbers(next)
    BY <2>6, <2>8 DEF HandshakeNumbers, Numbered
  <2> HIDE DEF out, next
  <2> QED
    BY <1>1, <1>2, <2>4, <2>5, <2>6, <2>7, <2>9, RefuseAligns, ProceedAligns
<1> QED
  BY <1>3, <1>4 DEF ServerReceiveClientKexinit

\* Its reply and its NEWKEYS are bare; the codecs to come are fresh.
LEMMA ServerReceiveKexdhInitAligns ==
  ASSUME TypeOK, TypeOK', PlaceInv, AlignInv, Undisturbed, ServerReceiveKexdhInit
  PROVE  AlignInv'
<1> DEFINE s == ep["server"]
           msg == NextUnit("server").msg
<1>1. "server" \in Roles /\ At("server", "WaitingForKexDhInit")
  BY DEF Roles, ServerReceiveKexdhInit
<1>2. /\ s.st = "WaitingForKexDhInit" /\ Lead("server") = 1
      /\ Len(wire["server"]) = 2
  BY <1>1, AtPlaces DEF Place, Lead
<1>3. CASE Refuse("server", <<>>)
  <2>1. BareOut("server", <<>>)
    <3>1. Len(wire["server"]) <= Lead("server") + 3
      BY <1>2
    <3> QED
      BY <1>1, <3>1, BareNone, Zenon
  <2> QED
    BY <1>1, <1>2, <1>3, <2>1, RefuseAligns
<1>4. ASSUME Received("server", "KEXDH_INIT"), NEW secret \in DhSecrets(s.negotiated["kex"]),
             Proceed("server", ServerAfterKexDhInit(s, msg.e, secret),
               <<Build(s.encoder, s.send_seq, ServerReply(s, msg.e, secret)),
                 Build(Advance(s.encoder), SeqAdd(s.send_seq, 1), NewKeys)>>)
      PROVE  AlignInv'
  <2> DEFINE reply == ServerReply(s, msg.e, secret)
             first == Build(s.encoder, s.send_seq, reply)
             second == Build(Advance(s.encoder), SeqAdd(s.send_seq, 1), NewKeys)
             next == ServerAfterKexDhInit(s, msg.e, secret)
  <2>1. s \in ServerAtKexDhInit /\ msg \in Messages
    BY <1>1, <1>2, ServerVariant, NextUnitType DEF At, Readable
  <2>2. msg.e \in Nat
    BY <1>4, <2>1, MessageVariant DEF Received
  <2>3. reply \in Messages /\ reply.type = "KEXDH_REPLY"
    <3>1. reply \in Messages
      BY <1>4, <2>1, <2>2, ServerReplyType
    <3> QED
      BY <3>1 DEF ServerReply, KexDhReply
  <2>4. s.encoder = Naked /\ s.decoder = Naked /\ Numbered(s, 1, 1)
    BY <1>1, <1>2 DEF AlignInv, HandshakesAligned, HandshakeCodecs, HandshakeNumbers, Shaking
  <2>5. s.send_seq \in Nat /\ SeqAdd(s.send_seq, 1) \in Nat
    BY <2>1, SeqAddType DEF ServerAtKexDhInit
  <2>6. NewKeys \in Messages /\ NewKeys.type = "NEWKEYS" /\ Advance(Naked) = Naked
    BY DEF NewKeys, Messages, Advance, Naked
  <2>7. Proceed("server", next, <<first, second>>)
    BY <1>4
  <2>8. /\ next.st = "WaitingForNewKeys" /\ next.decoder = Naked
        /\ Fresh(next.pending_encoder) /\ Fresh(next.pending_decoder)
        /\ next.send_seq = SeqAdd(1 % SeqMod, 2) /\ next.recv_seq = SeqAdd(1 % SeqMod, 1)
    BY <2>4, <2>6 DEF ServerAfterKexDhInit, Numbered, Fresh, PendingEncoder,
       PendingDecoder, Traditional
  <2> HIDE DEF reply, next
  <2>9. first \in Units /\ BareUnit(first)
    BY <2>3, <2>4, <2>5, CodecTypes, BuildType DEF Build, Naked, BareUnit
  <2>10. second \in Units /\ BareUnit(second)
    BY <2>4, <2>5, <2>6, CodecTypes, BuildType DEF Build, Naked, BareUnit
  <2> HIDE DEF first, second
  <2> DEFINE out == <<first, second>>
  <2>11. out \in Seq(Units) /\ Len(out) = 2 /\ out[1] = first /\ out[2] = second
    BY <2>9, <2>10
  <2>12. 1 .. Len(out) = {1, 2} /\ Proceed("server", next, out)
    BY <2>7, <2>11
  <2> HIDE DEF out
  <2>13. BareOut("server", out)
    BY <1>2, <2>9, <2>10, <2>11, <2>12 DEF BareOut
  <2>14. HandshakeCodecs(next)
    BY <2>8 DEF HandshakeCodecs, Shaking
  <2>15. next.send_seq = (1 + 2) % SeqMod /\ next.recv_seq = (1 + 1) % SeqMod
    BY <2>8, SeqAddCounts
  <2>16. HandshakeNumbers(next)
    BY <2>8, <2>15 DEF HandshakeNumbers, Numbered
  <2> QED
    BY <1>1, <1>2, <2>8, <2>12, <2>13, <2>14, <2>16, ProceedAligns
<1> QED
  BY <1>3, <1>4 DEF ServerReceiveKexdhInit

\* The change of keys: both codecs start at the first unit after the handshake.
LEMMA ReceiveNewkeysAligns ==
  ASSUME TypeOK, TypeOK', PlaceInv, AlignInv, Undisturbed, NEW p \in Roles, ReceiveNewkeys(p)
  PROVE  AlignInv'
<1> DEFINE x == ep[p]
           next == AfterNewKeys(x)
<1>1. At(p, "WaitingForNewKeys")
  BY DEF ReceiveNewkeys
<1>2. /\ x.st = "WaitingForNewKeys" /\ Lead(p) \in Nat /\ Len(wire[p]) = Lead(p) + 3
      /\ rd[p] = 3 /\ ~closed[p]
  BY <1>1, AtPlaces DEF Place, At
<1>3. BareOut(p, <<>>)
  BY <1>2, BareNone
<1>4. CASE Refuse(p, <<>>)
  BY <1>2, <1>3, <1>4, RefuseAligns
<1>5. CASE Proceed(p, next, <<>>)
  <2>1. /\ ep' = [ep EXCEPT ![p] = next] /\ Write(p, <<>>) /\ UNCHANGED <<closed, starts>>
        /\ rd' = [rd EXCEPT ![p] = @ + 1]
    BY <1>5 DEF Proceed, Consume
  <2>2. /\ ep'[p] = next /\ rd'[p] = 4
        /\ \A q \in Roles : q # p => ep'[q] = ep[q] /\ rd'[q] = rd[q]
    BY <1>2, <2>1 DEF TypeOK
  <2>3. wire' = wire
    BY <2>1, EmptyWrite DEF Consume
  <2>4. \A q \in Roles : Lead(q)' = Lead(q)
    BY <2>1 DEF Lead
  <2>5. Reaches(p)' => BareWire(p)'
    <3>1. Reaches(p)' => BareWire(p)
      BY <1>2, <2>1, BareBeforeReady DEF Reaches
    <3> QED
      BY <2>3, <2>4, <3>1 DEF BareWire
  <2>6. /\ Fresh(x.pending_encoder) /\ Fresh(x.pending_decoder) /\ Numbered(x, 3, 2)
    BY <1>2 DEF AlignInv, HandshakesAligned, HandshakeCodecs, HandshakeNumbers
  <2>7. /\ next.st = "Ready" /\ next.encoder.pos = 0 /\ next.decoder.pos = 0
        /\ next.decoder.aligned /\ next.send_seq = 3 % SeqMod
        /\ next.recv_seq = SeqAdd(2 % SeqMod, 1)
    BY <2>6 DEF AfterNewKeys, Fresh, Numbered
  <2>8. next.recv_seq = (2 + 1) % SeqMod
    BY <2>7, SeqAddCounts
  <2>9. HandshakeCodecs(next) /\ HandshakeNumbers(next)
    BY <2>7 DEF HandshakeCodecs, HandshakeNumbers, Shaking
  <2> HIDE DEF next, x
  <2>10. DecoderAt(ep'[p], rd'[p])
    BY <2>2, <2>7, <2>8 DEF DecoderAt
  <2>11. EncoderAt(p, ep[p], Len(wire[p]))'
    BY <1>2, <2>2, <2>3, <2>4, <2>7 DEF EncoderAt
  <2> QED
    BY <1>2, <2>1, <2>2, <2>3, <2>4, <2>5, <2>9, <2>10, <2>11, HandshakeAligns DEF x
<1> QED
  BY <1>4, <1>5 DEF ReceiveNewkeys
\* A handshake that breaks off writes nothing.
LEMMA HangupAligns ==
  ASSUME TypeOK, TypeOK', AlignInv, NEW p \in Roles, Hangup(p)
  PROVE  AlignInv'
<1>1. ep[p].st # "Ready" /\ GiveUp(p) /\ UNCHANGED <<wire, rd, starts>>
  BY DEF Hangup, Handshaking
<1> QED
  BY <1>1, GiveUpAligns
-----------------------------------------------------------------------------
\* Ready.

\* What send_packet does on an undisturbed stream: the packet goes out and is
\* counted, or its reader has left.
LEMMA SendPacketOutcomes ==
  ASSUME TypeOK, Undisturbed, NEW p \in Roles, SendPacket(p)
  PROVE  LET x == ep[p]
             unit == Build(x.encoder, x.send_seq, Payload(Len(sends[p]) + 1))
         IN  /\ Open(p) /\ x \in AtReady /\ unit \in Units
             /\ \A q \in Roles : q # p => ep'[q] = ep[q] /\ wire'[q] = wire[q]
             /\ ep'[p].st = "Ready" /\ ep'[p].decoder = x.decoder
             /\ ep'[p].recv_seq = x.recv_seq /\ ep'[p].encoder = Advance(x.encoder)
             /\ \/ closed[Peer(p)]
                \/ Write(p, <<unit>>) /\ ep'[p].send_seq = SeqAdd(x.send_seq, 1)
<1> DEFINE x == ep[p]
           unit == Build(x.encoder, x.send_seq, Payload(Len(sends[p]) + 1))
<1>1. Open(p) /\ x \in AtReady
  BY ReadyVariant DEF SendPacket
<1>2. unit \in Units
  <2>1. Len(sends[p]) \in Nat
    BY DEF TypeOK
  <2>2. Payload(Len(sends[p]) + 1) \in Messages
    BY <2>1 DEF Payload, Messages
  <2> QED
    BY <1>1, <2>2, BuildType DEF AtReady
<1>3. \/ /\ Write(p, <<unit>>)
         /\ ep'[p] = [x EXCEPT !.encoder = Advance(x.encoder), !.send_seq = SeqAdd(x.send_seq, 1)]
      \/ closed[Peer(p)] /\ ep'[p] = [x EXCEPT !.encoder = Advance(x.encoder)]
  BY DEF SendPacket, WriteMayFail, Undisturbed, TypeOK
<1>4. \A q \in Roles : q # p => ep'[q] = ep[q]
  BY DEF SendPacket, TypeOK
<1>5. \A q \in Roles : q # p => wire'[q] = wire[q]
  BY WriteAlone DEF SendPacket
<1>6. /\ x.st = "Ready" /\ ep'[p].st = x.st /\ ep'[p].decoder = x.decoder
      /\ ep'[p].recv_seq = x.recv_seq /\ ep'[p].encoder = Advance(x.encoder)
  <2> HIDE DEF x, unit
  <2> QED
    BY <1>1, <1>3 DEF AtReady
<1>7. \/ closed[Peer(p)]
      \/ Write(p, <<unit>>) /\ ep'[p].send_seq = SeqAdd(x.send_seq, 1)
  <2> HIDE DEF x, unit
  <2> QED
    BY <1>1, <1>3 DEF AtReady
<1> HIDE DEF unit
<1> QED
  BY ONLY <1>1, <1>2, <1>4, <1>5, <1>6, <1>7 DEF unit

\* A payload is sealed where its reader will look for it.
LEMMA SendPacketAligns ==
  ASSUME TypeOK, TypeOK', SessionInvariant, PlaceInv, AlignInv, Undisturbed,
         NEW p \in Roles, SendPacket(p)
  PROVE  AlignInv'
<1> DEFINE x == ep[p]
           unit == Build(x.encoder, x.send_seq, Payload(Len(sends[p]) + 1))
           pos == x.encoder.pos
           written == Len(wire[p])
<1>1. /\ Open(p) /\ x \in AtReady /\ unit \in Units
      /\ \A q \in Roles : q # p => ep'[q] = ep[q] /\ wire'[q] = wire[q]
      /\ ep'[p].st = "Ready" /\ ep'[p].decoder = x.decoder
      /\ ep'[p].recv_seq = x.recv_seq /\ ep'[p].encoder = Advance(x.encoder)
      /\ \/ closed[Peer(p)]
         \/ Write(p, <<unit>>) /\ ep'[p].send_seq = SeqAdd(x.send_seq, 1)
  BY SendPacketOutcomes
<1>2. UNCHANGED <<rd, closed, starts>> /\ \A q \in Roles : Lead(q)' = Lead(q)
  BY DEF SendPacket, Lead
<1>3. x.st = "Ready" /\ x.encoder.key # NoKey /\ pos \in Nat /\ Lead(p) \in Nat /\ written \in Nat
  <2>1. x.st = "Ready" /\ x.encoder.key # NoKey
    BY <1>1, ReadyKeys DEF Open
  <2>2. pos \in Nat
    BY <1>1 DEF AtReady, Codecs
  <2>3. written \in Nat /\ starts \in Nat
    BY DEF TypeOK
  <2> QED
    BY <2>1, <2>2, <2>3 DEF Lead
<1>4. /\ ep'[p].encoder.key = x.encoder.key /\ ep'[p].encoder.pos = pos + 1
  <2>1. x.encoder \in Codecs
    BY <1>1 DEF AtReady
  <2> QED
    BY <1>1, <1>3, <2>1 DEF Advance, Codecs
<1>5. ASSUME Reaches(p)
      PROVE  /\ Write(p, <<unit>>)
             /\ ep'[p].send_seq = SeqAdd((3 + pos) % SeqMod, 1)
             /\ written = Lead(p) + 3 + pos
             /\ unit.form = "whole" /\ unit.msg.type = "PAYLOAD" /\ unit.key = x.encoder.key
             /\ unit.pos = pos /\ unit.seq = (3 + pos) % SeqMod
  <2>1. EncoderAt(p, x, written)
    BY <1>3, <1>5 DEF AlignInv, EndsAligned
  <2> QED
    BY <1>1, <1>3, <1>5, <2>1 DEF Reaches, EncoderAt, Build, Payload
<1> HIDE DEF unit, pos, written
<1>6. ASSUME Reaches(p)
      PROVE  /\ Len(wire'[p]) = written + 1
             /\ \A i \in 1 .. Len(wire'[p]) :
                  \/ i \in 1 .. written /\ wire'[p][i] = wire[p][i]
                  \/ i = written + 1 /\ wire'[p][i] = unit
  <2>1. <<unit>> \in Seq(Units) /\ Len(<<unit>>) = 1 /\ <<unit>>[1] = unit
    BY <1>1
  <2>2. Write(p, <<unit>>)
    BY <1>5, <1>6
  <2> DEFINE out == <<unit>>
  <2> HIDE DEF out
  <2>3. /\ Len(wire'[p]) = written + Len(out)
        /\ \A i \in 1 .. Len(wire'[p]) :
             \/ i \in 1 .. written /\ wire'[p][i] = wire[p][i]
             \/ i - written \in 1 .. Len(out) /\ wire'[p][i] = out[i - written]
    BY <2>1, <2>2, WritePlaces DEF out, written
  <2>4. Len(out) = 1 /\ out[1] = unit
    BY <2>1 DEF out
  <2> QED
    BY <1>3, <2>3, <2>4
<1>7. WritesAligned'
  <2> SUFFICES ASSUME NEW q \in Roles, Reaches(q)', NEW i \in 1 .. Len(wire'[q])
               PROVE  /\ wire'[q][i].form = "whole" /\ wire'[q][i].msg.type # "GARBAGE"
                      /\ SealedAt(q, i - Lead(q) - 3, wire[q][i])'
    BY DEF WritesAligned
  <2>1. Reaches(q)
    BY <1>2 DEF Reaches
  <2>2. CASE q # p
    BY <1>1, <1>2, <2>1, <2>2 DEF AlignInv, WritesAligned, SealedAt
  <2>3. CASE q = p /\ i \in 1 .. written /\ wire'[q][i] = wire[q][i]
    <3>1. /\ wire[q][i].form = "whole" /\ wire[q][i].msg.type # "GARBAGE"
          /\ SealedAt(q, i - Lead(q) - 3, wire[q][i])
      BY <2>1, <2>3 DEF AlignInv, WritesAligned, written
    <3> QED
      BY <1>1, <1>2, <1>4, <2>3, <3>1 DEF SealedAt
  <2>4. CASE q = p /\ i = written + 1 /\ wire'[q][i] = unit
    <3> DEFINE n == i - Lead(q) - 3
    <3>1. n = pos + 1
      BY <1>3, <1>5, <2>1, <2>4
    <3> HIDE DEF n
    <3>2. n > 0 /\ ~(n <= 0) /\ n - 1 = pos /\ n + 2 = 3 + pos
      BY <1>3, <3>1
    <3>3. /\ ep'[q].st = "Ready" /\ wire'[q][i].key = ep'[q].encoder.key
          /\ wire'[q][i].pos = n - 1 /\ wire'[q][i].seq = (n + 2) % SeqMod
      BY <1>1, <1>4, <1>5, <2>1, <2>4, <3>2
    <3>4. i - Lead(q)' - 3 = n
      BY <1>2 DEF n
    <3>5. SealedAt(q, i - Lead(q) - 3, wire[q][i])'
      BY <3>2, <3>3, <3>4 DEF SealedAt
    <3> QED
      BY <1>5, <2>1, <2>4, <3>5
  <2> QED
    BY <1>6, <2>1, <2>2, <2>3, <2>4
<1>8. HandshakesAligned'
  <2>1. HandshakeCodecs(ep'[p]) /\ HandshakeNumbers(ep'[p])
    BY <1>1 DEF HandshakeCodecs, HandshakeNumbers, Shaking
  <2> QED
    BY <1>1, <2>1 DEF AlignInv, HandshakesAligned
<1>9. EndsAligned'
  <2> SUFFICES ASSUME NEW q \in Roles, ep'[q].st = "Ready"
               PROVE  /\ Reaches(q)'  => EncoderAt(q, ep[q], Len(wire[q]))'
                      /\ ~closed'[q] => DecoderAt(ep'[q], rd'[q])
    BY DEF EndsAligned
  <2>1. CASE q # p
    BY <1>1, <1>2, <2>1 DEF AlignInv, EndsAligned, EncoderAt, Reaches
  <2>2. CASE q = p
    <3>1. ASSUME Reaches(p)
          PROVE  EncoderAt(p, ep[p], Len(wire[p]))'
      <4>1. Len(wire'[p]) = Lead(p) + 3 + (pos + 1)
        BY <1>3, <1>5, <1>6, <3>1
      <4>2. ep'[p].send_seq = ((3 + pos) + 1) % SeqMod
        <5>1. 3 + pos \in Nat
          BY <1>3
        <5> QED
          BY <1>5, <3>1, <5>1, SeqAddCounts
      <4>3. (3 + pos) + 1 = 3 + (pos + 1)
        BY <1>3
      <4> QED
        BY <1>2, <1>4, <4>1, <4>2, <4>3 DEF EncoderAt
    <3>2. ~closed[p] => DecoderAt(ep'[p], rd[p])
      BY <1>1, <1>3 DEF AlignInv, EndsAligned, DecoderAt
    <3> QED
      BY <1>2, <2>2, <3>1, <3>2 DEF Reaches
  <2> QED
    BY <2>1, <2>2
<1> QED
  BY <1>7, <1>8, <1>9 DEF AlignInv
\* What is read decodes, so the decoder moves on to the next place.
LEMMA ReadPacketAligns ==
  ASSUME TypeOK, TypeOK', SessionInvariant, PlaceInv, AlignInv, NEW p \in Roles, ReadPacket(p)
  PROVE  AlignInv'
<1> DEFINE x == ep[p]
           next == [x EXCEPT !.decoder = Advance(x.decoder), !.recv_seq = SeqAdd(x.recv_seq, 1)]
<1>1. /\ Open(p) /\ Unread(p) /\ x.st = "Ready" /\ x \in AtReady
      /\ UNCHANGED <<wire, closed, starts>>
  BY ReadyVariant DEF ReadPacket, Readable, Open
<1>2. Decodes(x.decoder, x.recv_seq, NextUnit(p))
  BY <1>1, OpenDecodes
<1>3. ep'[p] = next /\ \A q \in Roles : q # p => ep'[q] = ep[q]
  BY <1>2 DEF ReadPacket, TypeOK
<1>4. rd'[p] = rd[p] + 1 /\ \A q \in Roles : q # p => rd'[q] = rd[q]
  BY DEF ReadPacket, TypeOK
<1>5. /\ next.st = "Ready" /\ next.encoder = x.encoder /\ next.send_seq = x.send_seq
      /\ next.decoder = Advance(x.decoder) /\ next.recv_seq = SeqAdd(x.recv_seq, 1)
  BY <1>1 DEF AtReady
<1>6. \A q \in Roles : Lead(q)' = Lead(q)
  BY <1>1 DEF Lead
<1> HIDE DEF next
<1>7. WritesAligned'
  <2>1. \A q \in Roles : /\ ep[q].st = "Ready" => ep'[q].st = "Ready" /\ ep'[q].encoder = ep[q].encoder
                         /\ Reaches(q)' = Reaches(q)
    BY <1>1, <1>3, <1>5 DEF Reaches
  <2> QED
    BY <1>1, <1>6, <2>1 DEF AlignInv, WritesAligned, SealedAt
<1>8. HandshakesAligned'
  <2>1. HandshakeCodecs(next) /\ HandshakeNumbers(next)
    BY <1>5 DEF HandshakeCodecs, HandshakeNumbers, Shaking
  <2> QED
    BY <1>3, <2>1 DEF AlignInv, HandshakesAligned
<1>9. DecoderAt(next, rd[p] + 1)
  <2>1. DecoderAt(x, rd[p])
    BY <1>1 DEF AlignInv, EndsAligned, Open
  <2>2. x.decoder \in Codecs /\ x.decoder.pos \in Nat /\ x.decoder.key # NoKey
    BY <1>1, ReadyKeys DEF AtReady, Codecs
  <2>3. /\ next.decoder.aligned = x.decoder.aligned /\ next.decoder.pos = x.decoder.pos + 1
    BY <1>5, <2>2 DEF Advance, Codecs
  <2>4. next.recv_seq = ((3 + x.decoder.pos) + 1) % SeqMod
    <3>1. 3 + x.decoder.pos \in Nat
      BY <2>2
    <3> QED
      BY <1>5, <2>1, <3>1, SeqAddCounts DEF DecoderAt
  <2>5. (3 + x.decoder.pos) + 1 = 3 + (x.decoder.pos + 1)
        /\ (4 + x.decoder.pos) + 1 = 4 + (x.decoder.pos + 1)
    BY <2>2
  <2> QED
    BY <2>1, <2>3, <2>4, <2>5 DEF DecoderAt
<1>10. EndsAligned'
  <2> SUFFICES ASSUME NEW q \in Roles, ep'[q].st = "Ready"
               PROVE  /\ Reaches(q)'  => EncoderAt(q, ep[q], Len(wire[q]))'
                      /\ ~closed'[q] => DecoderAt(ep'[q], rd'[q])
    BY DEF EndsAligned
  <2>1. CASE q # p
    BY <1>1, <1>3, <1>4, <1>6, <2>1 DEF AlignInv, EndsAligned, EncoderAt, Reaches
  <2>2. CASE q = p
    <3>1. Reaches(p)' => EncoderAt(p, ep[p], Len(wire[p]))'
      BY <1>1, <1>3, <1>5, <1>6 DEF AlignInv, EndsAligned, EncoderAt, Reaches
    <3> QED
      BY <1>3, <1>4, <1>9, <2>2, <3>1
  <2> QED
    BY <2>1, <2>2
<1> QED
  BY <1>7, <1>8, <1>10 DEF AlignInv

\* An end that leaves asks for less.
LEMMA CloseAligns ==
  ASSUME TypeOK, AlignInv, NEW p \in Roles, Close(p)
  PROVE  AlignInv'
<1>1. UNCHANGED <<ep, wire, rd, starts>> /\ \A q \in Roles : closed[q] => closed'[q]
  BY DEF Close, TypeOK
<1>2. \A q \in Roles : /\ Reaches(q)' => Reaches(q)
                       /\ Lead(q)' = Lead(q)
  BY <1>1 DEF Reaches, Lead, Peer, Roles
<1>3. WritesAligned'
  BY <1>1, <1>2 DEF AlignInv, WritesAligned, SealedAt
<1>4. HandshakesAligned' /\ EndsAligned'
  BY <1>1, <1>2 DEF AlignInv, HandshakesAligned, EndsAligned, EncoderAt
<1> QED
  BY <1>3, <1>4 DEF AlignInv
-----------------------------------------------------------------------------
\* Nothing is written before the first step.
LEMMA InitAligns == Init => AlignInv
<1> SUFFICES ASSUME Init
             PROVE  AlignInv
  OBVIOUS
<1>1. \A p \in Roles : ep[p].st = "WaitingForProtoVersion" /\ wire[p] = <<>>
  BY DEF Init, Roles
<1>2. WritesAligned
  BY <1>1 DEF WritesAligned
<1>3. HandshakesAligned /\ EndsAligned
  BY <1>1 DEF HandshakesAligned, HandshakeCodecs, HandshakeNumbers, Shaking, EndsAligned
<1> QED
  BY <1>2, <1>3 DEF AlignInv

\* Every step keeps the two ends aligned.
LEMMA NextAligns ==
  ASSUME TypeOK, TypeOK', SessionInvariant, PlaceInv, AlignInv, Undisturbed, [Next]_vars
  PROVE  AlignInv'
<1>1. CASE UNCHANGED vars
  <2>1. UNCHANGED <<ep, wire, rd, closed, starts>>
    BY <1>1 DEF vars
  <2>2. WritesAligned'
    BY <2>1 DEF AlignInv, WritesAligned, SealedAt, Reaches, Lead
  <2>3. HandshakesAligned' /\ EndsAligned'
    BY <2>1 DEF AlignInv, HandshakesAligned, EndsAligned, EncoderAt, Reaches, Lead
  <2> QED
    BY <2>2, <2>3 DEF AlignInv
<1>2. CASE Start
  BY <1>2, StartAligns
<1>3. CASE ClientReceive
  BY <1>3, ClientReceiveProtoVersionAligns, ClientReceiveServerKexinitAligns,
     ClientReceiveKexReplyAligns, ReceiveNewkeysAligns, HangupAligns
  DEF ClientReceive, Roles
<1>4. CASE ServerReceive
  BY <1>4, ServerReceiveProtoVersionAligns, ServerReceiveClientKexinitAligns,
     ServerReceiveKexdhInitAligns, ReceiveNewkeysAligns, HangupAligns
  DEF ServerReceive, Roles
<1>5. ASSUME NEW p \in Roles, Ready(p) \/ ReadError(p) \/ Damage(p)
      PROVE  AlignInv'
  <2>1. ~ReadPacketError(p) /\ ~ReadError(p)
    BY DEF Undisturbed, ReadPacketError, ReadError
  <2>2. ~Damage(p)
    <3>1. ~(damages < 0)
      BY DEF TypeOK
    <3> QED
      BY <3>1 DEF Undisturbed, Damage
  <2> QED
    BY <1>5, <2>1, <2>2, SendPacketAligns, ReadPacketAligns, CloseAligns DEF Ready
<1> QED
  BY <1>1, <1>2, <1>3, <1>4, <1>5 DEF Next

\* On an undisturbed stream whatever is next to be read decodes and is what the
\* reader's state accepts, from KEXINIT through the change of keys to the last
\* packet (all handlers, receive_newkeys, send_packet, read_packet), also after
\* the sequence numbers have wrapped and when the sender has dropped its end.
THEOREM AlwaysDecodes ==
  ASSUME ~IoErrors, MaxDamage = 0
  PROVE  Spec => []UnreadDecodes
<1> DEFINE Invs == TypeOK /\ SessionInvariant /\ PlaceInv /\ LeaveInv /\ AlignInv
<1>1. Init => Invs
  BY InitType, InitSession, InitPlaces, InitLeaves, InitAligns
<1>2. Invs /\ [Next]_vars => Invs'
  <2>1. Undisturbed
    BY DEF Undisturbed
  <2> QED
    BY <2>1, NextType, NextSession, NextPlaces, NextLeaves, NextAligns
<1>3. Invs => UnreadDecodes
  BY AlignedDecodes
<1> QED
  BY <1>1, <1>2, <1>3, PTL DEF Spec
-----------------------------------------------------------------------------
(***************************************************************************)
(* FailsOnlyOnMismatch: a handshake on an undisturbed stream fails for no  *)
(* other reason than its two proposals.                                    *)
(*                                                                         *)
(* What arrives decodes (AlignInv), so what is left to show is that its    *)
(* contents are accepted.  AgreedInv says what each end knows: the two     *)
(* hash the same lines, proposals and public values, and compute the same  *)
(* Diffie-Hellman key, so the client's hash is the one the server signed.  *)
(***************************************************************************)

Agreeing == starts <= 1 /\ ~Mismatch

\* Nobody has given up: who has dropped its stream is done with the handshake.
NobodyFailed ==
  \A p \in Roles : ep[p].st # "Failed" /\ (closed[p] => ep[p].st = "Ready")

\* Identification lines are the programs' own.
LinesOwn ==
  \A p \in Roles : \A i \in 1 .. Len(wire[p]) :
    wire[p][i].msg.type = "ID" => wire[p][i].msg.text = OwnId[p]

\* p's message k after its one line: 1 is KEXINIT, 2 carries the public value.
Sent(p, k) == wire[p][k + 1].msg

\* What the states of the two ends hold is what was sent.
ClientKnows(c) ==
  /\ c.st \in {"WaitingForProtoVersion", "WaitingForServerKexInit", "WaitingForKexReply"} =>
       c.client_id = OwnId["client"]
  /\ c.st \in {"WaitingForServerKexInit", "WaitingForKexReply"} =>
       c.server_id = OwnId["server"] /\ c.client_kexinit = Sent("client", 1)
  /\ c.st = "WaitingForKexReply" =>
       /\ c.server_kexinit = Sent("server", 1)
       /\ c.public_value = Sent("client", 2).e
       /\ c.public_value = PublicValue(c.negotiated["kex"], c.secret)
ServerKnows(s) ==
  /\ s.st \in {"WaitingForProtoVersion", "WaitingForClientKexInit", "WaitingForKexDhInit"} =>
       s.server_id = OwnId["server"]
  /\ s.st \in {"WaitingForClientKexInit", "WaitingForKexDhInit"} =>
       s.client_id = OwnId["client"]
  /\ s.st = "WaitingForKexDhInit" =>
       s.client_kexinit = Sent("client", 1) /\ s.server_kexinit = Sent("server", 1)

\* The server's reply is over what both have sent.
ReplyTo(i_c, i_s, e, host_key, secret) ==
  LET kex == client_negotiate(i_c.offer, i_s.offer)["kex"]
      f   == PublicValue(kex, secret)
  IN  KexDhReply(host_key, f,
        Sign(host_key, ExchangeHash(kex, OwnId["client"], OwnId["server"], i_c, i_s,
                                    host_key, e, f, SharedKey(kex, e, secret))))
Replied ==
  Len(wire["server"]) >= 3 =>
    \E host_key \in HostKeys, secret \in Nat :
      Sent("server", 2) =
        ReplyTo(Sent("client", 1), Sent("server", 1), Sent("client", 2).e, host_key, secret)

AgreedInv ==
  NobodyFailed /\ LinesOwn /\ ClientKnows(ep["client"]) /\ ServerKnows(ep["server"]) /\ Replied

\* What is given when a step is taken.
Before ==
  /\ TypeOK /\ SessionInvariant /\ PlaceInv /\ LeaveInv /\ AlignInv
  /\ Undisturbed /\ Agreeing /\ AgreedInv

-----------------------------------------------------------------------------
\* Who fails, and why not.

\* The states of a handshake.
LEMMA HandshakeStates ==
  ASSUME TypeOK, NEW p \in Roles, Handshaking(p)
  PROVE  ep[p].st \in (IF p = "client"
           THEN {"WaitingForProtoVersion", "WaitingForServerKexInit", "WaitingForKexReply",
                 "WaitingForNewKeys"}
           ELSE {"WaitingForProtoVersion", "WaitingForClientKexInit", "WaitingForKexDhInit",
                 "WaitingForNewKeys"})
<1>1. ep[p] \in States(p) /\ ep[p].st \notin {"Ready", "Failed"}
  BY DEF TypeOK, Handshaking
<1> QED
  BY <1>1 DEF States, AtReady, Failed,
     ClientAtProtoVersion, ClientAtKexInit, ClientAtKexReply, ClientAtNewKeys,
     ServerAtProtoVersion, ServerAtKexInit, ServerAtKexDhInit, ServerAtNewKeys

\* Once something is written, start was called once.
LEMMA StartedOnceOnly ==
  ASSUME Before, NEW p \in Roles, Len(wire[p]) # 0
  PROVE  starts = 1 /\ \A q \in Roles : Lead(q) = 1
<1>1. starts \in Nat /\ starts <= 1 /\ starts # 0
  BY DEF Before, TypeOK, Agreeing, PlaceInv, StartsFirst
<1> QED
  BY <1>1 DEF Lead

\* An end that has written that much is past these states.
LEMMA WrittenTells ==
  ASSUME NEW p \in Roles, NEW st, NEW written \in Nat, NEW read, Place(p, st, written, read)
  PROVE  /\ written >= 3 /\ p = "server" =>
              st \notin {"WaitingForProtoVersion", "WaitingForClientKexInit", "WaitingForKexDhInit"}
         /\ written >= 4 /\ starts = 1 =>
              st \notin {"WaitingForProtoVersion", "WaitingForServerKexInit", "WaitingForKexReply",
                         "WaitingForClientKexInit", "WaitingForKexDhInit"}
<1>1. st = "WaitingForProtoVersion" => written <= starts \/ written = 0
  BY DEF Place
<1>2. st = "WaitingForProtoVersion" /\ p = "server" => written = 0
  BY DEF Place
<1>3. st = "WaitingForClientKexInit" => written = 1
  BY DEF Place
<1>4. st = "WaitingForKexDhInit" => written = 2
  BY DEF Place
<1>5. st = "WaitingForServerKexInit" /\ starts = 1 => written = 2
  BY DEF Place, Lead
<1>6. st = "WaitingForKexReply" /\ starts = 1 => written = 3
  BY DEF Place, Lead
<1> QED
  BY <1>1, <1>2, <1>3, <1>4, <1>5, <1>6

\* If one end has left, the other has only NEWKEYS to read, and all that it
\* wrote has been read.
LEMMA PeerLeaves ==
  ASSUME Before, NEW p \in Roles, Handshaking(p), closed[Peer(p)]
  PROVE  /\ ep[p].st = "WaitingForNewKeys" /\ Unread(p)
         /\ ~(rd[Peer(p)] < Len(wire[p]))
<1> DEFINE q == Peer(p)
<1>1. q \in Roles /\ Peer(q) = p /\ TypeOK /\ PlaceInv
  BY DEF Peer, Roles, Before
<1>2. ep[q].st = "Ready"
  BY <1>1 DEF Before, AgreedInv, NobodyFailed
<1> HIDE DEF q
<1>3. /\ Len(wire[p]) \in Nat /\ Len(wire[q]) \in Nat /\ rd[p] \in Nat /\ rd[q] \in Nat
      /\ rd[q] <= Len(wire[p])
  BY <1>1 DEF TypeOK
<1>4. /\ Place(q, "Ready", Len(wire[q]), rd[q])
      /\ Place(p, ep[p].st, Len(wire[p]), rd[p])
  BY <1>1, <1>2 DEF PlaceInv, Places
<1>5. rd[q] >= 4
  BY <1>4 DEF Place
<1>6. starts = 1 /\ Lead(p) = 1 /\ Lead(q) = 1
  BY <1>1, <1>3, <1>5, StartedOnceOnly
<1>7. Len(wire[q]) >= 4
  BY <1>4, <1>6 DEF Place
<1>8. ep[p].st = "WaitingForNewKeys"
  <2>1. Len(wire[p]) >= 4
    BY <1>3, <1>5
  <2> QED
    <3>1. ep[p].st \in {"WaitingForProtoVersion", "WaitingForServerKexInit", "WaitingForKexReply",
                        "WaitingForClientKexInit", "WaitingForKexDhInit", "WaitingForNewKeys"}
      BY <1>1, HandshakeStates
    <3> QED
      BY <1>3, <1>4, <1>6, <2>1, <3>1, WrittenTells
<1>9. Len(wire[p]) = 4 /\ rd[p] = 3
  BY <1>4, <1>6, <1>8 DEF Place
<1> QED
  BY <1>3, <1>5, <1>7, <1>8, <1>9 DEF Unread, q

\* What a handler of state st finds.
LEMMA Arrives ==
  ASSUME Before, NEW p \in Roles, NEW st, At(p, st), st \notin {"Ready", "Failed"}
  PROVE  /\ Handshaking(p) /\ ep[p].st = st /\ starts = 1 /\ Lead("client") = 1
         /\ rd[p] + 1 \in 1 .. Len(wire[Peer(p)]) /\ Peer(p) \in Roles
         /\ NextUnit(p) \in Units /\ NextUnit(p).msg \in Messages
         /\ NextUnit(p).msg = wire[Peer(p)][rd[p] + 1].msg
         /\ Place(p, st, Len(wire[p]), rd[p])
         /\ NextUnit(p).form = "whole" /\ NextUnit(p).key = NoKey
         /\ NextUnit(p).msg.type =
              CASE st = "WaitingForProtoVersion"  -> "ID"
                [] st = "WaitingForServerKexInit" -> "KEXINIT"
                [] st = "WaitingForClientKexInit" -> "KEXINIT"
                [] st = "WaitingForKexDhInit"     -> "KEXDH_INIT"
                [] st = "WaitingForKexReply"      -> "KEXDH_REPLY"
                [] st = "WaitingForNewKeys"       -> "NEWKEYS"
         /\ st # "WaitingForProtoVersion" => Received(p, NextUnit(p).msg.type)
<1>1. TypeOK /\ PlaceInv /\ AlignInv /\ SessionInvariant /\ LeaveInv
  BY DEF Before
<1>2. /\ Handshaking(p) /\ Unread(p) /\ ep[p].st = st /\ ~closed[p]
      /\ Place(p, st, Len(wire[p]), rd[p])
  BY <1>1, AtPlaces DEF At
<1>3. /\ rd[p] + 1 \in 1 .. Len(wire[Peer(p)]) /\ Peer(p) \in Roles
      /\ NextUnit(p) \in Units /\ NextUnit(p).msg \in Messages
  BY <1>1, <1>2, NextUnitType
<1>4. starts = 1 /\ Lead("client") = 1
  <2>1. Len(wire[Peer(p)]) # 0
    BY <1>3
  <2> QED
    BY <1>3, <2>1, StartedOnceOnly DEF Roles
<1>5. /\ NextUnit(p).form = "whole" /\ NextUnit(p).key = NoKey
      /\ NextUnit(p).msg.type =
           CASE st = "WaitingForProtoVersion"  -> "ID"
             [] st = "WaitingForServerKexInit" -> "KEXINIT"
             [] st = "WaitingForClientKexInit" -> "KEXINIT"
             [] st = "WaitingForKexDhInit"     -> "KEXDH_INIT"
             [] st = "WaitingForKexReply"      -> "KEXDH_REPLY"
             [] st = "WaitingForNewKeys"       -> "NEWKEYS"
  <2>1. starts < 2
    BY <1>4
  <2> QED
    BY <1>1, <1>2, <2>1, HandshakeDecodes
<1>6. st # "WaitingForProtoVersion" => Received(p, NextUnit(p).msg.type)
  <2>1. starts < 2 /\ UnreadDecodes
    BY <1>1, <1>4, AlignedDecodes
  <2> QED
    BY <1>2, <2>1 DEF UnreadDecodes, Received
<1>7. NextUnit(p).msg = wire[Peer(p)][rd[p] + 1].msg
  BY DEF NextUnit
<1> QED
  BY <1>2, <1>3, <1>4, <1>5, <1>6, <1>7

-----------------------------------------------------------------------------
\* Steps.

\* What is written stays.
Grows ==
  \A q \in Roles : \A i \in 1 .. Len(wire[q]) : i \in 1 .. Len(wire'[q]) /\ wire'[q][i] = wire[q][i]

\* A write adds to what is there.
LEMMA WriteGrows ==
  ASSUME TypeOK, NEW p \in Roles, NEW out \in Seq(Units), Write(p, out)
  PROVE  /\ Grows
         /\ \A q \in Roles : q # p => wire'[q] = wire[q]
         /\ Len(wire[p]) \in Nat /\ Len(out) \in Nat
         /\ Len(wire'[p]) = Len(wire[p]) + Len(out)
         /\ \A k \in 1 .. Len(out) : wire'[p][Len(wire[p]) + k] = out[k]
         /\ \A i \in 1 .. Len(wire'[p]) : i \notin 1 .. Len(wire[p]) =>
              \E k \in 1 .. Len(out) : wire'[p][i] = out[k]
<1> DEFINE w == wire[p]
           v == wire'[p]
<1>1. /\ \A q \in Roles : q # p => wire'[q] = wire[q]
      /\ Len(w) \in Nat /\ Len(out) \in Nat /\ Len(v) = Len(w) + Len(out)
      /\ \A i \in 1 .. Len(v) :
           \/ i \in 1 .. Len(w) /\ v[i] = w[i]
           \/ i - Len(w) \in 1 .. Len(out) /\ v[i] = out[i - Len(w)]
  BY WritePlaces
<1>2. \A q \in Roles : Len(wire[q]) \in Nat
  BY DEF TypeOK
<1> HIDE DEF w, v
<1>3. \A i \in 1 .. Len(w) : i \in 1 .. Len(v) /\ v[i] = w[i]
  BY <1>1
<1>4. \A k \in 1 .. Len(out) : v[Len(w) + k] = out[k]
  <2> TAKE k \in 1 .. Len(out)
  <2> DEFINE i == Len(w) + k
  <2>1. i \in 1 .. Len(v) /\ i \notin 1 .. Len(w) /\ i - Len(w) = k
    BY <1>1
  <2> HIDE DEF i
  <2> QED
    BY <1>1, <2>1 DEF i
<1>5. Grows
  BY <1>1, <1>3 DEF Grows, w, v
<1> QED
  BY <1>1, <1>4, <1>5 DEF w, v

\* So do messages that were sent.
LEMMA SentStays ==
  ASSUME TypeOK, Grows, NEW p \in Roles, NEW k \in Nat, k + 1 <= Len(wire[p])
  PROVE  Sent(p, k)' = Sent(p, k)
<1>1. k + 1 \in 1 .. Len(wire[p])
  BY DEF TypeOK
<1> QED
  BY <1>1 DEF Grows, Sent

\* A step of p after which what p knows is what was sent.
LEMMA AgreedStep ==
  ASSUME Before, TypeOK', NEW p \in Roles, Grows,
         \A q \in Roles : q # p => ep'[q] = ep[q] /\ wire'[q] = wire[q] /\ closed'[q] = closed[q],
         ep'[p].st # "Failed", closed'[p] => ep'[p].st = "Ready",
         \A i \in 1 .. Len(wire'[p]) :
           i \notin 1 .. Len(wire[p]) /\ wire'[p][i].msg.type = "ID"
             => wire'[p][i].msg.text = OwnId[p],
         p = "client" => ClientKnows(ep["client"])',
         p = "server" => ServerKnows(ep["server"])',
         Len(wire["server"]) < 3 => Replied'
  PROVE  AgreedInv'
<1> DEFINE c == ep["client"]
           s == ep["server"]
<1>1. /\ TypeOK /\ PlaceInv
      /\ NobodyFailed /\ LinesOwn /\ ClientKnows(c) /\ ServerKnows(s) /\ Replied
  BY DEF Before, AgreedInv
<1>2. /\ "client" \in Roles /\ "server" \in Roles
      /\ Peer("client") = "server" /\ Peer("server") = "client"
  BY DEF Roles, Peer
<1>3. NobodyFailed'
  BY <1>1 DEF NobodyFailed
<1>4. LinesOwn'
  <2> SUFFICES ASSUME NEW q \in Roles, NEW i \in 1 .. Len(wire'[q]), wire'[q][i].msg.type = "ID"
               PROVE  wire'[q][i].msg.text = OwnId[q]
    BY DEF LinesOwn
  <2>1. CASE q # p
    BY <1>1, <2>1 DEF LinesOwn
  <2>2. CASE q = p /\ i \in 1 .. Len(wire[p])
    BY <1>1, <2>2 DEF LinesOwn, Grows
  <2>3. CASE q = p /\ i \notin 1 .. Len(wire[p])
    BY <2>3
  <2> QED
    BY <2>1, <2>2, <2>3
<1>5. /\ Len(wire["client"]) \in Nat /\ Len(wire["server"]) \in Nat
      /\ rd["client"] \in Nat /\ rd["server"] \in Nat
      /\ rd["client"] <= Len(wire["server"]) /\ rd["server"] <= Len(wire["client"])
  <2>1. \A q \in Roles : Len(wire[q]) \in Nat /\ rd[q] \in Nat /\ rd[q] <= Len(wire[Peer(q)])
    BY <1>1 DEF TypeOK
  <2> QED
    BY <1>2, <2>1
<1>6. /\ Place("client", c.st, Len(wire["client"]), rd["client"])
      /\ Place("server", s.st, Len(wire["server"]), rd["server"])
  BY <1>1, <1>2 DEF PlaceInv, Places
<1>7. ASSUME p = "server"
      PROVE  ClientKnows(ep["client"])'
  <2>1. ep'["client"] = c
    BY <1>2, <1>7
  <2>2. CASE c.st \in {"WaitingForServerKexInit", "WaitingForKexReply"}
    <3>1. rd["client"] >= 1 /\ Len(wire["server"]) # 0
      BY <1>5, <1>6, <2>2 DEF Place
    <3>2. Lead("client") = 1
      BY <1>2, <3>1, StartedOnceOnly
    <3>3. Len(wire["client"]) >= 2
      BY <1>6, <2>2, <3>2 DEF Place
    <3>4. Sent("client", 1)' = Sent("client", 1)
      BY <1>1, <1>2, <1>5, <3>3, SentStays
    <3>5. c.st = "WaitingForKexReply" =>
            /\ Sent("client", 2)' = Sent("client", 2)
            /\ Sent("server", 1)' = Sent("server", 1)
      <4> HAVE c.st = "WaitingForKexReply"
      <4>1. Len(wire["client"]) >= 3 /\ Len(wire["server"]) >= 2
        BY <1>5, <1>6, <3>2 DEF Place
      <4> QED
        BY <1>1, <1>2, <1>5, <4>1, SentStays
    <3> HIDE DEF c
    <3> QED
      BY <1>1, <2>1, <2>2, <3>4, <3>5 DEF ClientKnows
  <2>3. CASE c.st \notin {"WaitingForServerKexInit", "WaitingForKexReply"}
    <3> HIDE DEF c
    <3> QED
      BY <1>1, <2>1, <2>3 DEF ClientKnows
  <2> QED
    BY <2>2, <2>3
<1>8. ASSUME p = "client"
      PROVE  ServerKnows(ep["server"])'
  <2>1. ep'["server"] = s
    BY <1>2, <1>8
  <2>2. s.st = "WaitingForKexDhInit" =>
          Sent("client", 1)' = Sent("client", 1) /\ Sent("server", 1)' = Sent("server", 1)
    <3> HAVE s.st = "WaitingForKexDhInit"
    <3>1. Len(wire["client"]) >= 2 /\ Len(wire["server"]) >= 2
      BY <1>5, <1>6 DEF Place
    <3> QED
      BY <1>1, <1>2, <1>5, <3>1, SentStays
  <2> HIDE DEF s
  <2> QED
    BY <1>1, <2>1, <2>2 DEF ServerKnows
<1>9. ASSUME Len(wire["server"]) >= 3
      PROVE  Replied'
  <2>1. s.st \in {"WaitingForNewKeys", "Ready"}
    <3>1. s \in States("server") /\ s.st # "Failed"
      BY <1>1, <1>2 DEF TypeOK, NobodyFailed
    <3>2. s.st \in {"WaitingForProtoVersion", "WaitingForClientKexInit", "WaitingForKexDhInit",
                    "WaitingForNewKeys", "Ready"}
      BY <3>1 DEF States, AtReady, Failed,
         ServerAtProtoVersion, ServerAtKexInit, ServerAtKexDhInit, ServerAtNewKeys
    <3> HIDE DEF s
    <3> QED
      BY <1>2, <1>5, <1>6, <1>9, <3>2, WrittenTells
  <2>2. Len(wire["client"]) >= 3
    BY <1>5, <1>6, <2>1 DEF Place
  <2>3. /\ Sent("client", 1)' = Sent("client", 1) /\ Sent("client", 2)' = Sent("client", 2)
        /\ Sent("server", 1)' = Sent("server", 1) /\ Sent("server", 2)' = Sent("server", 2)
    BY <1>1, <1>2, <1>5, <1>9, <2>2, SentStays
  <2> QED
    BY <1>1, <1>9, <2>3 DEF Replied, ReplyTo
<1>10. ClientKnows(ep["client"])' /\ ServerKnows(ep["server"])'
  BY <1>7, <1>8 DEF Roles
<1>11. Replied'
  BY <1>5, <1>9
<1> QED
  BY <1>3, <1>4, <1>10, <1>11 DEF AgreedInv

\* A handler that would return Ok does: nobody has left who would read it.
LEMMA Proceeds ==
  ASSUME Before, NEW p \in Roles, Handshaking(p), NEW out \in Seq(Units),
         out = <<>> \/ ep[p].st # "WaitingForNewKeys", NEW next, Proceed(p, next, out)
  PROVE  /\ Write(p, out) /\ UNCHANGED closed /\ ep'[p] = next
         /\ \A q \in Roles : q # p => ep'[q] = ep[q] /\ closed'[q] = closed[q]
         /\ ~closed'[p]
<1>1. ~(out # <<>> /\ WriteMayFail(p))
  BY PeerLeaves DEF WriteMayFail, Before, Undisturbed
<1>2. Write(p, out) /\ ep' = [ep EXCEPT ![p] = next] /\ UNCHANGED closed
  BY <1>1 DEF Proceed
<1> QED
  BY <1>2 DEF Before, TypeOK, Handshaking

-----------------------------------------------------------------------------
\* Handler by handler.

\* One unit, written at the end.
LEMMA WriteOne ==
  ASSUME TypeOK, NEW p \in Roles, NEW unit \in Units, Write(p, <<unit>>)
  PROVE  /\ <<unit>> \in Seq(Units) /\ Grows
         /\ \A q \in Roles : q # p => wire'[q] = wire[q]
         /\ Len(wire[p]) \in Nat /\ Len(wire'[p]) = Len(wire[p]) + 1
         /\ wire'[p][Len(wire[p]) + 1] = unit
         /\ \A i \in 1 .. Len(wire'[p]) : i \notin 1 .. Len(wire[p]) => wire'[p][i] = unit
<1> DEFINE out == <<unit>>
<1>1. out \in Seq(Units) /\ Len(out) = 1 /\ out[1] = unit /\ 1 .. Len(out) = {1}
  OBVIOUS
<1>2. Write(p, out)
  OBVIOUS
<1> HIDE DEF out
<1>3. /\ Grows /\ \A q \in Roles : q # p => wire'[q] = wire[q]
      /\ Len(wire[p]) \in Nat /\ Len(wire'[p]) = Len(wire[p]) + Len(out)
      /\ \A k \in 1 .. Len(out) : wire'[p][Len(wire[p]) + k] = out[k]
      /\ \A i \in 1 .. Len(wire'[p]) : i \notin 1 .. Len(wire[p]) =>
           \E k \in 1 .. Len(out) : wire'[p][i] = out[k]
  BY <1>1, <1>2, WriteGrows
<1>4. wire'[p][Len(wire[p]) + 1] = unit
  BY <1>1, <1>3
<1>5. \A i \in 1 .. Len(wire'[p]) : i \notin 1 .. Len(wire[p]) => wire'[p][i] = unit
  BY <1>1, <1>3
<1> QED
  BY <1>1, <1>3, <1>4, <1>5 DEF out

\* The first call of start finds a server that listens.
LEMMA StartAgrees ==
  ASSUME Before, TypeOK', Agreeing', Start
  PROVE  AgreedInv'
<1>1. /\ TypeOK /\ PlaceInv /\ NobodyFailed /\ ClientKnows(ep["client"])
      /\ "client" \in Roles /\ "server" \in Roles /\ Peer("client") = "server"
  BY DEF Before, AgreedInv, Roles, Peer
<1>2. /\ ep["client"].st = "WaitingForProtoVersion" /\ ~closed["client"]
      /\ starts' = starts + 1 /\ UNCHANGED ep
  BY DEF Start
<1>3. starts = 0 /\ Len(wire["server"]) = 0
  <2>1. starts \in Nat /\ starts + 1 <= 1
    BY <1>1, <1>2 DEF TypeOK, Agreeing
  <2>2. starts = 0
    BY <2>1
  <2> QED
    BY <1>1, <2>2 DEF PlaceInv, StartsFirst
<1>4. ~closed["server"]
  <2>1. ep["server"].st # "Ready"
    BY <1>1, <1>3 DEF PlaceInv, StartedOnce
  <2> QED
    BY <1>1, <2>1 DEF NobodyFailed
<1>5. Write("client", <<Line("client")>>) /\ UNCHANGED closed
  BY <1>1, <1>4 DEF Start, StartOk, StartErr, WriteMayFail, Before, Undisturbed
<1>6. Line("client") \in Units /\ Line("client").msg = IdLine(OwnId["client"])
  <2>1. IdLine(OwnId["client"]) \in Messages
    BY <1>1, TransportAssumption DEF IdLine, Messages
  <2> QED
    BY <2>1, CodecTypes, BuildType DEF Line, Naked, Build
<1> DEFINE unit == Line("client")
<1> HIDE DEF unit
<1>7. /\ Grows /\ \A q \in Roles : q # "client" => wire'[q] = wire[q]
      /\ \A i \in 1 .. Len(wire'["client"]) : i \notin 1 .. Len(wire["client"]) =>
           wire'["client"][i] = unit
  <2>1. unit \in Units /\ Write("client", <<unit>>)
    BY <1>5, <1>6 DEF unit
  <2> QED
    BY <1>1, <2>1, WriteOne
<1>8. unit.msg.text = OwnId["client"]
  BY <1>6 DEF unit, IdLine
<1>9. ClientKnows(ep["client"])'
  BY <1>1, <1>2 DEF ClientKnows
<1>10. Replied'
  <2>1. Len(wire'["server"]) = 0
    BY <1>1, <1>3, <1>7
  <2> QED
    BY <2>1 DEF Replied
<1> QED
  BY <1>1, <1>2, <1>5, <1>7, <1>8, <1>9, <1>10, AgreedStep

\* The server's line is one the client accepts.
LEMMA ClientReceiveProtoVersionAgrees ==
  ASSUME Before, TypeOK', ClientReceiveProtoVersion
  PROVE  AgreedInv'
<1> DEFINE c == ep["client"]
           line == NextUnit("client").msg
<1>1. /\ TypeOK /\ PlaceInv /\ LinesOwn /\ ClientKnows(c)
      /\ "client" \in Roles /\ "server" \in Roles /\ Peer("client") = "server"
      /\ At("client", "WaitingForProtoVersion")
  BY DEF Before, AgreedInv, Roles, Peer, ClientReceiveProtoVersion
<1>2. /\ Handshaking("client") /\ c.st = "WaitingForProtoVersion" /\ starts = 1
      /\ rd["client"] + 1 \in 1 .. Len(wire["server"])
      /\ line = wire["server"][rd["client"] + 1].msg
      /\ NextUnit("client").form = "whole" /\ NextUnit("client").key = NoKey
      /\ line.type = "ID"
  BY <1>1, Arrives
<1>3. line.text = OwnId["server"] /\ OwnId["server"] # BadId
  BY <1>1, <1>2, TransportAssumption DEF LinesOwn
<1>4. ReceivedLine("client")
  BY <1>2, <1>3 DEF ReceivedLine
<1>5. PICK cookie \in Cookies, offer \in OwnOffers["client"] :
        Proceed("client", ClientAfterProtoVersion(c, line, KexInit(cookie, offer)),
                <<Build(Naked, 0, KexInit(cookie, offer))>>)
  BY <1>4 DEF ClientReceiveProtoVersion
<1> DEFINE kexinit == KexInit(cookie, offer)
           next == ClientAfterProtoVersion(c, line, kexinit)
           unit == Build(Naked, 0, kexinit)
<1>6. unit \in Units /\ unit.msg = kexinit /\ kexinit.type = "KEXINIT"
  <2>1. kexinit \in Messages
    BY <1>1, KexInitType
  <2> HIDE DEF kexinit
  <2>2. unit \in Units /\ unit.msg = kexinit
    BY <2>1, CodecTypes, BuildType DEF Build
  <2> QED
    BY <2>2 DEF kexinit, KexInit
<1>7. /\ next.st = "WaitingForServerKexInit" /\ next.client_id = c.client_id
      /\ next.server_id = line.text /\ next.client_kexinit = kexinit
  BY DEF ClientAfterProtoVersion
<1>8. Proceed("client", next, <<unit>>)
  BY <1>5
<1> HIDE DEF kexinit, next, unit
<1>9. /\ Write("client", <<unit>>) /\ ep'["client"] = next /\ ~closed'["client"]
      /\ \A q \in Roles : q # "client" => ep'[q] = ep[q] /\ closed'[q] = closed[q]
  <2>1. <<unit>> \in Seq(Units)
    BY <1>6
  <2> QED
    BY <1>1, <1>2, <1>8, <2>1, Proceeds
<1>10. /\ Grows /\ \A q \in Roles : q # "client" => wire'[q] = wire[q]
       /\ wire'["client"][Len(wire["client"]) + 1] = unit
       /\ \A i \in 1 .. Len(wire'["client"]) : i \notin 1 .. Len(wire["client"]) =>
            wire'["client"][i] = unit
  BY <1>1, <1>6, <1>9, WriteOne
<1>11. Len(wire["client"]) = 1
  BY <1>1, <1>2 DEF PlaceInv, LinesWritten, Handshaking
<1>12. ClientKnows(ep["client"])'
  <2>1. Sent("client", 1)' = kexinit
    BY <1>6, <1>10, <1>11 DEF Sent
  <2>2. c.client_id = OwnId["client"]
    BY <1>1, <1>2 DEF ClientKnows
  <2> HIDE DEF c, line
  <2> QED
    BY <1>3, <1>7, <1>9, <2>1, <2>2 DEF ClientKnows
<1>13. Len(wire["server"]) < 3 => Replied'
  BY <1>1, <1>10 DEF Replied
<1> QED
  BY <1>1, <1>6, <1>7, <1>9, <1>10, <1>12, <1>13, AgreedStep

\* The proposals have an outcome, or the handshake may fail.
LEMMA ClientReceiveServerKexinitAgrees ==
  ASSUME Before, TypeOK', ClientReceiveServerKexinit
  PROVE  AgreedInv'
<1> DEFINE c == ep["client"]
           msg == NextUnit("client").msg
           neg == client_negotiate(c.client_kexinit.offer, msg.offer)
<1>1. /\ TypeOK /\ PlaceInv /\ AlignInv /\ ClientKnows(c) /\ ~Mismatch
      /\ "client" \in Roles /\ "server" \in Roles /\ Peer("client") = "server"
      /\ At("client", "WaitingForServerKexInit")
  BY DEF Before, Agreeing, AgreedInv, Roles, Peer, ClientReceiveServerKexinit
<1>2. /\ Handshaking("client") /\ c.st = "WaitingForServerKexInit" /\ starts = 1
      /\ Lead("client") = 1
      /\ rd["client"] + 1 \in 1 .. Len(wire["server"])
      /\ msg = wire["server"][rd["client"] + 1].msg
      /\ Place("client", "WaitingForServerKexInit", Len(wire["client"]), rd["client"])
      /\ msg.type = "KEXINIT" /\ Received("client", "KEXINIT")
  BY <1>1, Arrives
<1>3. rd["client"] = 1 /\ Len(wire["client"]) = 2
  <2>1. /\ Place("client", "WaitingForServerKexInit", Len(wire["client"]), rd["client"])
        /\ Lead("client") = 1
    BY <1>2
  <2>2. rd["client"] = 1 /\ Len(wire["client"]) = Lead("client") + 1
    BY <2>1 DEF Place
  <2> QED
    BY <2>1, <2>2
<1>4. c \in ClientAtKexInit
  BY <1>1, <1>2, ClientVariant
<1>5. c.client_kexinit = wire["client"][2].msg /\ c.client_kexinit.type = "KEXINIT"
  BY <1>1, <1>2, <1>4 DEF ClientKnows, Sent, ClientAtKexInit, KexInits
<1>6. msg = wire["server"][2].msg /\ 2 \in 1 .. Len(wire["server"])
  BY <1>2, <1>3
<1>7. Negotiable(c.client_kexinit.offer, msg.offer)
  <2>1. 2 \in 1 .. Len(wire["client"])
    BY <1>3
  <2>2. c.client_kexinit.offer \in Proposals("client")
    BY <1>5, <2>1 DEF Proposals
  <2>3. msg.offer \in Proposals("server")
    BY <1>2, <1>6 DEF Proposals
  <2> QED
    BY <1>1, <2>2, <2>3 DEF Mismatch
<1>8. PICK secret \in DhSecrets(neg["kex"]) :
        Proceed("client", ClientAfterKexInit(c, msg, neg, secret),
                <<Build(c.encoder, c.send_seq, KexDhInit(PublicValue(neg["kex"], secret)))>>)
  BY <1>2, <1>7 DEF ClientReceiveServerKexinit
<1> DEFINE init == KexDhInit(PublicValue(neg["kex"], secret))
           next == ClientAfterKexInit(c, msg, neg, secret)
           unit == Build(c.encoder, c.send_seq, init)
<1>9. init \in Messages /\ init.type = "KEXDH_INIT" /\ init.e = PublicValue(neg["kex"], secret)
  <2>1. neg["kex"] \in KexNames
    BY <1>7, NegotiatedType, NegotiatedKex
  <2>2. PublicValue(neg["kex"], secret) \in Nat
    BY <1>8, <2>1, SecretType, DhType
  <2> HIDE DEF neg
  <2> QED
    BY <2>2 DEF KexDhInit, Messages
<1>10. unit \in Units /\ unit.msg = init
  <2>1. c.encoder \in Codecs /\ c.send_seq \in Nat
    BY <1>4 DEF ClientAtKexInit
  <2> HIDE DEF init, c
  <2> QED
    BY <1>9, <2>1, BuildType DEF Build
<1>11. /\ next.st = "WaitingForKexReply" /\ next.client_id = c.client_id
       /\ next.server_id = c.server_id /\ next.client_kexinit = c.client_kexinit
       /\ next.server_kexinit = msg /\ next.negotiated = neg /\ next.secret = secret
       /\ next.public_value = PublicValue(neg["kex"], secret)
  BY DEF ClientAfterKexInit
<1>12. Proceed("client", next, <<unit>>)
  BY <1>8
<1> HIDE DEF init, next, unit, neg
<1>13. /\ Write("client", <<unit>>) /\ ep'["client"] = next /\ ~closed'["client"]
       /\ \A q \in Roles : q # "client" => ep'[q] = ep[q] /\ closed'[q] = closed[q]
  <2>1. <<unit>> \in Seq(Units)
    BY <1>10
  <2>2. <<unit>> = <<>> \/ ep["client"].st # "WaitingForNewKeys"
    BY <1>2
  <2>3. Before /\ "client" \in Roles /\ Handshaking("client")
    BY <1>1, <1>2
  <2> QED
    BY ONLY <1>12, <2>1, <2>2, <2>3, Proceeds
<1>14. /\ Grows /\ \A q \in Roles : q # "client" => wire'[q] = wire[q]
       /\ wire'["client"][Len(wire["client"]) + 1] = unit
       /\ \A i \in 1 .. Len(wire'["client"]) : i \notin 1 .. Len(wire["client"]) =>
            wire'["client"][i] = unit
  BY <1>1, <1>10, <1>13, WriteOne
<1>15. ClientKnows(ep["client"])'
  <2>1. wire'["client"][3].msg = init
    BY <1>3, <1>10, <1>14
  <2>2. Sent("client", 2)' = init
    BY <2>1 DEF Sent
  <2>3. Sent("server", 1)' = msg
    BY <1>1, <1>6, <1>14 DEF Sent
  <2>4. 1 + 1 <= Len(wire["client"])
    BY <1>3
  <2>5. Sent("client", 1)' = Sent("client", 1)
    BY <1>1, <1>14, <2>4, SentStays
  <2> HIDE DEF c, msg
  <2> QED
    BY <1>1, <1>2, <1>9, <1>11, <1>13, <2>2, <2>3, <2>5 DEF ClientKnows
<1>16. Len(wire["server"]) < 3 => Replied'
  BY <1>1, <1>14 DEF Replied
<1> QED
  BY <1>1, <1>9, <1>10, <1>11, <1>13, <1>14, <1>15, <1>16, AgreedStep

\* The reply is signed over the client's own hash: the two ends have computed
\* the same Diffie-Hellman key.
LEMMA ReplyAccepted ==
  ASSUME NEW c \in ClientAtKexReply, NEW i_c \in KexInits, NEW i_s \in KexInits,
         NEW host_key \in HostKeys, NEW secret \in Nat,
         c.client_id = OwnId["client"], c.server_id = OwnId["server"],
         c.client_kexinit = i_c, c.server_kexinit = i_s,
         c.negotiated = client_negotiate(i_c.offer, i_s.offer),
         c.public_value = PublicValue(c.negotiated["kex"], c.secret)
  PROVE  ClientAccepts(c, ReplyTo(i_c, i_s, c.public_value, host_key, secret))
<1> DEFINE kex == c.negotiated["kex"]
           f   == PublicValue(kex, secret)
           k   == SharedKey(kex, c.public_value, secret)
           hash == ExchangeHash(kex, OwnId["client"], OwnId["server"], i_c, i_s,
                                host_key, c.public_value, f, k)
           reply == ReplyTo(i_c, i_s, c.public_value, host_key, secret)
<1>1. kex \in KexNames /\ c.secret \in Nat
  BY NegotiatedKex DEF ClientAtKexReply
<1>2. SharedKey(kex, f, c.secret) = k
  BY <1>1, DhAgrees
<1>3. reply = KexDhReply(host_key, f, Sign(host_key, hash))
  BY DEF ReplyTo
<1> HIDE DEF reply, hash, k, f
<1>4. reply.k_s = host_key /\ reply.f = f /\ reply.signature = Sign(host_key, hash)
  BY <1>3 DEF KexDhReply
<1>5. ClientSharedKey(c, reply) = k
  BY <1>2, <1>4 DEF ClientSharedKey
<1>6. ClientHash(c, reply) = hash
  BY <1>4, <1>5 DEF ClientHash, hash
<1>7. ClientAccepts(c, reply)
  BY <1>4, <1>6 DEF ClientAccepts, Verifies
<1> QED
  BY <1>7 DEF reply

\* The client finds the server's signature good.
LEMMA ClientReceiveKexReplyAgrees ==
  ASSUME Before, TypeOK', ClientReceiveKexReply
  PROVE  AgreedInv'
<1> DEFINE c == ep["client"]
           msg == NextUnit("client").msg
           next == ClientAfterKexReply(c, msg)
           unit == Build(c.encoder, c.send_seq, NewKeys)
<1>1. /\ TypeOK /\ PlaceInv /\ SessionInvariant /\ ClientKnows(c) /\ Replied
      /\ "client" \in Roles /\ "server" \in Roles /\ Peer("client") = "server"
      /\ At("client", "WaitingForKexReply")
  BY DEF Before, AgreedInv, Roles, Peer, ClientReceiveKexReply
<1>2. /\ Handshaking("client") /\ c.st = "WaitingForKexReply" /\ starts = 1
      /\ rd["client"] + 1 \in 1 .. Len(wire["server"])
      /\ msg = wire["server"][rd["client"] + 1].msg
      /\ Place("client", "WaitingForKexReply", Len(wire["client"]), rd["client"])
      /\ msg.type = "KEXDH_REPLY" /\ Received("client", "KEXDH_REPLY")
  BY <1>1, Arrives
<1>3. rd["client"] = 2
  <2>1. Place("client", "WaitingForKexReply", Len(wire["client"]), rd["client"])
    BY <1>2
  <2> QED
    BY <2>1 DEF Place
<1>4. msg = Sent("server", 2) /\ Len(wire["server"]) >= 3
  BY <1>2, <1>3 DEF Sent
<1>5. PICK host_key \in HostKeys, secret \in Nat :
        msg = ReplyTo(Sent("client", 1), Sent("server", 1), Sent("client", 2).e, host_key, secret)
  BY <1>1, <1>4 DEF Replied
<1>6. c \in ClientAtKexReply
  BY <1>1, <1>2, ClientVariant
<1>7. ClientAccepts(c, msg)
  <2>1. /\ c.client_id = OwnId["client"] /\ c.server_id = OwnId["server"]
        /\ c.client_kexinit = Sent("client", 1) /\ c.server_kexinit = Sent("server", 1)
        /\ c.public_value = Sent("client", 2).e
        /\ c.public_value = PublicValue(c.negotiated["kex"], c.secret)
    BY <1>1, <1>2 DEF ClientKnows
  <2>2. c.negotiated = client_negotiate(Sent("client", 1).offer, Sent("server", 1).offer)
    BY <1>1, <1>2, <2>1 DEF SessionInvariant, SelectionFromProposals
  <2>3. Sent("client", 1) \in KexInits /\ Sent("server", 1) \in KexInits
    BY <1>6, <2>1 DEF ClientAtKexReply
  <2> HIDE DEF c, msg
  <2> QED
    BY <1>5, <1>6, <2>1, <2>2, <2>3, ReplyAccepted
<1>8. Proceed("client", next, <<unit>>)
  BY <1>2, <1>7 DEF ClientReceiveKexReply
<1>9. unit \in Units /\ unit.msg.type = "NEWKEYS"
  <2>1. c.encoder \in Codecs /\ c.send_seq \in Nat
    BY <1>6 DEF ClientAtKexReply
  <2>2. NewKeys \in Messages /\ NewKeys.type = "NEWKEYS"
    BY DEF NewKeys, Messages
  <2> HIDE DEF c
  <2> QED
    BY <2>1, <2>2, BuildType DEF Build
<1>10. next.st = "WaitingForNewKeys"
  BY DEF ClientAfterKexReply
<1> HIDE DEF next, unit
<1>11. /\ Write("client", <<unit>>) /\ ep'["client"] = next /\ ~closed'["client"]
       /\ \A q \in Roles : q # "client" => ep'[q] = ep[q] /\ closed'[q] = closed[q]
  <2>1. <<unit>> \in Seq(Units)
    BY <1>9
  <2>2. <<unit>> = <<>> \/ ep["client"].st # "WaitingForNewKeys"
    BY <1>2
  <2>3. Before /\ "client" \in Roles /\ Handshaking("client")
    BY <1>1, <1>2
  <2> QED
    BY ONLY <1>8, <2>1, <2>2, <2>3, Proceeds
<1>12. /\ Grows /\ \A q \in Roles : q # "client" => wire'[q] = wire[q]
       /\ \A i \in 1 .. Len(wire'["client"]) : i \notin 1 .. Len(wire["client"]) =>
            wire'["client"][i] = unit
  BY <1>1, <1>9, <1>11, WriteOne
<1>13. ClientKnows(ep["client"])'
  BY <1>10, <1>11 DEF ClientKnows
<1>14. Len(wire["server"]) < 3 => Replied'
  BY <1>4
<1> QED
  BY <1>1, <1>9, <1>10, <1>11, <1>12, <1>13, <1>14, AgreedStep

\* The client's line is one the server accepts.
LEMMA ServerReceiveProtoVersionAgrees ==
  ASSUME Before, TypeOK', ServerReceiveProtoVersion
  PROVE  AgreedInv'
<1> DEFINE s == ep["server"]
           line == NextUnit("server").msg
           next == ServerAfterProtoVersion(s, line)
           unit == Line("server")
<1>1. /\ TypeOK /\ PlaceInv /\ LinesOwn /\ ServerKnows(s)
      /\ "client" \in Roles /\ "server" \in Roles /\ Peer("server") = "client"
      /\ At("server", "WaitingForProtoVersion")
  BY DEF Before, AgreedInv, Roles, Peer, ServerReceiveProtoVersion
<1>2. /\ Handshaking("server") /\ s.st = "WaitingForProtoVersion"
      /\ rd["server"] + 1 \in 1 .. Len(wire["client"])
      /\ line = wire["client"][rd["server"] + 1].msg
      /\ Place("server", "WaitingForProtoVersion", Len(wire["server"]), rd["server"])
      /\ NextUnit("server").form = "whole" /\ NextUnit("server").key = NoKey
      /\ line.type = "ID"
  BY <1>1, Arrives
<1>3. line.text = OwnId["client"] /\ OwnId["client"] # BadId
  BY <1>1, <1>2, TransportAssumption DEF LinesOwn
<1>4. ReceivedLine("server")
  BY <1>2, <1>3 DEF ReceivedLine
<1>5. Proceed("server", next, <<unit>>)
  BY <1>4 DEF ServerReceiveProtoVersion
<1>6. unit \in Units /\ unit.msg.text = OwnId["server"]
  <2>1. IdLine(OwnId["server"]) \in Messages /\ IdLine(OwnId["server"]).text = OwnId["server"]
    BY <1>1, TransportAssumption DEF IdLine, Messages
  <2> QED
    BY <2>1, CodecTypes, BuildType DEF Line, Naked, Build
<1>7. /\ next.st = "WaitingForClientKexInit" /\ next.client_id = line.text
      /\ next.server_id = s.server_id
  BY DEF ServerAfterProtoVersion
<1> HIDE DEF next, unit
<1>8. /\ Write("server", <<unit>>) /\ ep'["server"] = next /\ ~closed'["server"]
      /\ \A q \in Roles : q # "server" => ep'[q] = ep[q] /\ closed'[q] = closed[q]
  <2>1. <<unit>> \in Seq(Units)
    BY <1>6
  <2>2. <<unit>> = <<>> \/ ep["server"].st # "WaitingForNewKeys"
    BY <1>2
  <2>3. Before /\ "server" \in Roles /\ Handshaking("server")
    BY <1>1, <1>2
  <2> QED
    BY ONLY <1>5, <2>1, <2>2, <2>3, Proceeds
<1>9. /\ Grows /\ \A q \in Roles : q # "server" => wire'[q] = wire[q]
      /\ Len(wire["server"]) \in Nat /\ Len(wire'["server"]) = Len(wire["server"]) + 1
      /\ \A i \in 1 .. Len(wire'["server"]) : i \notin 1 .. Len(wire["server"]) =>
           wire'["server"][i] = unit
  BY <1>1, <1>6, <1>8, WriteOne
<1>10. ServerKnows(ep["server"])'
  <2>1. s.server_id = OwnId["server"]
    BY <1>1, <1>2 DEF ServerKnows
  <2> HIDE DEF s, line
  <2> QED
    BY <1>3, <1>7, <1>8, <2>1 DEF ServerKnows
<1>11. Replied'
  <2>1. Len(wire["server"]) = 0
    <3>1. Place("server", "WaitingForProtoVersion", Len(wire["server"]), rd["server"])
      BY <1>2
    <3> QED
      BY <3>1 DEF Place
  <2>2. ~(Len(wire'["server"]) >= 3)
    BY <1>9, <2>1
  <2> QED
    BY <2>2 DEF Replied
<1> QED
  BY <1>1, <1>6, <1>7, <1>8, <1>9, <1>10, <1>11, AgreedStep

\* The server answers with its own proposal, and finds an outcome.
LEMMA ServerReceiveClientKexinitAgrees ==
  ASSUME Before, TypeOK', Agreeing', ServerReceiveClientKexinit
  PROVE  AgreedInv'
<1> DEFINE s == ep["server"]
           msg == NextUnit("server").msg
<1>1. /\ TypeOK /\ PlaceInv /\ ServerKnows(s)
      /\ "client" \in Roles /\ "server" \in Roles /\ Peer("server") = "client"
      /\ At("server", "WaitingForClientKexInit")
  BY DEF Before, AgreedInv, Roles, Peer, ServerReceiveClientKexinit
<1>2. /\ Handshaking("server") /\ s.st = "WaitingForClientKexInit"
      /\ rd["server"] + 1 \in 1 .. Len(wire["client"])
      /\ msg = wire["client"][rd["server"] + 1].msg
      /\ Place("server", "WaitingForClientKexInit", Len(wire["server"]), rd["server"])
      /\ msg.type = "KEXINIT" /\ Received("server", "KEXINIT")
  BY <1>1, Arrives
<1>3. rd["server"] = 1 /\ Len(wire["server"]) = 1
  <2>1. Place("server", "WaitingForClientKexInit", Len(wire["server"]), rd["server"])
    BY <1>2
  <2> QED
    BY <2>1 DEF Place
<1>4. s \in ServerAtKexInit
  BY <1>1, <1>2, ServerVariant
<1>5. msg = wire["client"][2].msg /\ 2 \in 1 .. Len(wire["client"])
  BY <1>2, <1>3
<1>6. PICK cookie \in Cookies, offer \in OwnOffers["server"] :
        LET kexinit == KexInit(cookie, offer)
            out == <<Build(s.encoder, s.send_seq, kexinit)>>
        IN  \/ ~Negotiable(msg.offer, offer) /\ Refuse("server", out)
            \/ /\ Negotiable(msg.offer, offer)
               /\ Proceed("server", ServerAfterKexInit(s, msg, kexinit), out)
  BY <1>2 DEF ServerReceiveClientKexinit
<1> DEFINE kexinit == KexInit(cookie, offer)
           unit == Build(s.encoder, s.send_seq, kexinit)
           next == ServerAfterKexInit(s, msg, kexinit)
<1>7. kexinit \in Messages /\ kexinit.type = "KEXINIT" /\ kexinit.offer = offer
  BY <1>1, KexInitType DEF KexInit
<1>8. unit \in Units /\ unit.msg = kexinit
  <2>1. s.encoder \in Codecs /\ s.send_seq \in Nat
    BY <1>4 DEF ServerAtKexInit
  <2> HIDE DEF kexinit, s
  <2> QED
    BY <1>7, <2>1, BuildType DEF Build
<1>9. /\ next.st = "WaitingForKexDhInit" /\ next.client_id = s.client_id
      /\ next.server_id = s.server_id
      /\ next.client_kexinit = msg /\ next.server_kexinit = kexinit
  BY DEF ServerAfterKexInit
<1>10. ~closed["client"]
  BY <1>1, <1>2, PeerLeaves
<1>11. ASSUME Write("server", <<unit>>)
       PROVE  /\ Grows /\ \A q \in Roles : q # "server" => wire'[q] = wire[q]
              /\ Len(wire'["server"]) = 2 /\ wire'["server"][2] = unit
              /\ \A i \in 1 .. Len(wire'["server"]) : i \notin 1 .. Len(wire["server"]) =>
                   wire'["server"][i] = unit
  <2> HIDE DEF unit
  <2>1. /\ Grows /\ \A q \in Roles : q # "server" => wire'[q] = wire[q]
        /\ Len(wire'["server"]) = Len(wire["server"]) + 1
        /\ wire'["server"][Len(wire["server"]) + 1] = unit
        /\ \A i \in 1 .. Len(wire'["server"]) : i \notin 1 .. Len(wire["server"]) =>
             wire'["server"][i] = unit
    BY <1>1, <1>8, <1>11, WriteOne
  <2>2. Len(wire["server"]) + 1 = 2
    BY <1>3
  <2> QED
    BY <2>1, <2>2
<1>12. ASSUME ~Negotiable(msg.offer, offer), Refuse("server", <<unit>>)
       PROVE  FALSE
  <2>1. Write("server", <<unit>>)
    BY <1>1, <1>10, <1>12 DEF Refuse, WriteMayFail, Before, Undisturbed
  <2>2. /\ wire'["client"] = wire["client"]
        /\ Len(wire'["server"]) = 2 /\ wire'["server"][2] = unit
    BY <1>1, <1>11, <2>1
  <2>3. offer \in Proposals("server")'
    <3>1. 2 \in 1 .. Len(wire'["server"]) /\ wire'["server"][2].msg.type = "KEXINIT"
          /\ wire'["server"][2].msg.offer = offer
      BY <1>7, <1>8, <2>2
    <3> QED
      BY <3>1 DEF Proposals
  <2>4. msg.offer \in Proposals("client")'
    BY <1>2, <1>5, <2>2 DEF Proposals
  <2>5. Mismatch'
    BY <1>12, <2>3, <2>4 DEF Mismatch
  <2> QED
    BY <2>5 DEF Agreeing
<1>13. Proceed("server", next, <<unit>>)
  BY <1>6, <1>12
<1> HIDE DEF kexinit, next, unit
<1>14. /\ Write("server", <<unit>>) /\ ep'["server"] = next /\ ~closed'["server"]
       /\ \A q \in Roles : q # "server" => ep'[q] = ep[q] /\ closed'[q] = closed[q]
  <2>1. <<unit>> \in Seq(Units)
    BY <1>8
  <2>2. <<unit>> = <<>> \/ ep["server"].st # "WaitingForNewKeys"
    BY <1>2
  <2>3. Before /\ "server" \in Roles /\ Handshaking("server")
    BY <1>1, <1>2
  <2> QED
    BY ONLY <1>13, <2>1, <2>2, <2>3, Proceeds
<1>15. ServerKnows(ep["server"])'
  <2>1. Sent("client", 1)' = msg /\ Sent("server", 1)' = kexinit
    BY <1>1, <1>5, <1>8, <1>11, <1>14 DEF Sent
  <2>2. s.server_id = OwnId["server"] /\ s.client_id = OwnId["client"]
    BY <1>1, <1>2 DEF ServerKnows
  <2> HIDE DEF s, msg
  <2> QED
    BY <1>9, <1>14, <2>1, <2>2 DEF ServerKnows
<1>16. Replied'
  <2>1. Len(wire'["server"]) = 2
    BY <1>11, <1>14
  <2>2. ~(Len(wire'["server"]) >= 3)
    BY <2>1
  <2> QED
    BY <2>2 DEF Replied
<1> QED
  BY <1>1, <1>7, <1>8, <1>9, <1>11, <1>14, <1>15, <1>16, AgreedStep

\* The reply the server makes is over what both have sent.
LEMMA ReplyMade ==
  ASSUME NEW s \in ServerAtKexDhInit, NEW i_c, NEW i_s, NEW e, NEW secret,
         s.client_id = OwnId["client"], s.server_id = OwnId["server"],
         s.client_kexinit = i_c, s.server_kexinit = i_s,
         s.negotiated = client_negotiate(i_c.offer, i_s.offer)
  PROVE  ServerReply(s, e, secret) = ReplyTo(i_c, i_s, e, s.host_key, secret)
BY DEF ServerReply, ServerHash, ServerSharedKey, ReplyTo

\* The server signs what both have sent.
LEMMA ServerReceiveKexdhInitAgrees ==
  ASSUME Before, TypeOK', ServerReceiveKexdhInit
  PROVE  AgreedInv'
<1> DEFINE s == ep["server"]
           msg == NextUnit("server").msg
<1>1. /\ TypeOK /\ PlaceInv /\ SessionInvariant /\ ServerKnows(s)
      /\ "client" \in Roles /\ "server" \in Roles /\ Peer("server") = "client"
      /\ At("server", "WaitingForKexDhInit")
  BY DEF Before, AgreedInv, Roles, Peer, ServerReceiveKexdhInit
<1>2. /\ Handshaking("server") /\ s.st = "WaitingForKexDhInit"
      /\ rd["server"] + 1 \in 1 .. Len(wire["client"])
      /\ msg = wire["client"][rd["server"] + 1].msg /\ msg \in Messages
      /\ Place("server", "WaitingForKexDhInit", Len(wire["server"]), rd["server"])
      /\ msg.type = "KEXDH_INIT" /\ Received("server", "KEXDH_INIT")
  BY <1>1, Arrives
<1>3. rd["server"] = 2 /\ Len(wire["server"]) = 2
  <2>1. Place("server", "WaitingForKexDhInit", Len(wire["server"]), rd["server"])
    BY <1>2
  <2> QED
    BY <2>1 DEF Place
<1>4. s \in ServerAtKexDhInit
  BY <1>1, <1>2, ServerVariant
<1>5. msg = Sent("client", 2) /\ 3 \in 1 .. Len(wire["client"]) /\ msg.e \in Nat
  BY <1>2, <1>3, MessageVariant DEF Sent
<1>6. PICK secret \in DhSecrets(s.negotiated["kex"]) :
        Proceed("server", ServerAfterKexDhInit(s, msg.e, secret),
          <<Build(s.encoder, s.send_seq, ServerReply(s, msg.e, secret)),
            Build(Advance(s.encoder), SeqAdd(s.send_seq, 1), NewKeys)>>)
  BY <1>2 DEF ServerReceiveKexdhInit
<1> DEFINE reply == ServerReply(s, msg.e, secret)
           first == Build(s.encoder, s.send_seq, reply)
           second == Build(Advance(s.encoder), SeqAdd(s.send_seq, 1), NewKeys)
           next == ServerAfterKexDhInit(s, msg.e, secret)
           out == <<first, second>>
<1>7. secret \in Nat /\ reply \in Messages /\ reply.type = "KEXDH_REPLY"
  <2>1. reply \in Messages
    BY <1>4, <1>5, <1>6, ServerReplyType
  <2>2. reply.type = "KEXDH_REPLY"
    BY DEF ServerReply, KexDhReply
  <2>3. s.negotiated["kex"] \in KexNames
    BY <1>4, NegotiatedKex DEF ServerAtKexDhInit
  <2>4. secret \in Nat
    BY <1>6, <2>3, SecretType
  <2> QED
    BY <2>1, <2>2, <2>4
<1>8. reply = ReplyTo(Sent("client", 1), Sent("server", 1), Sent("client", 2).e, s.host_key, secret)
      /\ s.host_key \in HostKeys
  <2>1. /\ s.client_id = OwnId["client"] /\ s.server_id = OwnId["server"]
        /\ s.client_kexinit = Sent("client", 1) /\ s.server_kexinit = Sent("server", 1)
    BY <1>1, <1>2 DEF ServerKnows
  <2>2. s.negotiated = client_negotiate(Sent("client", 1).offer, Sent("server", 1).offer)
    BY <1>1, <1>2, <2>1 DEF SessionInvariant, SelectionFromProposals
  <2>3. s.host_key \in HostKeys
    BY <1>4 DEF ServerAtKexDhInit
  <2> HIDE DEF s, msg
  <2> QED
    BY <1>4, <1>5, <2>1, <2>2, <2>3, ReplyMade
<1>9. next.st = "WaitingForNewKeys"
  BY DEF ServerAfterKexDhInit
<1>10. Proceed("server", next, out)
  BY <1>6
<1> HIDE DEF reply, next
<1>11. first \in Units /\ first.msg = reply
  <2>1. s.encoder \in Codecs /\ s.send_seq \in Nat
    BY <1>4 DEF ServerAtKexDhInit
  <2> HIDE DEF s
  <2> QED
    BY <1>7, <2>1, BuildType DEF Build
<1>12. second \in Units /\ second.msg.type = "NEWKEYS"
  <2>1. Advance(s.encoder) \in Codecs /\ SeqAdd(s.send_seq, 1) \in Nat
    BY <1>4, CodecTypes, SeqAddType DEF ServerAtKexDhInit
  <2>2. NewKeys \in Messages /\ NewKeys.type = "NEWKEYS"
    BY DEF NewKeys, Messages
  <2> HIDE DEF s
  <2> QED
    BY <2>1, <2>2, BuildType DEF Build
<1> HIDE DEF first, second
<1>13. out \in Seq(Units) /\ Len(out) = 2 /\ out[1] = first /\ out[2] = second
  BY <1>11, <1>12
<1>14. 1 .. Len(out) = {1, 2}
  BY <1>13
<1> HIDE DEF out
<1>15. /\ Write("server", out) /\ ep'["server"] = next /\ ~closed'["server"]
       /\ \A q \in Roles : q # "server" => ep'[q] = ep[q] /\ closed'[q] = closed[q]
  <2>1. s.st # "WaitingForNewKeys"
    BY <1>2
  <2> QED
    BY <1>1, <1>2, <1>10, <1>13, <2>1, Proceeds
<1>16. /\ Grows /\ \A q \in Roles : q # "server" => wire'[q] = wire[q]
       /\ wire'["server"][Len(wire["server"]) + 1] = first
       /\ \A i \in 1 .. Len(wire'["server"]) : i \notin 1 .. Len(wire["server"]) =>
            wire'["server"][i] = first \/ wire'["server"][i] = second
  <2>1. /\ Grows /\ \A q \in Roles : q # "server" => wire'[q] = wire[q]
        /\ \A k \in 1 .. Len(out) : wire'["server"][Len(wire["server"]) + k] = out[k]
        /\ \A i \in 1 .. Len(wire'["server"]) : i \notin 1 .. Len(wire["server"]) =>
             \E k \in 1 .. Len(out) : wire'["server"][i] = out[k]
    BY <1>1, <1>13, <1>15, WriteGrows
  <2>2. wire'["server"][Len(wire["server"]) + 1] = first
    BY <1>13, <1>14, <2>1
  <2>3. \A i \in 1 .. Len(wire'["server"]) : i \notin 1 .. Len(wire["server"]) =>
          wire'["server"][i] = first \/ wire'["server"][i] = second
    BY <1>13, <1>14, <2>1
  <2> QED
    BY <2>1, <2>2, <2>3
<1>17. Replied'
  <2>1. Sent("server", 2)' = reply
    <3>1. wire'["server"][3].msg = reply
      BY <1>3, <1>11, <1>16
    <3> QED
      BY <3>1 DEF Sent
  <2>2. Sent("client", 1)' = Sent("client", 1) /\ Sent("client", 2)' = Sent("client", 2)
    BY <1>1, <1>16 DEF Sent
  <2>3. 1 + 1 <= Len(wire["server"])
    BY <1>3
  <2>4. Sent("server", 1)' = Sent("server", 1)
    BY <1>1, <1>16, <2>3, SentStays
  <2> HIDE DEF s
  <2> QED
    BY <1>7, <1>8, <2>1, <2>2, <2>4 DEF Replied, ReplyTo
<1>18. ServerKnows(ep["server"])'
  BY <1>9, <1>15 DEF ServerKnows
<1>19. \A i \in 1 .. Len(wire'["server"]) :
         i \notin 1 .. Len(wire["server"]) => wire'["server"][i].msg.type # "ID"
  BY <1>7, <1>11, <1>12, <1>16
<1> QED
  BY <1>1, <1>9, <1>15, <1>16, <1>17, <1>18, <1>19, AgreedStep

\* A step that writes nothing, or only payload, and leaves p Ready.
LEMMA ReadyAgrees ==
  ASSUME Before, TypeOK', NEW p \in Roles, ep'[p].st = "Ready",
         \A q \in Roles : q # p => ep'[q] = ep[q] /\ closed'[q] = closed[q],
         ep[p].st = "Ready" \/ UNCHANGED wire,
         \/ UNCHANGED wire
         \/ \E out \in Seq(Units) :
              Write(p, out) /\ \A k \in 1 .. Len(out) : out[k].msg.type = "PAYLOAD"
  PROVE  AgreedInv'
<1>1. /\ TypeOK /\ PlaceInv /\ Replied
      /\ "client" \in Roles /\ "server" \in Roles
      /\ Peer("client") = "server" /\ Peer("server") = "client"
  BY DEF Before, AgreedInv, Roles, Peer
<1>2. \A q \in Roles : Len(wire[q]) \in Nat /\ rd[q] \in Nat /\ rd[q] <= Len(wire[Peer(q)])
  BY <1>1 DEF TypeOK
<1>3. /\ Grows /\ \A q \in Roles : q # p => wire'[q] = wire[q]
      /\ \A i \in 1 .. Len(wire'[p]) :
           i \notin 1 .. Len(wire[p]) => wire'[p][i].msg.type = "PAYLOAD"
  <2>1. CASE UNCHANGED wire
    BY <2>1 DEF Grows
  <2>2. ASSUME NEW out \in Seq(Units), Write(p, out),
               \A k \in 1 .. Len(out) : out[k].msg.type = "PAYLOAD"
        PROVE  /\ Grows /\ \A q \in Roles : q # p => wire'[q] = wire[q]
               /\ \A i \in 1 .. Len(wire'[p]) :
                    i \notin 1 .. Len(wire[p]) => wire'[p][i].msg.type = "PAYLOAD"
    <3>1. /\ Grows /\ \A q \in Roles : q # p => wire'[q] = wire[q]
          /\ \A i \in 1 .. Len(wire'[p]) : i \notin 1 .. Len(wire[p]) =>
               \E k \in 1 .. Len(out) : wire'[p][i] = out[k]
      BY <1>1, <2>2, WriteGrows
    <3> QED
      BY <2>2, <3>1
  <2> QED
    BY <2>1, <2>2
<1>4. Len(wire["server"]) < 3 => Replied'
  <2>1. CASE wire'["server"] = wire["server"]
    BY <1>2, <2>1 DEF Replied
  <2>2. CASE wire'["server"] # wire["server"]
    <3>1. p = "server" /\ ep["server"].st = "Ready"
      BY <1>1, <1>3, <2>2
    <3>2. Place("server", "Ready", Len(wire["server"]), rd["server"])
      BY <1>1, <3>1 DEF PlaceInv, Places
    <3>3. Len(wire["server"]) >= 4
      BY <1>1, <1>2, <3>2 DEF Place, Lead
    <3> QED
      BY <1>1, <1>2, <3>3
  <2> QED
    BY <2>1, <2>2
<1>5. /\ p = "client" => ClientKnows(ep["client"])'
      /\ p = "server" => ServerKnows(ep["server"])'
  BY DEF ClientKnows, ServerKnows
<1> QED
  BY <1>3, <1>4, <1>5, AgreedStep

\* NEWKEYS is read.
LEMMA ReceiveNewkeysAgrees ==
  ASSUME Before, TypeOK', NEW p \in Roles, ReceiveNewkeys(p)
  PROVE  AgreedInv'
<1> DEFINE next == AfterNewKeys(ep[p])
<1>1. TypeOK /\ At(p, "WaitingForNewKeys")
  BY DEF Before, ReceiveNewkeys
<1>2. Handshaking(p) /\ NextUnit(p).msg.type = "NEWKEYS" /\ Received(p, "NEWKEYS")
  BY <1>1, Arrives
<1>3. Proceed(p, next, <<>>)
  BY <1>2 DEF ReceiveNewkeys
<1>4. next.st = "Ready"
  BY DEF AfterNewKeys
<1> HIDE DEF next
<1>5. /\ Write(p, <<>>) /\ ep'[p] = next
      /\ \A q \in Roles : q # p => ep'[q] = ep[q] /\ closed'[q] = closed[q]
  <2>1. <<>> \in Seq(Units)
    OBVIOUS
  <2> QED
    BY <1>2, <1>3, <2>1, Proceeds
<1>6. UNCHANGED wire
  BY <1>1, <1>5, EmptyWrite
<1> QED
  BY <1>4, <1>5, <1>6, ReadyAgrees

\* No handshake meets the end of the stream.
LEMMA NoHangup ==
  ASSUME Before, NEW p \in Roles, Hangup(p)
  PROVE  FALSE
BY PeerLeaves DEF Hangup, PeerGone

\* send_packet adds payload, or what a failed write leaves of it.
LEMMA SendPacketAgrees ==
  ASSUME Before, TypeOK', NEW p \in Roles, SendPacket(p)
  PROVE  AgreedInv'
<1> DEFINE unit == Build(ep[p].encoder, ep[p].send_seq, Payload(Len(sends[p]) + 1))
           out == <<unit>>
<1>1. TypeOK /\ Undisturbed
  BY DEF Before
<1>2. /\ Open(p) /\ unit \in Units
      /\ \A q \in Roles : q # p => ep'[q] = ep[q]
      /\ ep'[p].st = "Ready"
  BY <1>1, SendPacketOutcomes
<1>3. unit.msg.type = "PAYLOAD"
  BY DEF Build, Payload
<1>4. Write(p, out) \/ \E cut \in Cuts(out) : Write(p, cut)
  BY DEF SendPacket
<1>5. UNCHANGED closed /\ ep[p].st = "Ready"
  BY <1>2 DEF SendPacket, Open
<1> HIDE DEF unit
<1>6. out \in Seq(Units) /\ \A k \in 1 .. Len(out) : out[k].msg.type = "PAYLOAD"
  BY <1>2, <1>3
<1> HIDE DEF out
<1>7. \A cut \in Cuts(out) :
        cut \in Seq(Units) /\ \A k \in 1 .. Len(cut) : cut[k].msg.type = "PAYLOAD"
  <2> TAKE cut \in Cuts(out)
  <2>1. cut \in Seq(Units)
    BY <1>6, CutsType
  <2>2. \A k \in 1 .. Len(cut) : k \in 1 .. Len(out) /\ cut[k].msg = out[k].msg
    BY <1>6, CutsUnits
  <2> QED
    BY <1>6, <2>1, <2>2
<1>8. \E units \in Seq(Units) :
        Write(p, units) /\ \A k \in 1 .. Len(units) : units[k].msg.type = "PAYLOAD"
  BY <1>4, <1>6, <1>7
<1> QED
  BY <1>2, <1>5, <1>8, ReadyAgrees

\* read_packet and dropping the transport write nothing.
LEMMA QuietAgrees ==
  ASSUME Before, TypeOK', NEW p \in Roles, ReadPacket(p) \/ Close(p)
  PROVE  AgreedInv'
<1>1. TypeOK /\ Open(p) /\ ep[p] \in AtReady /\ UNCHANGED wire
  BY ReadyVariant DEF Before, ReadPacket, Close
<1>2. ep'[p].st = "Ready" /\ \A q \in Roles : q # p => ep'[q] = ep[q] /\ closed'[q] = closed[q]
  <2>1. CASE ReadPacket(p)
    <3>1. \A q \in Roles : q # p => ep'[q] = ep[q] /\ closed'[q] = closed[q]
      BY <1>1, <2>1 DEF ReadPacket, TypeOK
    <3>2. ep'[p].st = "Ready"
      BY <1>1, <2>1 DEF ReadPacket, TypeOK, AtReady
    <3> QED
      BY <3>1, <3>2
  <2>2. CASE Close(p)
    BY <1>1, <2>2 DEF Close, TypeOK, Open
  <2> QED
    BY <2>1, <2>2
<1> QED
  BY <1>1, <1>2, ReadyAgrees

-----------------------------------------------------------------------------
\* Nothing is taken back.

\* A write adds to the wire, in full or in part.
LEMMA AnyWriteGrows ==
  ASSUME TypeOK, NEW p \in Roles, NEW S, NEW out \in Seq(S),
         Write(p, out) \/ \E cut \in Cuts(out) : Write(p, cut)
  PROVE  Grows
<1> DEFINE T == Units \cup S \cup {CutShort(u) : u \in S}
           w == wire[p]
<1>1. w \in Seq(T) /\ out \in Seq(T)
  <2>1. w \in Seq(Units)
    BY DEF TypeOK
  <2>2. Units \subseteq T /\ S \subseteq T
    OBVIOUS
  <2> HIDE DEF T, w
  <2> QED
    BY <2>1, <2>2
<1>2. \A cut \in Cuts(out) : cut \in Seq(T)
  <2>1. \A n \in 0 .. Len(out) : SubSeq(out, 1, n) \in Seq(T)
    <3> HIDE DEF T
    <3> QED
      BY <1>1
  <2>2. \A n \in 0 .. (Len(out) - 1) : CutShort(out[n + 1]) \in T
    <3> TAKE n \in 0 .. (Len(out) - 1)
    <3>1. out[n + 1] \in S
      OBVIOUS
    <3> QED
      BY <3>1
  <2> HIDE DEF T
  <2>3. \A n \in 0 .. (Len(out) - 1) :
          Append(SubSeq(out, 1, n), CutShort(out[n + 1])) \in Seq(T)
    BY <2>1, <2>2
  <2> QED
    BY <2>1, <2>3 DEF Cuts
<1> HIDE DEF T
<1>3. PICK units \in Seq(T) : Write(p, units)
  BY <1>1, <1>2
<1>4. wire'[p] = w \o units /\ \A q \in Roles : q # p => wire'[q] = wire[q]
  BY <1>3 DEF TypeOK, Write
<1>5. Len(w) \in Nat /\ Len(units) \in Nat /\ Len(w \o units) = Len(w) + Len(units)
  BY <1>1, <1>3
<1>6. \A i \in 1 .. Len(w) : i \in 1 .. Len(w \o units) /\ (w \o units)[i] = w[i]
  BY <1>1, <1>3, <1>5
<1> QED
  BY <1>4, <1>6 DEF Grows

\* So does a handler, and it leaves start alone.
LEMMA HandlerGrows ==
  ASSUME TypeOK, NEW p \in Roles, NEW S, NEW out \in Seq(S),
         Refuse(p, out) \/ \E next : Proceed(p, next, out)
  PROVE  Grows /\ UNCHANGED starts
<1>1. Write(p, out) \/ \E cut \in Cuts(out) : Write(p, cut)
  BY DEF Refuse, Proceed
<1> QED
  BY <1>1, AnyWriteGrows DEF Refuse, Proceed, Consume

\* The handlers write nothing, one unit, or two.
LEMMA ShortOuts ==
  /\ <<>> \in Seq({})
  /\ \A a : <<a>> \in Seq({a})
  /\ \A a, b : <<a, b>> \in Seq({a, b})
OBVIOUS

\* So does every step of an undisturbed stream.
LEMMA NextGrows ==
  ASSUME TypeOK, Undisturbed, [Next]_vars
  PROVE  Grows /\ (UNCHANGED starts \/ starts' = starts + 1)
<1> USE DEF Roles
<1>1. CASE UNCHANGED vars
  BY <1>1 DEF vars, Grows
<1>2. CASE Start
  <2>1. Write("client", <<Line("client")>>)
          \/ \E cut \in Cuts(<<Line("client")>>) : Write("client", cut)
    BY <1>2 DEF Start, StartOk, StartErr
  <2>2. Grows
    BY <2>1, AnyWriteGrows, ShortOuts
  <2> QED
    BY <1>2, <2>2 DEF Start
<1>3. CASE ClientReceiveProtoVersion
  BY <1>3, HandlerGrows, ShortOuts DEF ClientReceiveProtoVersion
<1>4. CASE ClientReceiveServerKexinit
  BY <1>4, HandlerGrows, ShortOuts DEF ClientReceiveServerKexinit
<1>5. CASE ClientReceiveKexReply
  BY <1>5, HandlerGrows, ShortOuts DEF ClientReceiveKexReply
<1>6. CASE ServerReceiveProtoVersion
  BY <1>6, HandlerGrows, ShortOuts DEF ServerReceiveProtoVersion
<1>7. CASE ServerReceiveClientKexinit
  BY <1>7, HandlerGrows, ShortOuts DEF ServerReceiveClientKexinit
<1>8. CASE ServerReceiveKexdhInit
  BY <1>8, HandlerGrows, ShortOuts DEF ServerReceiveKexdhInit
<1>9. ASSUME NEW p \in Roles, ReceiveNewkeys(p)
      PROVE  Grows /\ UNCHANGED starts
  BY <1>9, HandlerGrows, ShortOuts DEF ReceiveNewkeys
<1>10. ASSUME NEW p \in Roles, SendPacket(p)
       PROVE  Grows /\ UNCHANGED starts
  <2> DEFINE unit == Build(ep[p].encoder, ep[p].send_seq, Payload(Len(sends[p]) + 1))
  <2>1. Write(p, <<unit>>) \/ \E cut \in Cuts(<<unit>>) : Write(p, cut)
    BY <1>10 DEF SendPacket
  <2> HIDE DEF unit
  <2>2. Grows
    BY <2>1, AnyWriteGrows, ShortOuts
  <2> QED
    BY <1>10, <2>2 DEF SendPacket
<1>11. ASSUME NEW p \in Roles,
              Hangup(p) \/ ReadError(p) \/ ReadPacket(p) \/ ReadPacketError(p) \/ Close(p)
       PROVE  Grows /\ UNCHANGED starts
  BY <1>11 DEF Hangup, ReadError, ReadPacket, ReadPacketError, Close, Grows
<1>12. ASSUME NEW p \in Roles, Damage(p)
       PROVE  FALSE
  <2>1. ~(damages < 0)
    BY DEF TypeOK
  <2> QED
    BY <1>12, <2>1 DEF Undisturbed, Damage
<1> QED
  BY <1>1, <1>2, <1>3, <1>4, <1>5, <1>6, <1>7, <1>8, <1>9, <1>10, <1>11, <1>12
  DEF Next, ClientReceive, ServerReceive, Ready

\* What has been proposed stays proposed, and start stays called.
LEMMA WasAgreeing ==
  ASSUME TypeOK, TypeOK', Undisturbed, [Next]_vars, Agreeing'
  PROVE  Agreeing
<1>1. Grows /\ (UNCHANGED starts \/ starts' = starts + 1)
  BY NextGrows
<1>2. starts \in Nat /\ starts' \in Nat /\ starts' <= 1
  BY DEF TypeOK, Agreeing
<1>3. starts <= 1
  BY <1>1, <1>2
<1>4. \A p \in Roles : Proposals(p) \subseteq Proposals(p)'
  BY <1>1 DEF Grows, Proposals
<1>5. ~Mismatch
  BY <1>4 DEF Agreeing, Mismatch, Roles
<1> QED
  BY <1>3, <1>5 DEF Agreeing

-----------------------------------------------------------------------------
\* The theorem.

\* Two programs that have not started know nothing.
LEMMA InitAgrees == Init => AgreedInv
<1> SUFFICES ASSUME Init
             PROVE  AgreedInv
  OBVIOUS
<1>1. \A p \in Roles : ep[p].st = "WaitingForProtoVersion" /\ ~closed[p] /\ wire[p] = <<>>
  BY DEF Init, Roles
<1>2. ep["client"].client_id = OwnId["client"] /\ ep["server"].server_id = OwnId["server"]
  BY DEF Init
<1>3. NobodyFailed /\ LinesOwn
  BY <1>1 DEF NobodyFailed, LinesOwn
<1>4. ClientKnows(ep["client"]) /\ ServerKnows(ep["server"])
  BY <1>1, <1>2 DEF ClientKnows, ServerKnows, Roles
<1>5. Replied
  <2>1. Len(wire["server"]) = 0
    BY <1>1 DEF Roles
  <2> QED
    BY <2>1 DEF Replied
<1> QED
  BY <1>3, <1>4, <1>5 DEF AgreedInv

\* Every step of programs that agree keeps them agreed.
LEMMA NextAgrees ==
  ASSUME TypeOK, SessionInvariant, PlaceInv, LeaveInv, AlignInv, Undisturbed,
         TypeOK', [Next]_vars, Agreeing => AgreedInv
  PROVE  (Agreeing => AgreedInv)'
<1> SUFFICES ASSUME Agreeing'
             PROVE  AgreedInv'
  OBVIOUS
<1>1. Before
  BY WasAgreeing DEF Before
<1>2. CASE UNCHANGED vars
  BY <1>1, <1>2 DEF vars, Before, AgreedInv, NobodyFailed, LinesOwn, ClientKnows, ServerKnows,
     Replied, ReplyTo, Sent
<1>3. CASE Start
  BY <1>1, <1>3, StartAgrees
<1>4. CASE ClientReceive
  BY <1>1, <1>4, ClientReceiveProtoVersionAgrees, ClientReceiveServerKexinitAgrees,
     ClientReceiveKexReplyAgrees, ReceiveNewkeysAgrees, NoHangup
  DEF ClientReceive, Roles
<1>5. CASE ServerReceive
  BY <1>1, <1>5, ServerReceiveProtoVersionAgrees, ServerReceiveClientKexinitAgrees,
     ServerReceiveKexdhInitAgrees, ReceiveNewkeysAgrees, NoHangup
  DEF ServerReceive, Roles
<1>6. ASSUME NEW p \in Roles, Ready(p) \/ ReadError(p) \/ Damage(p)
      PROVE  AgreedInv'
  <2>1. ~ReadPacketError(p) /\ ~ReadError(p)
    BY DEF Undisturbed, ReadPacketError, ReadError
  <2>2. ~Damage(p)
    <3>1. ~(damages < 0)
      BY DEF TypeOK
    <3> QED
      BY <3>1 DEF Undisturbed, Damage
  <2> QED
    BY <1>1, <1>6, <2>1, <2>2, SendPacketAgrees, QuietAgrees DEF Ready
<1> QED
  BY <1>2, <1>3, <1>4, <1>5, <1>6 DEF Next

\* On an undisturbed stream a handshake fails only if the two proposals have no
\* outcome the program knows, or start was called twice (client.rs, server.rs,
\* client_negotiate, generate_shared_key, verify_exchange_hash_signature): for
\* every proposal, group, secret and order of the two programs' steps.
THEOREM OnlyMismatchFails ==
  ASSUME ~IoErrors, MaxDamage = 0
  PROVE  Spec => []FailsOnlyOnMismatch
<1> DEFINE Invs == TypeOK /\ SessionInvariant /\ PlaceInv /\ LeaveInv /\ AlignInv
           Agreed == Agreeing => AgreedInv
<1>1. Undisturbed
  BY DEF Undisturbed
<1>2. Init => Invs /\ Agreed
  BY InitType, InitSession, InitPlaces, InitLeaves, InitAligns, InitAgrees
<1>3. Invs /\ Agreed /\ [Next]_vars => Invs' /\ Agreed'
  <2>1. Invs /\ [Next]_vars => Invs'
    BY <1>1, NextType, NextSession, NextPlaces, NextLeaves, NextAligns
  <2>2. Invs /\ Agreed /\ [Next]_vars /\ TypeOK' => Agreed'
    BY <1>1, NextAgrees
  <2> QED
    BY <2>1, <2>2
<1>4. Invs /\ Agreed => FailsOnlyOnMismatch
  <2>1. TypeOK => (starts <= 1 \/ starts > 1)
    BY DEF TypeOK
  <2> QED
    BY <2>1 DEF Agreeing, AgreedInv, NobodyFailed, FailsOnlyOnMismatch
<1> QED
  BY <1>2, <1>3, <1>4, PTL DEF Spec
=============================================================================
