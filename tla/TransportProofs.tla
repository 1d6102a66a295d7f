-------------------------- MODULE TransportProofs --------------------------
(***************************************************************************)
(* Theorems about Transport, for every value of its constants.             *)
(*                                                                         *)
(* TypeCorrect: one lemma per operator of the model says what it yields,   *)
(* one per action that it keeps TypeOK.  SessionCorrect: SessionInvariant  *)
(* is inductive, given TypeOK, and implies SessionAgreement.  Most actions *)
(* are "quiet" (QuietWire, QuietEndpoint) and keep it by QuietStep; the    *)
(* two that matter are the server's receive_kexdh_init, which signs, and   *)
(* the client's receive_kex_reply, which verifies.                         *)
(*                                                                         *)
(* What is enciphered, and where in the keystream, for all constants,      *)
(* faults and damage.                                                      *)
(*                                                                         *)
(* SealingCorrect: payload travels only under the keys of a session whose  *)
(* exchange hash the server has signed.  The property is not inductive:    *)
(* damage could still remove the reply from the wire.  SealInv says why it *)
(* cannot: before anybody seals payload the client has read the reply, and *)
(* what is read is past damage.                                            *)
(*                                                                         *)
(* KeystreamCorrect: no two packets are ever enciphered under the same key *)
(* at the same place of the keystream.  An endpoint has one key in its     *)
(* life, and gives it to its encoder when it becomes Ready; until then     *)
(* everything it writes is naked.  From then on its encoder is ahead of    *)
(* all it has written (StreamInv).  The keys of the two ends differ in     *)
(* their direction (KeysFromSession).                                      *)
(*                                                                         *)
(* NothingSkippedSilently: a reader gets its peer's payloads in order, and *)
(* every number it skips is that of a send_packet that returned an error.  *)
(* recv_seq is 3 (KEXINIT, KEXDH_*, NEWKEYS) plus what read_packet has     *)
(* returned; a payload is numbered 3 plus the send_packet calls that had   *)
(* returned Ok before it (CountInv).  The mac covers the number, so        *)
(* the i-th payload returned is one sent after i - 1 calls that succeeded. *)
(* Sequence numbers wrap: the theorem is about owners that send fewer      *)
(* packets than there are sequence numbers.                                *)
(***************************************************************************)
EXTENDS Transport, ArithmeticProofs

-----------------------------------------------------------------------------
\* Types of the operators the handlers are built from.

\* A sequence number stays a number (wrapping_add).
LEMMA SeqAddType ==
  ASSUME NEW seq \in Nat, NEW k \in Nat
  PROVE  SeqAdd(seq, k) \in Nat
BY TransportAssumption DEF SeqAdd

\* Both Diffie-Hellman computations yield a number (BigUint::modpow).
LEMMA DhType ==
  ASSUME NEW kex \in KexNames, NEW public \in Nat, NEW secret \in Nat
  PROVE  PublicValue(kex, secret) \in Nat /\ SharedKey(kex, public, secret) \in Nat
<1>1. DhPrime[kex] \in Nat \ {0}
  BY PrimeAssumption
<1>2. \A base, exponent \in Nat : ModPow(base, exponent, DhPrime[kex]) \in Nat
  <2> TAKE base, exponent \in Nat
  <2>1. Powers(base, DhPrime[kex]) \in [Nat -> 0 .. (DhPrime[kex] - 1)]
    BY <1>1, PowersDefined
  <2>2. ModPow(base, exponent, DhPrime[kex]) = Powers(base, DhPrime[kex])[exponent]
    BY DEF ModPow, Powers
  <2> QED
    BY <1>1, <2>1, <2>2
<1> QED
  BY <1>2 DEF PublicValue, SharedKey, Generator

\* The client's and the server's computation yield the same key.
LEMMA DhAgrees ==
  ASSUME NEW kex \in KexNames, NEW x \in Nat, NEW y \in Nat
  PROVE  SharedKey(kex, PublicValue(kex, x), y) = SharedKey(kex, PublicValue(kex, y), x)
<1>1. DhPrime[kex] \in Nat \ {0}
  BY PrimeAssumption
<1>2. \A base, exponent : ModPow(base, exponent, DhPrime[kex]) = Powers(base, DhPrime[kex])[exponent]
  BY DEF ModPow, Powers
<1>3. Generator \in Nat
  BY DEF Generator
<1> QED
  BY <1>1, <1>2, <1>3, PowersCommute DEF PublicValue, SharedKey

\* A selection that client_negotiate returns consists of names from_str knows.
LEMMA NegotiatedType ==
  ASSUME NEW c, NEW s, Negotiable(c, s)
  PROVE  client_negotiate(c, s) \in Negotiated
<1> DEFINE n == client_negotiate(c, s)
<1>1. n = [slot \in Slots |-> FirstMatch(c[slot], s[slot])]
  BY DEF client_negotiate
<1>2. \A slot \in Slots : n[slot] \in Known[slot]
  BY <1>1 DEF Negotiable
<1> QED
  BY <1>1, <1>2 DEF Negotiated

\* Both codecs of the naked layer and of derive_keys are codecs.
LEMMA CodecTypes ==
  /\ Naked \in Codecs
  /\ \A key \in Keys : Traditional(key) \in Codecs
  /\ \A codec \in Codecs : Advance(codec) \in Codecs
BY DEF Naked, Traditional, Advance, Codecs, Keys, NoKey

\* A failed decode leaves a decoder behind.
LEMMA AfterErrorType ==
  ASSUME NEW codec \in Codecs, NEW unit, NEW d \in AfterError(codec, unit)
  PROVE  d \in Codecs
BY CodecTypes DEF AfterError, Codecs

\* build yields a unit.
LEMMA BuildType ==
  ASSUME NEW codec \in Codecs, NEW seq \in Nat, NEW msg \in Messages
  PROVE  Build(codec, seq, msg) \in Units
BY DEF Build, Codecs, Units

\* derive_keys yields keys, from a selection, the shared key and the hash.
LEMMA DerivedKeyType ==
  ASSUME NEW dir \in {"c2s", "s2c"}, NEW neg \in Negotiated,
         NEW k \in Nat, NEW hash \in Hashes
  PROVE  DerivedKey(dir, neg, k, hash) \in Keys
<1>1. /\ neg["enc_c2s"] \in CipherNames /\ neg["enc_s2c"] \in CipherNames
      /\ neg["mac_c2s"] \in MacNames /\ neg["mac_s2c"] \in MacNames
  BY DEF Negotiated, Slots, Known
<1> QED
  BY <1>1 DEF DerivedKey, Keys

\* Whatever a failing write leaves on the wire is a sequence of units.
LEMMA CutsType ==
  ASSUME NEW out \in Seq(Units), NEW cut \in Cuts(out)
  PROVE  cut \in Seq(Units)
<1>1. \A n \in 0 .. Len(out) : SubSeq(out, 1, n) \in Seq(Units)
  OBVIOUS
<1>2. \A n \in 0 .. (Len(out) - 1) : CutShort(out[n + 1]) \in Units
  <2> TAKE n \in 0 .. (Len(out) - 1)
  <2>1. out[n + 1] \in Units
    OBVIOUS
  <2> QED
    BY <2>1 DEF CutShort, Units
<1>3. \A n \in 0 .. (Len(out) - 1) :
        Append(SubSeq(out, 1, n), CutShort(out[n + 1])) \in Seq(Units)
  BY <1>1, <1>2
<1> QED
  BY <1>1, <1>3 DEF Cuts

\* Damage turns a message into a message.
LEMMA GarbledType ==
  ASSUME NEW msg \in Messages, NEW m \in Garbled(msg)
  PROVE  m \in Messages
<1>1. CASE msg.type = "ID"
  BY <1>1 DEF Garbled, Messages, IdLine, Garbage
<1>2. CASE msg.type = "KEXINIT"
  BY <1>2 DEF Garbled, Messages, KexInits, KexInit, Garbage
<1>3. CASE msg.type = "KEXDH_INIT"
  <2>1. msg.e \in Nat
    BY <1>3 DEF Messages, KexInits, NewKeys, Garbage
  <2> QED
    BY <1>3, <2>1 DEF Garbled, Messages, KexDhInit, Garbage
<1>4. CASE msg.type = "KEXDH_REPLY"
  <2>1. msg.k_s \in HostKeys /\ msg.f \in Nat /\ msg.signature \in Signatures
    BY <1>4 DEF Messages, KexInits, NewKeys, Garbage
  <2>2. [msg.signature EXCEPT !.key = Nobody] \in Signatures
    BY <2>1 DEF Signatures
  <2>3. \/ m = Garbage
        \/ \E k \in HostKeys : m = KexDhReply(k, msg.f, msg.signature)
        \/ \E f \in {0, 1, msg.f + 1} : m = KexDhReply(msg.k_s, f, msg.signature)
        \/ m = KexDhReply(msg.k_s, msg.f, [msg.signature EXCEPT !.key = Nobody])
    BY <1>4 DEF Garbled
  <2> QED
    BY <2>1, <2>2, <2>3 DEF Messages, KexDhReply, Garbage
<1>5. CASE msg.type \notin {"ID", "KEXINIT", "KEXDH_INIT", "KEXDH_REPLY"}
  BY <1>5 DEF Garbled, Messages, Garbage
<1> QED
  BY <1>1, <1>2, <1>3, <1>4, <1>5

-----------------------------------------------------------------------------
\* Types of the steps the handlers share.

\* The unit a handler reads is a unit of the peer's wire.
LEMMA NextUnitType ==
  ASSUME TypeOK, NEW p \in Roles, Unread(p)
  PROVE  /\ Peer(p) \in Roles
         /\ rd[p] + 1 \in 1 .. Len(wire[Peer(p)])
         /\ NextUnit(p) \in Units /\ NextUnit(p).msg \in Messages
<1>1. Peer(p) \in Roles
  BY DEF Peer, Roles
<1>2. rd[p] \in Nat /\ wire[Peer(p)] \in Seq(Units)
  BY <1>1 DEF TypeOK
<1>3. rd[p] + 1 \in 1 .. Len(wire[Peer(p)])
  BY <1>2 DEF Unread
<1>4. NextUnit(p) \in Units
  BY <1>2, <1>3 DEF NextUnit
<1> QED
  BY <1>1, <1>3, <1>4 DEF Units

\* Writing units keeps a wire a sequence of units and never shortens it.
LEMMA WriteType ==
  ASSUME TypeOK, NEW p \in Roles, NEW out \in Seq(Units), Write(p, out)
  PROVE  /\ wire' \in [Roles -> Seq(Units)]
         /\ \A q \in Roles : Len(wire'[q]) >= Len(wire[q])
<1>1. wire[p] \in Seq(Units) /\ wire[p] \o out \in Seq(Units)
  BY DEF TypeOK
<1>2. Len(wire[p] \o out) >= Len(wire[p])
  BY <1>1
<1>3. \A q \in Roles : wire'[q] = IF q = p THEN wire[p] \o out ELSE wire[q]
  BY DEF Write, TypeOK
<1>4. wire' \in [Roles -> Seq(Units)]
  BY <1>1 DEF Write, TypeOK
<1>5. \A q \in Roles : Len(wire[q]) \in Nat
  BY DEF TypeOK
<1> QED
  BY <1>2, <1>3, <1>4, <1>5

\* A new state of the right variant keeps ep well typed.
LEMMA StoreType ==
  ASSUME TypeOK, NEW p \in Roles, NEW next \in States(p),
         ep' = [ep EXCEPT ![p] = next]
  PROVE  DOMAIN ep' = Roles /\ \A q \in Roles : ep'[q] \in States(q)
BY DEF TypeOK

\* Giving up leaves Failed behind and the stream dropped.
LEMMA GiveUpType ==
  ASSUME TypeOK, NEW p \in Roles, GiveUp(p)
  PROVE  /\ DOMAIN ep' = Roles /\ \A q \in Roles : ep'[q] \in States(q)
         /\ closed' \in [Roles -> BOOLEAN]
<1>1. Failed \in States(p)
  BY DEF States
<1> QED
  BY <1>1, StoreType DEF GiveUp, TypeOK

\* Consuming a unit keeps the read index inside the wire.
LEMMA ConsumeType ==
  ASSUME TypeOK, NEW p \in Roles, Unread(p), rd' = [rd EXCEPT ![p] = @ + 1],
         wire' \in [Roles -> Seq(Units)],
         \A q \in Roles : Len(wire'[q]) >= Len(wire[q])
  PROVE  rd' \in [Roles -> Nat] /\ \A q \in Roles : rd'[q] <= Len(wire'[Peer(q)])
<1>1. rd' \in [Roles -> Nat]
  BY DEF TypeOK
<1>2. \A q \in Roles : rd'[q] = IF q = p THEN rd[p] + 1 ELSE rd[q]
  BY DEF TypeOK
<1>3. \A q \in Roles : Peer(q) \in Roles
  BY DEF Peer, Roles
<1>4. \A q \in Roles : rd'[q] <= Len(wire[Peer(q)])
  <2> TAKE q \in Roles
  <2>1. rd[q] \in Nat /\ Len(wire[Peer(q)]) \in Nat /\ rd[q] <= Len(wire[Peer(q)])
    BY <1>3 DEF TypeOK
  <2> QED
    BY <1>2, <2>1 DEF Unread
<1>5. \A q \in Roles : rd'[q] <= Len(wire'[Peer(q)])
  <2> TAKE q \in Roles
  <2>1. rd'[q] \in Nat /\ rd'[q] <= Len(wire[Peer(q)])
    BY <1>1, <1>4
  <2>2. Len(wire[Peer(q)]) \in Nat /\ Len(wire'[Peer(q)]) \in Nat
    <3>1. wire[Peer(q)] \in Seq(Units)
      BY <1>3 DEF TypeOK
    <3>2. wire'[Peer(q)] \in Seq(Units)
      BY <1>3
    <3> QED
      BY <3>1, <3>2
  <2>3. Len(wire[Peer(q)]) <= Len(wire'[Peer(q)])
    BY <1>3
  <2> QED
    BY <2>1, <2>2, <2>3
<1> QED
  BY <1>1, <1>5

\* A handler that returns Ok, or fails while it writes, keeps the types.
LEMMA ProceedType ==
  ASSUME TypeOK, NEW p \in Roles, Unread(p),
         NEW next \in States(p), NEW out \in Seq(Units), Proceed(p, next, out)
  PROVE  TypeOK'
<1>1. PICK units \in Seq(Units) : Write(p, units)
  BY CutsType DEF Proceed
<1>2. /\ wire' \in [Roles -> Seq(Units)]
      /\ \A q \in Roles : Len(wire'[q]) >= Len(wire[q])
  BY <1>1, WriteType
<1>3. rd' \in [Roles -> Nat] /\ \A q \in Roles : rd'[q] <= Len(wire'[Peer(q)])
  BY <1>2, ConsumeType DEF Proceed, Consume
<1>4. /\ DOMAIN ep' = Roles /\ \A q \in Roles : ep'[q] \in States(q)
      /\ closed' \in [Roles -> BOOLEAN]
  BY StoreType, GiveUpType DEF Proceed, TypeOK
<1>5. UNCHANGED <<starts, sends, got, damages>>
  BY DEF Proceed, Consume
<1> QED
  BY <1>2, <1>3, <1>4, <1>5 DEF TypeOK

\* A handler that returns Err keeps the types.
LEMMA RefuseType ==
  ASSUME TypeOK, NEW p \in Roles, Unread(p), NEW out \in Seq(Units), Refuse(p, out)
  PROVE  TypeOK'
<1>1. PICK units \in Seq(Units) : Write(p, units)
  BY CutsType DEF Refuse
<1>2. /\ wire' \in [Roles -> Seq(Units)]
      /\ \A q \in Roles : Len(wire'[q]) >= Len(wire[q])
  BY <1>1, WriteType
<1>3. rd' \in [Roles -> Nat] /\ \A q \in Roles : rd'[q] <= Len(wire'[Peer(q)])
  BY <1>2, ConsumeType DEF Refuse, Consume
<1>4. /\ DOMAIN ep' = Roles /\ \A q \in Roles : ep'[q] \in States(q)
      /\ closed' \in [Roles -> BOOLEAN]
  BY GiveUpType DEF Refuse
<1>5. UNCHANGED <<starts, sends, got, damages>>
  BY DEF Refuse, Consume
<1> QED
  BY <1>2, <1>3, <1>4, <1>5 DEF TypeOK

-----------------------------------------------------------------------------
\* The variant an endpoint is in, and the message it has received, by their tags.

\* The client's variant tells which fields its struct has.
LEMMA ClientVariant ==
  ASSUME TypeOK
  PROVE  LET c == ep["client"]
         IN  /\ c.st = "WaitingForProtoVersion" => c \in ClientAtProtoVersion
             /\ c.st = "WaitingForServerKexInit" => c \in ClientAtKexInit
             /\ c.st = "WaitingForKexReply" => c \in ClientAtKexReply
             /\ c.st = "WaitingForNewKeys" => c \in ClientAtNewKeys
             /\ c.st = "Ready" => c \in AtReady
<1>1. ep["client"] \in States("client")
  BY DEF TypeOK, Roles
<1> QED
  BY <1>1 DEF States, AtReady, Failed, ClientAtProtoVersion, ClientAtKexInit,
              ClientAtKexReply, ClientAtNewKeys

\* The server's variant tells which fields its struct has.
LEMMA ServerVariant ==
  ASSUME TypeOK
  PROVE  LET s == ep["server"]
         IN  /\ s.st = "WaitingForProtoVersion" => s \in ServerAtProtoVersion
             /\ s.st = "WaitingForClientKexInit" => s \in ServerAtKexInit
             /\ s.st = "WaitingForKexDhInit" => s \in ServerAtKexDhInit
             /\ s.st = "WaitingForNewKeys" => s \in ServerAtNewKeys
             /\ s.st = "Ready" => s \in AtReady
<1>1. ep["server"] \in States("server")
  BY DEF TypeOK, Roles
<1> QED
  BY <1>1 DEF States, AtReady, Failed, ServerAtProtoVersion, ServerAtKexInit,
              ServerAtKexDhInit, ServerAtNewKeys

\* A message's type tells which fields it has.
LEMMA MessageVariant ==
  ASSUME NEW msg \in Messages
  PROVE  /\ msg.type = "ID" => msg.text \in Ids
         /\ msg.type = "KEXINIT" => msg \in KexInits
         /\ msg.type = "KEXDH_INIT" => msg.e \in Nat
         /\ msg.type = "KEXDH_REPLY" =>
              msg.k_s \in HostKeys /\ msg.f \in Nat /\ msg.signature \in Signatures
BY DEF Messages, KexInits, NewKeys, Garbage

-----------------------------------------------------------------------------
\* Every action keeps the types.

\* Client::new and Server::new, on an empty stream, have their types.
LEMMA InitType == Init => TypeOK
<1> SUFFICES ASSUME Init PROVE TypeOK
  OBVIOUS
<1>1. PICK host_key \in HostKeys :
        ep = [client |-> [st |-> "WaitingForProtoVersion", client_id |-> OwnId["client"]],
              server |-> [st |-> "WaitingForProtoVersion", server_id |-> OwnId["server"],
                          host_key |-> host_key]]
  BY DEF Init
<1>2. OwnId["client"] \in Ids /\ OwnId["server"] \in Ids
  BY TransportAssumption DEF Roles
<1>3. DOMAIN ep = Roles
  BY <1>1 DEF Roles
<1>4. ep["client"] \in States("client") /\ ep["server"] \in States("server")
  BY <1>1, <1>2 DEF States, ClientAtProtoVersion, ServerAtProtoVersion
<1>5. \A p \in Roles : ep[p] \in States(p)
  BY <1>4 DEF Roles
<1>6. wire \in [Roles -> Seq(Units)] /\ \A p \in Roles : rd[p] <= Len(wire[Peer(p)])
  BY DEF Init, Peer, Roles
<1> QED
  BY <1>3, <1>5, <1>6 DEF Init, TypeOK

\* An identification line is something a stream can carry.
LEMMA LineType ==
  ASSUME NEW p \in Roles
  PROVE  <<Line(p)>> \in Seq(Units)
<1>1. IdLine(OwnId[p]) \in Messages
  BY TransportAssumption DEF IdLine, Messages
<1> QED
  BY <1>1, CodecTypes, BuildType DEF Line

\* Client::start keeps the types.
LEMMA StartType ==
  ASSUME TypeOK, Start
  PROVE  TypeOK'
<1>1. "client" \in Roles
  BY DEF Roles
<1>2. PICK units \in Seq(Units) : Write("client", units)
  BY <1>1, LineType, CutsType DEF Start, StartOk, StartErr
<1>3. /\ wire' \in [Roles -> Seq(Units)]
      /\ \A q \in Roles : Len(wire'[q]) >= Len(wire[q])
  BY <1>1, <1>2, WriteType
<1>4. closed' \in [Roles -> BOOLEAN]
  BY DEF TypeOK, Start, StartOk, StartErr
<1>5. \A q \in Roles : rd[q] <= Len(wire'[Peer(q)])
  <2> TAKE q \in Roles
  <2>1. Peer(q) \in Roles
    BY DEF Peer, Roles
  <2>2. wire[Peer(q)] \in Seq(Units) /\ rd[q] \in Nat /\ rd[q] <= Len(wire[Peer(q)])
    BY <2>1 DEF TypeOK
  <2>3. wire'[Peer(q)] \in Seq(Units) /\ Len(wire'[Peer(q)]) >= Len(wire[Peer(q)])
    BY <1>3, <2>1
  <2> QED
    BY <2>2, <2>3
<1>6. starts' \in Nat
  BY DEF TypeOK, Start
<1>7. UNCHANGED <<ep, rd, sends, got, damages>>
  BY DEF Start
<1> QED
  BY <1>3, <1>4, <1>5, <1>6, <1>7 DEF TypeOK

\* Writing nothing is writing a sequence of units.
LEMMA EmptyType == <<>> \in Seq(Units)
OBVIOUS

\* An endpoint's own KEXINIT is a message (KexInit::default_transport).
LEMMA KexInitType ==
  ASSUME NEW p \in Roles, NEW cookie \in Cookies, NEW offer \in OwnOffers[p]
  PROVE  KexInit(cookie, offer) \in KexInits /\ KexInit(cookie, offer) \in Messages
BY TransportAssumption DEF KexInit, KexInits, Messages

\* The client's receive_proto_version keeps the types.
LEMMA ClientReceiveProtoVersionType ==
  ASSUME TypeOK, ClientReceiveProtoVersion
  PROVE  TypeOK'
<1> DEFINE c == ep["client"]
           msg == NextUnit("client").msg
<1>1. "client" \in Roles /\ Unread("client")
  BY DEF Roles, ClientReceiveProtoVersion, At, Readable
<1>2. c \in ClientAtProtoVersion /\ msg \in Messages
  BY <1>1, ClientVariant, NextUnitType DEF ClientReceiveProtoVersion, At
<1>3. CASE Refuse("client", <<>>)
  BY <1>1, <1>3, EmptyType, RefuseType
<1>4. ASSUME ReceivedLine("client"), NEW kexinit \in KexInits,
             Proceed("client", ClientAfterProtoVersion(c, msg, kexinit),
                     <<Build(Naked, 0, kexinit)>>)
      PROVE  TypeOK'
  <2>1. msg.text \in Ids /\ kexinit \in Messages
    BY <1>2, <1>4, MessageVariant DEF ReceivedLine, Messages
  <2>2. ClientAfterProtoVersion(c, msg, kexinit) \in States("client")
    BY <1>2, <2>1, SeqAddType, CodecTypes
    DEF States, ClientAtKexInit, ClientAtProtoVersion, ClientAfterProtoVersion
  <2>3. <<Build(Naked, 0, kexinit)>> \in Seq(Units)
    BY <2>1, CodecTypes, BuildType
  <2> QED
    BY <1>1, <1>4, <2>2, <2>3, ProceedType
<1> QED
  BY <1>1, <1>3, <1>4, KexInitType DEF ClientReceiveProtoVersion

\* A DH secret is a natural number (generate_secret_key).
LEMMA SecretType ==
  ASSUME NEW kex \in KexNames, NEW secret \in DhSecrets(kex)
  PROVE  secret \in Nat
<1>1. DhOrder(kex) \in Int
  BY PrimeAssumption DEF DhOrder, Generator
<1> QED
  BY <1>1 DEF DhSecrets

\* The key exchange a selection names is one the program has.
LEMMA NegotiatedKex ==
  ASSUME NEW neg \in Negotiated
  PROVE  neg["kex"] \in KexNames
BY DEF Negotiated, Slots, Known

\* receive_server_kexinit keeps the types.
LEMMA ClientReceiveServerKexinitType ==
  ASSUME TypeOK, ClientReceiveServerKexinit
  PROVE  TypeOK'
<1> DEFINE c == ep["client"]
           msg == NextUnit("client").msg
           neg == client_negotiate(c.client_kexinit.offer, msg.offer)
           kex == neg["kex"]
<1>1. "client" \in Roles /\ Unread("client")
  BY DEF Roles, ClientReceiveServerKexinit, At, Readable
<1>2. c \in ClientAtKexInit /\ msg \in Messages
  BY <1>1, ClientVariant, NextUnitType DEF ClientReceiveServerKexinit, At
<1>3. CASE Refuse("client", <<>>)
  BY <1>1, <1>3, EmptyType, RefuseType
<1>4. ASSUME Received("client", "KEXINIT"),
             Negotiable(c.client_kexinit.offer, msg.offer),
             NEW secret \in DhSecrets(kex),
             Proceed("client", ClientAfterKexInit(c, msg, neg, secret),
                     <<Build(c.encoder, c.send_seq, KexDhInit(PublicValue(kex, secret)))>>)
      PROVE  TypeOK'
  <2>1. msg \in KexInits
    BY <1>2, <1>4, MessageVariant DEF Received
  <2>2. neg \in Negotiated /\ kex \in KexNames
    BY <1>4, NegotiatedType, NegotiatedKex
  <2> HIDE DEF kex
  <2>3. secret \in Nat /\ PublicValue(kex, secret) \in Nat
    BY <1>4, <2>2, SecretType, DhType
  <2>4. /\ Advance(c.encoder) \in Codecs /\ Advance(c.decoder) \in Codecs
        /\ SeqAdd(c.send_seq, 1) \in Nat /\ SeqAdd(c.recv_seq, 1) \in Nat
    BY <1>2, CodecTypes, SeqAddType DEF ClientAtKexInit
  <2>5. ClientAfterKexInit(c, msg, neg, secret) \in States("client")
    <3> HIDE DEF c, msg, neg
    <3>1. ClientAfterKexInit(c, msg, neg, secret) \in ClientAtKexReply
      BY <1>2, <2>1, <2>2, <2>3, <2>4
      DEF ClientAtKexInit, ClientAtKexReply, ClientAfterKexInit, kex
    <3> QED
      BY <3>1 DEF States
  <2>6. <<Build(c.encoder, c.send_seq, KexDhInit(PublicValue(kex, secret)))>> \in Seq(Units)
    <3>1. KexDhInit(PublicValue(kex, secret)) \in Messages
      BY <2>3 DEF KexDhInit, Messages
    <3> QED
      BY <1>2, <3>1, BuildType DEF ClientAtKexInit
  <2> QED
    BY <1>1, <1>4, <2>5, <2>6, ProceedType
<1> QED
  BY <1>1, <1>3, <1>4 DEF ClientReceiveServerKexinit

\* The hash both ends compute is a hash whenever its fields have their types.
LEMMA HashType ==
  ASSUME NEW kex, NEW v_c \in Ids, NEW v_s \in Ids, NEW i_c \in KexInits, NEW i_s \in KexInits,
         NEW k_s \in HostKeys, NEW e \in Nat, NEW f \in Nat, NEW k \in Nat
  PROVE  ExchangeHash(kex, v_c, v_s, i_c, i_s, k_s, e, f, k) \in Hashes
BY DEF ExchangeHash, HashLen, Hashes

\* Both ends' pending codecs are codecs.
LEMMA PendingType ==
  ASSUME NEW p \in Roles, NEW neg \in Negotiated, NEW k \in Nat, NEW hash \in Hashes
  PROVE  PendingEncoder(p, neg, k, hash) \in Codecs /\ PendingDecoder(p, neg, k, hash) \in Codecs
<1>1. EncoderDir(p) \in {"c2s", "s2c"} /\ EncoderDir(Peer(p)) \in {"c2s", "s2c"}
  BY DEF EncoderDir
<1> QED
  BY <1>1, DerivedKeyType, CodecTypes DEF PendingEncoder, PendingDecoder

\* receive_kex_reply keeps the types.
LEMMA ClientReceiveKexReplyType ==
  ASSUME TypeOK, ClientReceiveKexReply
  PROVE  TypeOK'
<1> DEFINE c == ep["client"]
           msg == NextUnit("client").msg
<1>1. "client" \in Roles /\ Unread("client")
  BY DEF Roles, ClientReceiveKexReply, At, Readable
<1>2. c \in ClientAtKexReply /\ msg \in Messages
  BY <1>1, ClientVariant, NextUnitType DEF ClientReceiveKexReply, At
<1>3. CASE Refuse("client", <<>>)
  BY <1>1, <1>3, EmptyType, RefuseType
<1>4. ASSUME Received("client", "KEXDH_REPLY"),
             Proceed("client", ClientAfterKexReply(c, msg),
                     <<Build(c.encoder, c.send_seq, NewKeys)>>)
      PROVE  TypeOK'
  <2>1. msg.k_s \in HostKeys /\ msg.f \in Nat
    BY <1>2, <1>4, MessageVariant DEF Received
  <2>2. c.negotiated \in Negotiated /\ c.negotiated["kex"] \in KexNames
    BY <1>2, NegotiatedKex DEF ClientAtKexReply
  <2>3. ClientSharedKey(c, msg) \in Nat
    BY <1>2, <2>1, <2>2, DhType DEF ClientSharedKey, ClientAtKexReply
  <2>4. ClientHash(c, msg) \in Hashes
    BY <1>2, <2>1, <2>3, HashType DEF ClientHash, ClientAtKexReply
  <2>5. /\ Advance(c.decoder) \in Codecs
        /\ SeqAdd(c.send_seq, 1) \in Nat /\ SeqAdd(c.recv_seq, 1) \in Nat
    BY <1>2, CodecTypes, SeqAddType DEF ClientAtKexReply
  <2>6. /\ PendingEncoder("client", c.negotiated, ClientSharedKey(c, msg), ClientHash(c, msg)) \in Codecs
        /\ PendingDecoder("client", c.negotiated, ClientSharedKey(c, msg), ClientHash(c, msg)) \in Codecs
    BY <1>1, <2>2, <2>3, <2>4, PendingType
  <2>7. ClientAfterKexReply(c, msg) \in States("client")
    <3> HIDE DEF c, msg
    <3>1. ClientAfterKexReply(c, msg) \in ClientAtNewKeys
      BY <2>4, <2>5, <2>6 DEF ClientAfterKexReply, ClientAtNewKeys
    <3> QED
      BY <3>1 DEF States
  <2>8. <<Build(c.encoder, c.send_seq, NewKeys)>> \in Seq(Units)
    <3>1. NewKeys \in Messages
      BY DEF Messages
    <3> QED
      BY <1>2, <3>1, BuildType DEF ClientAtKexReply
  <2> QED
    BY <1>1, <1>4, <2>7, <2>8, ProceedType
<1> QED
  BY <1>1, <1>3, <1>4 DEF ClientReceiveKexReply

\* The server's receive_proto_version keeps the types.
LEMMA ServerReceiveProtoVersionType ==
  ASSUME TypeOK, ServerReceiveProtoVersion
  PROVE  TypeOK'
<1> DEFINE s == ep["server"]
           msg == NextUnit("server").msg
<1>1. "server" \in Roles /\ Unread("server")
  BY DEF Roles, ServerReceiveProtoVersion, At, Readable
<1>2. s \in ServerAtProtoVersion /\ msg \in Messages
  BY <1>1, ServerVariant, NextUnitType DEF ServerReceiveProtoVersion, At
<1>3. CASE Refuse("server", <<>>)
  BY <1>1, <1>3, EmptyType, RefuseType
<1>4. CASE /\ ReceivedLine("server")
           /\ Proceed("server", ServerAfterProtoVersion(s, msg), <<Line("server")>>)
  <2>1. msg.text \in Ids
    BY <1>2, <1>4, MessageVariant DEF ReceivedLine
  <2>2. ServerAfterProtoVersion(s, msg) \in States("server")
    BY <1>2, <2>1, CodecTypes
    DEF States, ServerAtKexInit, ServerAtProtoVersion, ServerAfterProtoVersion
  <2> QED
    BY <1>1, <1>4, <2>2, LineType, ProceedType
<1> QED
  BY <1>1, <1>3, <1>4 DEF ServerReceiveProtoVersion

\* receive_client_kexinit keeps the types.
LEMMA ServerReceiveClientKexinitType ==
  ASSUME TypeOK, ServerReceiveClientKexinit
  PROVE  TypeOK'
<1> DEFINE s == ep["server"]
           msg == NextUnit("server").msg
<1>1. "server" \in Roles /\ Unread("server")
  BY DEF Roles, ServerReceiveClientKexinit, At, Readable
<1>2. s \in ServerAtKexInit /\ msg \in Messages
  BY <1>1, ServerVariant, NextUnitType DEF ServerReceiveClientKexinit, At
<1>3. CASE Refuse("server", <<>>)
  BY <1>1, <1>3, EmptyType, RefuseType
<1>4. ASSUME Received("server", "KEXINIT"),
             NEW cookie \in Cookies, NEW offer \in OwnOffers["server"],
             LET kexinit == KexInit(cookie, offer)
                 out == <<Build(s.encoder, s.send_seq, kexinit)>>
             IN  \/ ~Negotiable(msg.offer, offer) /\ Refuse("server", out)
                 \/ /\ Negotiable(msg.offer, offer)
                    /\ Proceed("server", ServerAfterKexInit(s, msg, kexinit), out)
      PROVE  TypeOK'
  <2> DEFINE kexinit == KexInit(cookie, offer)
             out == <<Build(s.encoder, s.send_seq, kexinit)>>
  <2>1. msg \in KexInits /\ kexinit \in KexInits /\ kexinit.offer = offer
    BY <1>1, <1>2, <1>4, MessageVariant, KexInitType DEF Received, KexInit
  <2>2. out \in Seq(Units)
    BY <1>1, <1>2, <1>4, KexInitType, BuildType DEF ServerAtKexInit
  <2>3. CASE Refuse("server", out)
    BY <1>1, <2>2, <2>3, RefuseType
  <2>4. CASE /\ Negotiable(msg.offer, offer)
             /\ Proceed("server", ServerAfterKexInit(s, msg, kexinit), out)
    <3>1. server_negotiate(msg.offer, kexinit.offer) \in Negotiated
      BY <2>1, <2>4, NegotiatedType DEF server_negotiate
    <3>2. /\ Advance(s.encoder) \in Codecs /\ Advance(s.decoder) \in Codecs
          /\ SeqAdd(s.send_seq, 1) \in Nat /\ SeqAdd(s.recv_seq, 1) \in Nat
      BY <1>2, CodecTypes, SeqAddType DEF ServerAtKexInit
    <3>3. ServerAfterKexInit(s, msg, kexinit) \in ServerAtKexDhInit
      <4> HIDE DEF s, msg, kexinit
      <4> QED
        BY <1>2, <2>1, <3>1, <3>2 DEF ServerAfterKexInit, ServerAtKexInit, ServerAtKexDhInit
    <3>4. ServerAfterKexInit(s, msg, kexinit) \in States("server")
      BY <3>3 DEF States
    <3> HIDE DEF out
    <3> QED
      BY <1>1, <2>2, <2>4, <3>4, ProceedType
  <2> QED
    BY <1>4, <2>3, <2>4
<1> QED
  BY <1>1, <1>3, <1>4 DEF ServerReceiveClientKexinit

\* The server's KEXDH_REPLY is a message.
LEMMA ServerReplyType ==
  ASSUME NEW s \in ServerAtKexDhInit, NEW e \in Nat,
         NEW secret \in DhSecrets(s.negotiated["kex"])
  PROVE  /\ ServerSharedKey(s, e, secret) \in Nat
         /\ ServerHash(s, e, secret) \in Hashes
         /\ ServerReply(s, e, secret) \in Messages
<1> DEFINE kex == s.negotiated["kex"]
<1>1. s.negotiated \in Negotiated /\ kex \in KexNames
  BY NegotiatedKex DEF ServerAtKexDhInit
<1>2. PublicValue(kex, secret) \in Nat /\ ServerSharedKey(s, e, secret) \in Nat
  BY <1>1, SecretType, DhType DEF ServerSharedKey
<1>3. ServerHash(s, e, secret) \in Hashes
  BY <1>2, HashType DEF ServerHash, ServerAtKexDhInit
<1>4. s.host_key \in HostKeys
  BY DEF ServerAtKexDhInit
<1>5. Sign(s.host_key, ServerHash(s, e, secret)) \in Signatures
  BY <1>3, <1>4 DEF Sign, Signatures
<1> QED
  BY <1>2, <1>3, <1>4, <1>5 DEF ServerReply, KexDhReply, Messages

\* receive_kexdh_init keeps the types.
LEMMA ServerReceiveKexdhInitType ==
  ASSUME TypeOK, ServerReceiveKexdhInit
  PROVE  TypeOK'
<1> DEFINE s == ep["server"]
           msg == NextUnit("server").msg
<1>1. "server" \in Roles /\ Unread("server")
  BY DEF Roles, ServerReceiveKexdhInit, At, Readable
<1>2. s \in ServerAtKexDhInit /\ msg \in Messages
  BY <1>1, ServerVariant, NextUnitType DEF ServerReceiveKexdhInit, At
<1>3. CASE Refuse("server", <<>>)
  BY <1>1, <1>3, EmptyType, RefuseType
<1>4. ASSUME Received("server", "KEXDH_INIT"),
             NEW secret \in DhSecrets(s.negotiated["kex"]),
             Proceed("server", ServerAfterKexDhInit(s, msg.e, secret),
               <<Build(s.encoder, s.send_seq, ServerReply(s, msg.e, secret)),
                 Build(Advance(s.encoder), SeqAdd(s.send_seq, 1), NewKeys)>>)
      PROVE  TypeOK'
  <2> DEFINE k == ServerSharedKey(s, msg.e, secret)
             hash == ServerHash(s, msg.e, secret)
             reply == Build(s.encoder, s.send_seq, ServerReply(s, msg.e, secret))
             newkeys == Build(Advance(s.encoder), SeqAdd(s.send_seq, 1), NewKeys)
  <2>1. msg.e \in Nat
    BY <1>2, <1>4, MessageVariant DEF Received
  <2>2. k \in Nat /\ hash \in Hashes /\ ServerReply(s, msg.e, secret) \in Messages
    BY <1>2, <1>4, <2>1, ServerReplyType
  <2>3. /\ Advance(s.encoder) \in Codecs /\ Advance(Advance(s.encoder)) \in Codecs
        /\ Advance(s.decoder) \in Codecs
        /\ SeqAdd(s.send_seq, 1) \in Nat /\ SeqAdd(s.send_seq, 2) \in Nat
        /\ SeqAdd(s.recv_seq, 1) \in Nat
    BY <1>2, CodecTypes, SeqAddType DEF ServerAtKexDhInit
  <2>4. /\ PendingEncoder("server", s.negotiated, k, hash) \in Codecs
        /\ PendingDecoder("server", s.negotiated, k, hash) \in Codecs
    BY <1>1, <1>2, <2>2, PendingType DEF ServerAtKexDhInit
  <2>5. ServerAfterKexDhInit(s, msg.e, secret) \in States("server")
    <3>1. ServerAfterKexDhInit(s, msg.e, secret) \in ServerAtNewKeys
      <4> HIDE DEF s, msg
      <4> QED
        BY <2>2, <2>3, <2>4 DEF ServerAfterKexDhInit, ServerAtNewKeys
    <3> QED
      BY <3>1 DEF States
  <2>6. reply \in Units /\ newkeys \in Units
    <3>1. NewKeys \in Messages
      BY DEF Messages
    <3> QED
      BY <1>2, <2>2, <2>3, <3>1, BuildType DEF ServerAtKexDhInit
  <2>7. <<reply, newkeys>> \in Seq(Units)
    BY <2>6
  <2>8. Proceed("server", ServerAfterKexDhInit(s, msg.e, secret), <<reply, newkeys>>)
    BY <1>4
  <2> HIDE DEF reply, newkeys
  <2> QED
    BY <1>1, <2>5, <2>7, <2>8, ProceedType
<1> QED
  BY <1>1, <1>3, <1>4 DEF ServerReceiveKexdhInit

\* receive_newkeys keeps the types at either end.
LEMMA ReceiveNewkeysType ==
  ASSUME TypeOK, NEW p \in Roles, ReceiveNewkeys(p)
  PROVE  TypeOK'
<1>1. Unread(p)
  BY DEF ReceiveNewkeys, At, Readable
<1>2. CASE Refuse(p, <<>>)
  BY <1>1, <1>2, EmptyType, RefuseType
<1>3. CASE Proceed(p, AfterNewKeys(ep[p]), <<>>)
  <2>1. ep[p] \in ClientAtNewKeys \cup ServerAtNewKeys
    BY ClientVariant, ServerVariant DEF ReceiveNewkeys, At, Roles
  <2>2. SeqAdd(ep[p].recv_seq, 1) \in Nat
    BY <2>1, SeqAddType DEF ClientAtNewKeys, ServerAtNewKeys
  <2>3. AfterNewKeys(ep[p]) \in AtReady
    BY <2>1, <2>2 DEF AfterNewKeys, ClientAtNewKeys, ServerAtNewKeys, AtReady
  <2>4. AfterNewKeys(ep[p]) \in States(p)
    BY <2>3 DEF States
  <2> QED
    BY <1>1, <1>3, <2>4, EmptyType, ProceedType
<1> QED
  BY <1>2, <1>3 DEF ReceiveNewkeys

\* A handler whose read fails keeps the types.
LEMMA AbandonType ==
  ASSUME TypeOK, NEW p \in Roles, GiveUp(p),
         UNCHANGED <<wire, rd, starts, sends, got, damages>>
  PROVE  TypeOK'
BY GiveUpType DEF TypeOK

\* An endpoint that is Ready has an AtReady state.
LEMMA ReadyVariant ==
  ASSUME TypeOK, NEW p \in Roles, Open(p)
  PROVE  ep[p] \in AtReady
BY ClientVariant, ServerVariant DEF Open, Roles

\* send_packet keeps the types, whether it returns Ok or Err.
LEMMA SendPacketType ==
  ASSUME TypeOK, NEW p \in Roles, SendPacket(p)
  PROVE  TypeOK'
<1> DEFINE x == ep[p]
           unit == Build(x.encoder, x.send_seq, Payload(Len(sends[p]) + 1))
<1>1. x \in AtReady
  BY ReadyVariant DEF SendPacket
<1>2. unit \in Units
  <2>1. Len(sends[p]) \in Nat
    BY DEF TypeOK
  <2>2. Payload(Len(sends[p]) + 1) \in Messages
    BY <2>1 DEF Payload, Messages
  <2> QED
    BY <1>1, <2>2, BuildType DEF AtReady
<1>3. PICK units \in Seq(Units) : Write(p, units)
  <2>1. <<unit>> \in Seq(Units)
    BY <1>2
  <2> QED
    BY <2>1, CutsType DEF SendPacket
<1>4. /\ wire' \in [Roles -> Seq(Units)]
      /\ \A q \in Roles : Len(wire'[q]) >= Len(wire[q])
  BY <1>3, WriteType
<1>5. \A q \in Roles : rd'[q] <= Len(wire'[Peer(q)])
  <2> TAKE q \in Roles
  <2>1. Peer(q) \in Roles
    BY DEF Peer, Roles
  <2>2. wire[Peer(q)] \in Seq(Units) /\ rd[q] \in Nat /\ rd[q] <= Len(wire[Peer(q)])
    BY <2>1 DEF TypeOK
  <2>3. wire'[Peer(q)] \in Seq(Units) /\ Len(wire'[Peer(q)]) >= Len(wire[Peer(q)])
    BY <1>4, <2>1
  <2>4. rd' = rd
    BY DEF SendPacket
  <2> QED
    BY <2>2, <2>3, <2>4
<1>6. Advance(x.encoder) \in Codecs /\ SeqAdd(x.send_seq, 1) \in Nat
  BY <1>1, CodecTypes, SeqAddType DEF AtReady
<1>7. PICK next \in AtReady : ep' = [ep EXCEPT ![p] = next]
  <2> DEFINE ok == [x EXCEPT !.encoder = Advance(x.encoder),
                             !.send_seq = SeqAdd(x.send_seq, 1)]
             err == [x EXCEPT !.encoder = Advance(x.encoder)]
  <2>1. ok \in AtReady /\ err \in AtReady
    BY <1>1, <1>6 DEF AtReady
  <2>2. ep' = [ep EXCEPT ![p] = ok] \/ ep' = [ep EXCEPT ![p] = err]
    BY DEF SendPacket
  <2> QED
    BY <2>1, <2>2
<1>8. DOMAIN ep' = Roles /\ \A q \in Roles : ep'[q] \in States(q)
  <2>1. next \in States(p)
    BY <1>7 DEF States
  <2> QED
    BY <1>7, <2>1, StoreType
<1>9. sends' \in [Roles -> Seq(BOOLEAN)]
  <2>1. Append(sends[p], TRUE) \in Seq(BOOLEAN) /\ Append(sends[p], FALSE) \in Seq(BOOLEAN)
    BY DEF TypeOK
  <2> QED
    BY <2>1 DEF TypeOK, SendPacket
<1>10. UNCHANGED <<rd, closed, starts, got, damages>>
  BY DEF SendPacket
<1> QED
  BY <1>4, <1>5, <1>8, <1>9, <1>10 DEF TypeOK

\* read_packet keeps the types, whether the packet decodes or not.
LEMMA ReadPacketType ==
  ASSUME TypeOK, NEW p \in Roles, ReadPacket(p)
  PROVE  TypeOK'
<1> DEFINE x == ep[p]
           unit == NextUnit(p)
<1>1. x \in AtReady /\ Unread(p)
  BY ReadyVariant DEF ReadPacket, Readable
<1>2. unit.msg \in Messages
  BY <1>1, NextUnitType
<1>3. PICK next \in AtReady : ep' = [ep EXCEPT ![p] = next]
  <2>1. CASE ep' = [ep EXCEPT ![p].decoder = Advance(x.decoder),
                              ![p].recv_seq = SeqAdd(x.recv_seq, 1)]
    <3> DEFINE ok == [x EXCEPT !.decoder = Advance(x.decoder),
                               !.recv_seq = SeqAdd(x.recv_seq, 1)]
    <3>1. ok \in AtReady
      BY <1>1, CodecTypes, SeqAddType DEF AtReady
    <3> QED
      BY <2>1, <3>1
  <2>2. ASSUME NEW decoder \in AfterError(x.decoder, unit), ep' = [ep EXCEPT ![p].decoder = decoder]
        PROVE  \E next \in AtReady : ep' = [ep EXCEPT ![p] = next]
    <3>1. [x EXCEPT !.decoder = decoder] \in AtReady
      BY <1>1, AfterErrorType DEF AtReady
    <3> QED
      BY <2>2, <3>1
  <2> QED
    BY <2>1, <2>2 DEF ReadPacket
<1>4. DOMAIN ep' = Roles /\ \A q \in Roles : ep'[q] \in States(q)
  <2>1. next \in States(p)
    BY <1>3 DEF States
  <2> QED
    BY <1>3, <2>1, StoreType
<1>5. got' \in [Roles -> Seq(Messages)]
  <2>1. Append(got[p], unit.msg) \in Seq(Messages)
    BY <1>2 DEF TypeOK
  <2> QED
    BY <2>1 DEF TypeOK, ReadPacket
<1>6. wire' = wire /\ rd' = [rd EXCEPT ![p] = @ + 1] /\ UNCHANGED <<closed, starts, sends, damages>>
  BY DEF ReadPacket
<1>7. \A q \in Roles : Len(wire'[q]) >= Len(wire[q])
  BY <1>6 DEF TypeOK
<1>8. rd' \in [Roles -> Nat] /\ \A q \in Roles : rd'[q] <= Len(wire'[Peer(q)])
  BY <1>1, <1>6, <1>7, ConsumeType DEF TypeOK
<1> QED
  BY <1>4, <1>5, <1>6, <1>8 DEF TypeOK

\* read_packet keeps the types when the read itself fails.
LEMMA ReadPacketErrorType ==
  ASSUME TypeOK, NEW p \in Roles, ReadPacketError(p)
  PROVE  TypeOK'
<1> DEFINE x == ep[p]
           next == [x EXCEPT !.decoder = [x.decoder EXCEPT !.aligned = FALSE]]
<1>1. x \in AtReady /\ Unread(p)
  BY ReadyVariant DEF ReadPacketError
<1>2. [x.decoder EXCEPT !.aligned = FALSE] \in Codecs
  BY <1>1 DEF AtReady, Codecs
<1>3. next \in States(p) /\ ep' = [ep EXCEPT ![p] = next]
  BY <1>1, <1>2 DEF AtReady, States, ReadPacketError
<1>4. DOMAIN ep' = Roles /\ \A q \in Roles : ep'[q] \in States(q)
  <2> HIDE DEF next
  <2> QED
    BY <1>3, StoreType
<1>5. wire' = wire /\ rd' = [rd EXCEPT ![p] = @ + 1] /\ UNCHANGED <<closed, starts, sends, got, damages>>
  BY DEF ReadPacketError
<1>6. \A q \in Roles : Len(wire'[q]) >= Len(wire[q])
  BY <1>5 DEF TypeOK
<1>7. rd' \in [Roles -> Nat] /\ \A q \in Roles : rd'[q] <= Len(wire'[Peer(q)])
  BY <1>1, <1>5, <1>6, ConsumeType DEF TypeOK
<1> QED
  BY <1>4, <1>5, <1>7 DEF TypeOK

\* Dropping the stream keeps the types.
LEMMA CloseType ==
  ASSUME TypeOK, NEW p \in Roles, Close(p)
  PROVE  TypeOK'
BY DEF Close, TypeOK

\* Damage replaces one unit of a wire by another.
LEMMA DamageType ==
  ASSUME TypeOK, NEW p \in Roles, Damage(p)
  PROVE  TypeOK'
<1> DEFINE q == Peer(p)
           i == rd[p] + 1
<1>1. Unread(p) /\ q \in Roles /\ i \in 1 .. Len(wire[q]) /\ NextUnit(p) \in Units
      /\ NextUnit(p).msg \in Messages
  BY NextUnitType DEF Damage
<1>2. PICK unit \in Damaged(NextUnit(p)) : wire' = [wire EXCEPT ![q][i] = unit]
  BY DEF Damage
<1>3. unit \in Units
  <2>1. ASSUME NEW m \in Garbled(NextUnit(p).msg)
        PROVE  [NextUnit(p) EXCEPT !.msg = m] \in Units
    BY <1>1, <2>1, GarbledType DEF Units
  <2>2. [NextUnit(p) EXCEPT !.form = "damaged"] \in Units
    BY <1>1 DEF Units
  <2> QED
    BY <1>2, <2>1, <2>2 DEF Damaged
<1> HIDE DEF q, i
<1>4. [wire[q] EXCEPT ![i] = unit] \in Seq(Units)
      /\ Len([wire[q] EXCEPT ![i] = unit]) = Len(wire[q])
  <2>1. wire[q] \in Seq(Units)
    BY <1>1 DEF TypeOK
  <2> QED
    BY <1>1, <1>3, <2>1
<1>5. wire' \in [Roles -> Seq(Units)]
  BY <1>1, <1>2, <1>4 DEF TypeOK
<1>6. \A r \in Roles : Len(wire'[r]) = Len(wire[r])
  BY <1>1, <1>2, <1>4 DEF TypeOK
<1>7. \A r \in Roles : rd[r] <= Len(wire'[Peer(r)])
  <2>1. \A r \in Roles : Peer(r) \in Roles
    BY DEF Peer, Roles
  <2> QED
    BY <1>6, <2>1 DEF TypeOK
<1>8. damages' \in Nat /\ UNCHANGED <<ep, rd, closed, starts, sends, got>>
  BY DEF Damage, TypeOK
<1> QED
  BY <1>5, <1>7, <1>8 DEF TypeOK

\* Every step keeps the types.
LEMMA NextType ==
  ASSUME TypeOK, [Next]_vars
  PROVE  TypeOK'
<1>1. CASE UNCHANGED vars
  BY <1>1 DEF vars, TypeOK, Peer
<1>2. CASE Start
  BY <1>2, StartType
<1>3. CASE ClientReceive
  BY <1>3, ClientReceiveProtoVersionType, ClientReceiveServerKexinitType,
     ClientReceiveKexReplyType, ReceiveNewkeysType, AbandonType
  DEF ClientReceive, Hangup, Roles
<1>4. CASE ServerReceive
  BY <1>4, ServerReceiveProtoVersionType, ServerReceiveClientKexinitType,
     ServerReceiveKexdhInitType, ReceiveNewkeysType, AbandonType
  DEF ServerReceive, Hangup, Roles
<1>5. ASSUME NEW p \in Roles, Ready(p) \/ ReadError(p) \/ Damage(p)
      PROVE  TypeOK'
  BY <1>5, SendPacketType, ReadPacketType, ReadPacketErrorType, CloseType,
     AbandonType, DamageType DEF Ready, ReadError
<1> QED
  BY <1>1, <1>2, <1>3, <1>4, <1>5 DEF Next

\* Type correctness: in every execution every variable has its type, so no
\* handler reads a field that the variant it matched on does not have.
THEOREM TypeCorrect == Spec => []TypeOK
BY InitType, NextType, PTL DEF Spec

-----------------------------------------------------------------------------
\* SessionAgreement.  Most steps are quiet: they put no new signature on the
\* wire and leave each endpoint as it is, Failed, or with the same session.

QuietWire ==
  \A i \in 1 .. Len(wire'["server"]) : Signed(wire'["server"][i].msg) =>
    \E j \in 1 .. Len(wire["server"]) :
      /\ Signed(wire["server"][j].msg)
      /\ wire["server"][j].msg.signature = wire'["server"][i].msg.signature

QuietEndpoint(p) ==
  \/ ep'[p] = ep[p]
  \/ ep'[p].st = "Failed"
  \/ /\ ep[p].st \in KeysDerived /\ ep'[p].st \in KeysDerived
     /\ ep'[p].session_id = ep[p].session_id
     /\ SealingKey(p)' = SealingKey(p) /\ OpeningKey(p)' = OpeningKey(p)

\* A quiet step keeps the invariant.
LEMMA QuietStep ==
  ASSUME SessionInvariant, QuietWire, QuietEndpoint("client"), QuietEndpoint("server")
  PROVE  SessionInvariant'
<1> USE DEF KeysDerived
<1>1. SignedByServer'
  BY DEF SessionInvariant, SignedByServer, QuietWire, QuietEndpoint
<1>2. SelectionFromProposals'
  BY DEF SessionInvariant, SelectionFromProposals, QuietEndpoint, Roles
<1>3. KeysFromSession'
  <2> SUFFICES ASSUME NEW p \in Roles, ep'[p].st \in KeysDerived
               PROVE  /\ SealingKey(p)' = SessionKey(EncoderDir(p), ep'[p].session_id)
                      /\ OpeningKey(p)' = SessionKey(EncoderDir(Peer(p)), ep'[p].session_id)
    BY DEF KeysFromSession
  <2>1. QuietEndpoint(p)
    BY DEF Roles
  <2>2. CASE ep'[p] = ep[p]
    BY <2>2 DEF SessionInvariant, KeysFromSession, SealingKey, OpeningKey
  <2>3. CASE ep'[p] # ep[p]
    BY <2>1, <2>3 DEF SessionInvariant, KeysFromSession, QuietEndpoint
  <2> QED
    BY <2>2, <2>3
<1>4. SameSession'
  BY DEF SessionInvariant, SameSession, QuietEndpoint
<1> QED
  BY <1>1, <1>2, <1>3, <1>4 DEF SessionInvariant

\* What a failing write leaves on the wire are messages it was to write.
LEMMA CutsMessages ==
  ASSUME NEW out \in Seq(Units), NEW cut \in Cuts(out), NEW i \in 1 .. Len(cut)
  PROVE  i \in 1 .. Len(out) /\ cut[i].msg = out[i].msg
<1>1. CASE \E n \in 0 .. Len(out) : cut = SubSeq(out, 1, n)
  BY <1>1
<1>2. ASSUME NEW n \in 0 .. (Len(out) - 1), cut = Append(SubSeq(out, 1, n), CutShort(out[n + 1]))
      PROVE  i \in 1 .. Len(out) /\ cut[i].msg = out[i].msg
  <2>1. SubSeq(out, 1, n) \in Seq(Units) /\ Len(SubSeq(out, 1, n)) = n
    OBVIOUS
  <2>2. Len(cut) = n + 1
    BY <1>2, <2>1
  <2>3. CASE i = n + 1
    <3>1. out[n + 1] \in Units /\ cut[i] = CutShort(out[n + 1])
      BY <1>2, <2>1, <2>3
    <3>2. CutShort(out[n + 1]).msg = out[n + 1].msg
      BY <3>1 DEF CutShort, Units
    <3> QED
      BY <2>3, <3>1, <3>2
  <2>4. CASE i # n + 1
    BY <1>2, <2>1, <2>2, <2>4
  <2> QED
    BY <2>3, <2>4
<1> QED
  BY <1>1, <1>2 DEF Cuts

\* After a write the server's wire holds what it held, and what was written.
LEMMA WriteMessages ==
  ASSUME TypeOK, NEW p \in Roles, NEW out \in Seq(Units), Write(p, out),
         NEW i \in 1 .. Len(wire'["server"])
  PROVE  \/ i \in 1 .. Len(wire["server"]) /\ wire'["server"][i] = wire["server"][i]
         \/ p = "server" /\ \E k \in 1 .. Len(out) : wire'["server"][i] = out[k]
<1>1. wire \in [Roles -> Seq(Units)] /\ "server" \in Roles
  BY DEF TypeOK, Roles
<1>2. CASE p = "server"
  <2> DEFINE w == wire["server"]
  <2>1. wire'["server"] = w \o out /\ w \in Seq(Units)
    BY <1>1, <1>2 DEF Write
  <2>2. i \in 1 .. (Len(w) + Len(out)) /\ Len(w) \in Nat /\ Len(out) \in Nat
    BY <2>1
  <2> HIDE DEF w
  <2>3. CASE i <= Len(w)
    BY <2>1, <2>2, <2>3 DEF w
  <2>4. CASE i > Len(w)
    <3>1. i - Len(w) \in 1 .. Len(out) /\ (w \o out)[i] = out[i - Len(w)]
      BY <2>1, <2>2, <2>4
    <3> QED
      BY <1>2, <2>1, <3>1
  <2> QED
    BY <2>2, <2>3, <2>4
<1>3. CASE p # "server"
  <2>1. wire'["server"] = wire["server"]
    BY <1>1, <1>3 DEF Write
  <2> QED
    BY <2>1
<1> QED
  BY <1>2, <1>3

\* Writing messages without a signature is quiet.
LEMMA WriteQuiet ==
  ASSUME TypeOK, NEW p \in Roles, NEW out \in Seq(Units), Write(p, out),
         \A k \in 1 .. Len(out) : ~Signed(out[k].msg)
  PROVE  QuietWire
BY WriteMessages DEF QuietWire

\* Giving up is quiet for both endpoints.
LEMMA GiveUpQuiet ==
  ASSUME TypeOK, NEW p \in Roles, GiveUp(p)
  PROVE  QuietEndpoint("client") /\ QuietEndpoint("server")
BY DEF TypeOK, GiveUp, Failed, QuietEndpoint, Roles

\* A handler that returns Err keeps the invariant, provided it signs nothing.
LEMMA RefuseQuiet ==
  ASSUME TypeOK, SessionInvariant, NEW p \in Roles, NEW out \in Seq(Units),
         \A k \in 1 .. Len(out) : ~Signed(out[k].msg), Refuse(p, out)
  PROVE  SessionInvariant'
<1>1. PICK units \in Seq(Units) : /\ Write(p, units)
                                  /\ \A k \in 1 .. Len(units) : ~Signed(units[k].msg)
  <2>1. CASE Write(p, out)
    BY <2>1
  <2>2. ASSUME NEW cut \in Cuts(out), Write(p, cut)
        PROVE  \E units \in Seq(Units) : /\ Write(p, units)
                                         /\ \A k \in 1 .. Len(units) : ~Signed(units[k].msg)
    BY <2>2, CutsType, CutsMessages
  <2> QED
    BY <2>1, <2>2 DEF Refuse
<1>2. QuietWire
  BY <1>1, WriteQuiet
<1> QED
  BY <1>2, GiveUpQuiet, QuietStep DEF Refuse

\* A handler whose output is unsigned either fails while it writes, which
\* keeps the invariant, or stores its next state, with a quiet wire.
LEMMA ProceedQuiet ==
  ASSUME TypeOK, SessionInvariant, NEW p \in Roles, NEW next, NEW out \in Seq(Units),
         \A k \in 1 .. Len(out) : ~Signed(out[k].msg), Proceed(p, next, out)
  PROVE  \/ SessionInvariant'
         \/ QuietWire /\ ep' = [ep EXCEPT ![p] = next]
<1>1. CASE Write(p, out) /\ ep' = [ep EXCEPT ![p] = next]
  BY <1>1, WriteQuiet
<1>2. ASSUME NEW cut \in Cuts(out), Write(p, cut), GiveUp(p)
      PROVE  SessionInvariant'
  <2>1. cut \in Seq(Units) /\ \A k \in 1 .. Len(cut) : ~Signed(cut[k].msg)
    BY <1>2, CutsType, CutsMessages
  <2>2. QuietWire
    BY <1>2, <2>1, WriteQuiet
  <2> QED
    BY <1>2, <2>2, GiveUpQuiet, QuietStep
<1> QED
  BY <1>1, <1>2 DEF Proceed

\* Writing nothing signs nothing.
LEMMA EmptyQuiet == \A k \in 1 .. Len(<<>>) : ~Signed(<<>>[k].msg)
OBVIOUS

\* While the server has not derived keys nothing on its wire is signed and
\* the client has not derived keys either.
LEMMA BeforeReply ==
  ASSUME SessionInvariant, ep["server"].st \notin KeysDerived \cup {"Failed"}
  PROVE  /\ \A i \in 1 .. Len(wire["server"]) : ~Signed(wire["server"][i].msg)
         /\ ep["client"].st \notin KeysDerived
BY DEF SessionInvariant, SignedByServer, SameSession

\* A step of the client between two states without keys keeps the invariant.
LEMMA ClientEarlyStep ==
  ASSUME TypeOK, SessionInvariant, QuietWire, NEW next,
         ep' = [ep EXCEPT !["client"] = next],
         next.st \notin KeysDerived,
         next.st = "WaitingForKexReply" =>
           next.negotiated = client_negotiate(next.client_kexinit.offer, next.server_kexinit.offer),
         next.st # "WaitingForKexDhInit"
  PROVE  SessionInvariant'
<1>1. ep'["client"] = next /\ ep'["server"] = ep["server"]
  BY DEF TypeOK, Roles
<1>2. SignedByServer'
  BY <1>1 DEF SessionInvariant, SignedByServer, QuietWire
<1>3. SelectionFromProposals'
  BY <1>1 DEF SessionInvariant, SelectionFromProposals, Roles
<1>4. KeysFromSession'
  <2> SUFFICES ASSUME NEW p \in Roles, ep'[p].st \in KeysDerived
               PROVE  /\ SealingKey(p)' = SessionKey(EncoderDir(p), ep'[p].session_id)
                      /\ OpeningKey(p)' = SessionKey(EncoderDir(Peer(p)), ep'[p].session_id)
    BY DEF KeysFromSession
  <2>1. p = "server"
    BY <1>1 DEF Roles
  <2> QED
    BY <1>1, <2>1 DEF SessionInvariant, KeysFromSession, SealingKey, OpeningKey
<1>5. SameSession'
  BY <1>1 DEF SameSession
<1> QED
  BY <1>2, <1>3, <1>4, <1>5 DEF SessionInvariant

\* The same for the server.
LEMMA ServerEarlyStep ==
  ASSUME TypeOK, SessionInvariant, QuietWire, NEW next,
         ep["server"].st \notin KeysDerived \cup {"Failed"},
         ep' = [ep EXCEPT !["server"] = next],
         next.st \notin KeysDerived,
         next.st = "WaitingForKexDhInit" =>
           next.negotiated = client_negotiate(next.client_kexinit.offer, next.server_kexinit.offer),
         next.st # "WaitingForKexReply"
  PROVE  SessionInvariant'
<1>1. ep'["server"] = next /\ ep'["client"] = ep["client"]
  BY DEF TypeOK, Roles
<1>2. ep["client"].st \notin KeysDerived
  BY BeforeReply
<1>3. SignedByServer'
  BY BeforeReply DEF SignedByServer, QuietWire
<1>4. SelectionFromProposals'
  BY <1>1 DEF SessionInvariant, SelectionFromProposals, Roles
<1>5. KeysFromSession'
  BY <1>1, <1>2 DEF KeysFromSession, Roles
<1>6. SameSession'
  BY <1>1, <1>2 DEF SameSession
<1> QED
  BY <1>3, <1>4, <1>5, <1>6 DEF SessionInvariant

\* The client's side of the agreement: the reply it accepts is the server's.
LEMMA ClientReceiveKexReplySession ==
  ASSUME TypeOK, SessionInvariant, ClientReceiveKexReply
  PROVE  SessionInvariant'
<1> DEFINE c == ep["client"]
           msg == NextUnit("client").msg
           hash == ClientHash(c, msg)
           next == ClientAfterKexReply(c, msg)
           out == <<Build(c.encoder, c.send_seq, NewKeys)>>
<1>1. "client" \in Roles /\ Unread("client") /\ c.st = "WaitingForKexReply"
  BY DEF Roles, ClientReceiveKexReply, At, Readable
<1>2. c \in ClientAtKexReply /\ msg \in Messages
  BY <1>1, ClientVariant, NextUnitType
<1>3. CASE Refuse("client", <<>>)
  BY <1>1, <1>3, EmptyQuiet, EmptyType, RefuseQuiet
<1>4. CASE /\ Received("client", "KEXDH_REPLY") /\ ClientAccepts(c, msg)
           /\ Proceed("client", next, out)
  <2>1. msg.k_s \in HostKeys /\ msg.type = "KEXDH_REPLY" /\ msg.signature = Sign(msg.k_s, hash)
    BY <1>2, <1>4, MessageVariant DEF Received, ClientAccepts, Verifies
  <2>2. Signed(msg) /\ msg.signature.over = hash
    BY <2>1, NobodyAssumption DEF Signed, Sign
  <2>3. /\ ep["server"].st \in KeysDerived \cup {"Failed"}
        /\ ep["server"].st # "Failed" => hash = ep["server"].session_id
    <3>1. rd["client"] + 1 \in 1 .. Len(wire["server"]) /\ msg = wire["server"][rd["client"] + 1].msg
      BY <1>1, NextUnitType DEF Peer, NextUnit
    <3> QED
      BY <2>2, <3>1 DEF SessionInvariant, SignedByServer
  <2>4. out \in Seq(Units) /\ \A k \in 1 .. Len(out) : ~Signed(out[k].msg)
    <3>1. NewKeys \in Messages /\ ~Signed(NewKeys)
      BY DEF Messages, Signed, NewKeys
    <3>2. Build(c.encoder, c.send_seq, NewKeys) \in Units
          /\ Build(c.encoder, c.send_seq, NewKeys).msg = NewKeys
      BY <1>2, <3>1, BuildType DEF ClientAtKexReply, Build
    <3> QED
      BY <3>1, <3>2
  <2>5. CASE QuietWire /\ ep' = [ep EXCEPT !["client"] = next]
    <3>1. ep'["client"] = next /\ ep'["server"] = ep["server"]
      BY <2>5 DEF TypeOK, Roles
    <3>2. /\ next.st = "WaitingForNewKeys" /\ next.session_id = hash
          /\ next.pending_encoder = PendingEncoder("client", c.negotiated, hash.k, hash)
          /\ next.pending_decoder = PendingDecoder("client", c.negotiated, hash.k, hash)
      BY DEF ClientAfterKexReply, ClientHash, ExchangeHash
    <3>3. c.negotiated = client_negotiate(hash.i_c.offer, hash.i_s.offer)
      BY <1>1 DEF SessionInvariant, SelectionFromProposals, ClientHash, ExchangeHash
    <3>4. SignedByServer'
      BY <2>5, <3>1 DEF SessionInvariant, SignedByServer, QuietWire
    <3>5. SelectionFromProposals'
      BY <3>1, <3>2 DEF SessionInvariant, SelectionFromProposals, Roles
    <3>6. KeysFromSession'
      <4> SUFFICES ASSUME NEW p \in Roles, ep'[p].st \in KeysDerived
                   PROVE  /\ SealingKey(p)' = SessionKey(EncoderDir(p), ep'[p].session_id)
                          /\ OpeningKey(p)' = SessionKey(EncoderDir(Peer(p)), ep'[p].session_id)
        BY DEF KeysFromSession
      <4>1. CASE p = "client"
        <5> HIDE DEF next, hash, c
        <5>1. SealingKey(p)' = next.pending_encoder.key /\ OpeningKey(p)' = next.pending_decoder.key
          BY <3>1, <3>2, <4>1 DEF SealingKey, OpeningKey
        <5>2. /\ next.pending_encoder.key = SessionKey(EncoderDir("client"), hash)
              /\ next.pending_decoder.key = SessionKey(EncoderDir(Peer("client")), hash)
          BY <3>2, <3>3 DEF PendingEncoder, PendingDecoder, Traditional, SessionKey
        <5> QED
          BY <3>1, <3>2, <4>1, <5>1, <5>2
      <4>2. CASE p = "server"
        BY <3>1, <4>2 DEF SessionInvariant, KeysFromSession, SealingKey, OpeningKey
      <4> QED
        BY <4>1, <4>2 DEF Roles
    <3>7. SameSession'
      BY <2>3, <3>1, <3>2 DEF SameSession
    <3> QED
      BY <3>4, <3>5, <3>6, <3>7 DEF SessionInvariant
  <2> HIDE DEF out, next
  <2> QED
    BY <1>1, <1>4, <2>4, <2>5, ProceedQuiet
<1> QED
  BY <1>3, <1>4 DEF ClientReceiveKexReply

\* The server's side: it signs once, and what it signs is its session id.
LEMMA ServerReceiveKexdhInitSession ==
  ASSUME TypeOK, SessionInvariant, ServerReceiveKexdhInit
  PROVE  SessionInvariant'
<1> DEFINE s == ep["server"]
           msg == NextUnit("server").msg
<1>1. "server" \in Roles /\ Unread("server") /\ s.st = "WaitingForKexDhInit"
  BY DEF Roles, ServerReceiveKexdhInit, At, Readable
<1>2. s \in ServerAtKexDhInit /\ msg \in Messages
  BY <1>1, ServerVariant, NextUnitType
<1>3. CASE Refuse("server", <<>>)
  BY <1>1, <1>3, EmptyQuiet, EmptyType, RefuseQuiet
<1>4. ASSUME Received("server", "KEXDH_INIT"),
             NEW secret \in DhSecrets(s.negotiated["kex"]),
             Proceed("server", ServerAfterKexDhInit(s, msg.e, secret),
               <<Build(s.encoder, s.send_seq, ServerReply(s, msg.e, secret)),
                 Build(Advance(s.encoder), SeqAdd(s.send_seq, 1), NewKeys)>>)
      PROVE  SessionInvariant'
  <2> DEFINE hash == ServerHash(s, msg.e, secret)
             next == ServerAfterKexDhInit(s, msg.e, secret)
             reply == Build(s.encoder, s.send_seq, ServerReply(s, msg.e, secret))
             newkeys == Build(Advance(s.encoder), SeqAdd(s.send_seq, 1), NewKeys)
             out == <<reply, newkeys>>
  <2>1. msg.e \in Nat
    BY <1>2, <1>4, MessageVariant DEF Received
  <2>2. reply \in Units /\ newkeys \in Units
    <3>1. ServerReply(s, msg.e, secret) \in Messages /\ NewKeys \in Messages
      BY <1>2, <1>4, <2>1, ServerReplyType DEF Messages
    <3>2. /\ s.encoder \in Codecs /\ Advance(s.encoder) \in Codecs
          /\ s.send_seq \in Nat /\ SeqAdd(s.send_seq, 1) \in Nat
      BY <1>2, CodecTypes, SeqAddType DEF ServerAtKexDhInit
    <3> QED
      BY <3>1, <3>2, BuildType
  <2>3. reply.msg.signature.over = hash /\ ~Signed(newkeys.msg)
    BY DEF ServerReply, KexDhReply, Sign, Build, Signed, NewKeys
  <2>4. out \in Seq(Units) /\ \A k \in 1 .. Len(out) : Signed(out[k].msg) => out[k].msg.signature.over = hash
    <3> HIDE DEF reply, newkeys, hash
    <3> QED
      BY <2>2, <2>3
  <2>5. /\ \A i \in 1 .. Len(wire["server"]) : ~Signed(wire["server"][i].msg)
        /\ ep["client"].st \notin KeysDerived
    BY <1>1, BeforeReply DEF KeysDerived
  <2>6. \A i \in 1 .. Len(wire'["server"]) :
          Signed(wire'["server"][i].msg) => wire'["server"][i].msg.signature.over = hash
    <3>1. PICK units \in Seq(Units) :
            /\ Write("server", units)
            /\ \A k \in 1 .. Len(units) : Signed(units[k].msg) => units[k].msg.signature.over = hash
      <4> HIDE DEF out, next, hash
      <4>1. CASE Write("server", out)
        BY <2>4, <4>1
      <4>2. ASSUME NEW cut \in Cuts(out), Write("server", cut)
            PROVE  \E units \in Seq(Units) :
                     /\ Write("server", units)
                     /\ \A k \in 1 .. Len(units) : Signed(units[k].msg) => units[k].msg.signature.over = hash
        BY <2>4, <4>2, CutsType, CutsMessages
      <4>3. Proceed("server", next, out)
        BY <1>4 DEF out, next
      <4> QED
        BY <4>1, <4>2, <4>3 DEF Proceed
    <3> HIDE DEF hash
    <3> QED
      BY <1>1, <2>5, <3>1, WriteMessages
  <2>7. ep'["client"] = ep["client"] /\ (ep'["server"] = next \/ ep'["server"] = Failed)
    BY <1>4 DEF Proceed, GiveUp, TypeOK, Roles
  <2>8. /\ next.st = "WaitingForNewKeys" /\ next.session_id = hash
        /\ next.pending_encoder = PendingEncoder("server", s.negotiated, hash.k, hash)
        /\ next.pending_decoder = PendingDecoder("server", s.negotiated, hash.k, hash)
    BY DEF ServerAfterKexDhInit, ServerHash, ExchangeHash
  <2>9. s.negotiated = client_negotiate(hash.i_c.offer, hash.i_s.offer)
    BY <1>1 DEF SessionInvariant, SelectionFromProposals, ServerHash, ExchangeHash
  <2> HIDE DEF next, hash
  <2>10. SignedByServer'
    BY <2>6, <2>7, <2>8 DEF SignedByServer, KeysDerived, Failed
  <2>11. SelectionFromProposals'
    BY <2>7, <2>8 DEF SessionInvariant, SelectionFromProposals, Roles, Failed
  <2>12. KeysFromSession'
    <3> SUFFICES ASSUME NEW p \in Roles, ep'[p].st \in KeysDerived
                 PROVE  /\ SealingKey(p)' = SessionKey(EncoderDir(p), ep'[p].session_id)
                        /\ OpeningKey(p)' = SessionKey(EncoderDir(Peer(p)), ep'[p].session_id)
      BY DEF KeysFromSession
    <3>1. p = "server" /\ ep'["server"] = next
      BY <2>5, <2>7 DEF Roles, Failed, KeysDerived
    <3>2. SealingKey(p)' = next.pending_encoder.key /\ OpeningKey(p)' = next.pending_decoder.key
      BY <2>8, <3>1 DEF SealingKey, OpeningKey
    <3>3. /\ next.pending_encoder.key = SessionKey(EncoderDir("server"), hash)
          /\ next.pending_decoder.key = SessionKey(EncoderDir(Peer("server")), hash)
      BY <2>8, <2>9 DEF PendingEncoder, PendingDecoder, Traditional, SessionKey
    <3> QED
      BY <2>8, <3>1, <3>2, <3>3
  <2>13. SameSession'
    BY <2>5, <2>7 DEF SameSession
  <2> QED
    BY <2>10, <2>11, <2>12, <2>13 DEF SessionInvariant
<1> QED
  BY <1>3, <1>4 DEF ServerReceiveKexdhInit

\* The handlers before the reply: nothing is signed, no key is derived.
LEMMA ClientReceiveProtoVersionSession ==
  ASSUME TypeOK, SessionInvariant, ClientReceiveProtoVersion
  PROVE  SessionInvariant'
<1> DEFINE c == ep["client"]
           msg == NextUnit("client").msg
<1>1. "client" \in Roles /\ Unread("client")
  BY DEF Roles, ClientReceiveProtoVersion, At, Readable
<1>2. CASE Refuse("client", <<>>)
  BY <1>1, <1>2, EmptyQuiet, EmptyType, RefuseQuiet
<1>3. ASSUME NEW kexinit \in KexInits,
             Proceed("client", ClientAfterProtoVersion(c, msg, kexinit),
                     <<Build(Naked, 0, kexinit)>>)
      PROVE  SessionInvariant'
  <2> DEFINE next == ClientAfterProtoVersion(c, msg, kexinit)
             unit == Build(Naked, 0, kexinit)
  <2>1. unit \in Units /\ ~Signed(unit.msg)
    <3>1. kexinit \in Messages /\ ~Signed(kexinit)
      BY DEF Messages, KexInits, Signed
    <3> QED
      BY <3>1, CodecTypes, BuildType DEF Build
  <2>2. next.st = "WaitingForServerKexInit"
    BY DEF ClientAfterProtoVersion
  <2> HIDE DEF next, unit
  <2>3. <<unit>> \in Seq(Units) /\ \A k \in 1 .. Len(<<unit>>) : ~Signed(<<unit>>[k].msg)
    BY <2>1
  <2>4. Proceed("client", next, <<unit>>)
    BY <1>3 DEF next, unit
  <2>5. CASE QuietWire /\ ep' = [ep EXCEPT !["client"] = next]
    BY <2>2, <2>5, ClientEarlyStep DEF KeysDerived
  <2> QED
    BY <1>1, <2>3, <2>4, <2>5, ProceedQuiet
<1> QED
  BY <1>1, <1>2, <1>3, KexInitType DEF ClientReceiveProtoVersion

\* receive_server_kexinit stores the selection of the two proposals it keeps.
LEMMA ClientReceiveServerKexinitSession ==
  ASSUME TypeOK, SessionInvariant, ClientReceiveServerKexinit
  PROVE  SessionInvariant'
<1> DEFINE c == ep["client"]
           msg == NextUnit("client").msg
           neg == client_negotiate(c.client_kexinit.offer, msg.offer)
<1>1. "client" \in Roles /\ Unread("client")
  BY DEF Roles, ClientReceiveServerKexinit, At, Readable
<1>2. c \in ClientAtKexInit
  BY ClientVariant DEF ClientReceiveServerKexinit, At
<1>3. CASE Refuse("client", <<>>)
  BY <1>1, <1>3, EmptyQuiet, EmptyType, RefuseQuiet
<1>4. ASSUME Negotiable(c.client_kexinit.offer, msg.offer),
             NEW secret \in DhSecrets(neg["kex"]),
             Proceed("client", ClientAfterKexInit(c, msg, neg, secret),
               <<Build(c.encoder, c.send_seq, KexDhInit(PublicValue(neg["kex"], secret)))>>)
      PROVE  SessionInvariant'
  <2> DEFINE next == ClientAfterKexInit(c, msg, neg, secret)
             init == KexDhInit(PublicValue(neg["kex"], secret))
             unit == Build(c.encoder, c.send_seq, init)
  <2>1. init \in Messages /\ ~Signed(init)
    <3>1. neg["kex"] \in KexNames
      BY <1>4, NegotiatedType, NegotiatedKex
    <3>2. PublicValue(neg["kex"], secret) \in Nat
      BY <1>4, <3>1, SecretType, DhType
    <3> QED
      BY <3>2 DEF KexDhInit, Messages, Signed
  <2>2. unit \in Units /\ unit.msg = init
    BY <1>2, <2>1, BuildType DEF ClientAtKexInit, Build
  <2>3. /\ next.st = "WaitingForKexReply"
        /\ next.negotiated = client_negotiate(next.client_kexinit.offer, next.server_kexinit.offer)
    BY DEF ClientAfterKexInit
  <2>4. Proceed("client", next, <<unit>>)
    BY <1>4
  <2> HIDE DEF next, unit, init
  <2>5. <<unit>> \in Seq(Units) /\ \A k \in 1 .. Len(<<unit>>) : ~Signed(<<unit>>[k].msg)
    BY <2>1, <2>2
  <2>6. CASE QuietWire /\ ep' = [ep EXCEPT !["client"] = next]
    BY <2>3, <2>6, ClientEarlyStep DEF KeysDerived
  <2> QED
    BY <1>1, <2>4, <2>5, <2>6, ProceedQuiet
<1> QED
  BY <1>1, <1>3, <1>4 DEF ClientReceiveServerKexinit

\* The server's receive_proto_version writes its line, which is unsigned.
LEMMA ServerReceiveProtoVersionSession ==
  ASSUME TypeOK, SessionInvariant, ServerReceiveProtoVersion
  PROVE  SessionInvariant'
<1> DEFINE next == ServerAfterProtoVersion(ep["server"], NextUnit("server").msg)
<1>1. "server" \in Roles /\ Unread("server")
  BY DEF Roles, ServerReceiveProtoVersion, At, Readable
<1>2. ep["server"].st \notin KeysDerived \cup {"Failed"}
  BY DEF ServerReceiveProtoVersion, At, KeysDerived
<1>3. CASE Refuse("server", <<>>)
  BY <1>1, <1>3, EmptyQuiet, EmptyType, RefuseQuiet
<1>4. CASE Proceed("server", next, <<Line("server")>>)
  <2>1. next.st = "WaitingForClientKexInit"
    BY DEF ServerAfterProtoVersion
  <2>2. \A k \in 1 .. Len(<<Line("server")>>) : ~Signed(<<Line("server")>>[k].msg)
    BY DEF Line, Build, IdLine, Signed
  <2> HIDE DEF next
  <2>3. CASE QuietWire /\ ep' = [ep EXCEPT !["server"] = next]
    BY <1>2, <2>1, <2>3, ServerEarlyStep DEF KeysDerived
  <2> QED
    BY <1>1, <1>4, <2>2, <2>3, LineType, ProceedQuiet
<1> QED
  BY <1>3, <1>4 DEF ServerReceiveProtoVersion

\* receive_client_kexinit stores the selection of the two proposals it keeps.
LEMMA ServerReceiveClientKexinitSession ==
  ASSUME TypeOK, SessionInvariant, ServerReceiveClientKexinit
  PROVE  SessionInvariant'
<1> DEFINE s == ep["server"]
           msg == NextUnit("server").msg
<1>1. "server" \in Roles /\ Unread("server")
  BY DEF Roles, ServerReceiveClientKexinit, At, Readable
<1>2. s \in ServerAtKexInit /\ s.st \notin KeysDerived \cup {"Failed"}
  BY ServerVariant DEF ServerReceiveClientKexinit, At, KeysDerived
<1>3. CASE Refuse("server", <<>>)
  BY <1>1, <1>3, EmptyQuiet, EmptyType, RefuseQuiet
<1>4. ASSUME NEW cookie \in Cookies, NEW offer \in OwnOffers["server"],
             LET kexinit == KexInit(cookie, offer)
                 out == <<Build(s.encoder, s.send_seq, kexinit)>>
             IN  Refuse("server", out) \/ Proceed("server", ServerAfterKexInit(s, msg, kexinit), out)
      PROVE  SessionInvariant'
  <2> DEFINE kexinit == KexInit(cookie, offer)
             unit == Build(s.encoder, s.send_seq, kexinit)
             next == ServerAfterKexInit(s, msg, kexinit)
  <2>1. kexinit \in Messages /\ ~Signed(kexinit)
    BY <1>1, KexInitType DEF KexInit, Signed
  <2>2. unit \in Units /\ unit.msg = kexinit
    BY <1>2, <2>1, BuildType DEF ServerAtKexInit, Build
  <2>3. /\ next.st = "WaitingForKexDhInit"
        /\ next.negotiated = client_negotiate(next.client_kexinit.offer, next.server_kexinit.offer)
    BY DEF ServerAfterKexInit, server_negotiate
  <2>4. Refuse("server", <<unit>>) \/ Proceed("server", next, <<unit>>)
    BY <1>4
  <2> HIDE DEF next, unit, kexinit
  <2>5. <<unit>> \in Seq(Units) /\ \A k \in 1 .. Len(<<unit>>) : ~Signed(<<unit>>[k].msg)
    BY <2>1, <2>2
  <2>6. CASE QuietWire /\ ep' = [ep EXCEPT !["server"] = next]
    BY <1>2, <2>3, <2>6, ServerEarlyStep DEF KeysDerived
  <2> QED
    BY <1>1, <2>4, <2>5, <2>6, ProceedQuiet, RefuseQuiet
<1> QED
  BY <1>1, <1>3, <1>4 DEF ServerReceiveClientKexinit

\* The change of keys keeps the session.
LEMMA ReceiveNewkeysSession ==
  ASSUME TypeOK, SessionInvariant, NEW p \in Roles, ReceiveNewkeys(p)
  PROVE  SessionInvariant'
<1> DEFINE next == AfterNewKeys(ep[p])
<1>1. Unread(p) /\ ep[p].st = "WaitingForNewKeys"
  BY DEF ReceiveNewkeys, At, Readable
<1>2. CASE Refuse(p, <<>>)
  BY <1>2, EmptyQuiet, EmptyType, RefuseQuiet
<1>3. CASE Proceed(p, next, <<>>)
  <2>1. /\ next.st = "Ready" /\ next.session_id = ep[p].session_id
        /\ next.encoder = ep[p].pending_encoder /\ next.decoder = ep[p].pending_decoder
    BY DEF AfterNewKeys
  <2> HIDE DEF next
  <2>2. CASE QuietWire /\ ep' = [ep EXCEPT ![p] = next]
    <3>1. ep'[p] = next /\ \A q \in Roles : q # p => ep'[q] = ep[q]
      BY <2>2 DEF TypeOK
    <3>2. QuietEndpoint("client") /\ QuietEndpoint("server")
      BY <1>1, <2>1, <3>1
      DEF QuietEndpoint, KeysDerived, SealingKey, OpeningKey, Roles
    <3> QED
      BY <2>2, <3>2, QuietStep
  <2> QED
    BY <1>3, <2>2, EmptyQuiet, EmptyType, ProceedQuiet
<1> QED
  BY <1>2, <1>3 DEF ReceiveNewkeys

\* start writes an identification line, which nobody signs.
LEMMA StartSession ==
  ASSUME TypeOK, SessionInvariant, Start
  PROVE  SessionInvariant'
<1>1. "client" \in Roles /\ <<Line("client")>> \in Seq(Units)
  BY LineType DEF Roles
<1>2. \A k \in 1 .. Len(<<Line("client")>>) : ~Signed(<<Line("client")>>[k].msg)
  BY DEF Line, Build, IdLine, Signed
<1>3. PICK out \in Seq(Units) : /\ Write("client", out)
                                /\ \A k \in 1 .. Len(out) : ~Signed(out[k].msg)
  <2>1. ASSUME NEW cut \in Cuts(<<Line("client")>>), Write("client", cut)
        PROVE  cut \in Seq(Units) /\ \A k \in 1 .. Len(cut) : ~Signed(cut[k].msg)
    BY <1>1, <1>2, CutsType, CutsMessages
  <2> QED
    BY <1>1, <1>2, <2>1 DEF Start, StartOk, StartErr
<1>4. QuietWire
  BY <1>1, <1>3, WriteQuiet
<1>5. QuietEndpoint("client") /\ QuietEndpoint("server")
  BY DEF Start, QuietEndpoint
<1> QED
  BY <1>4, <1>5, QuietStep

\* A failed read gives up and writes nothing.
LEMMA AbandonSession ==
  ASSUME TypeOK, SessionInvariant, NEW p \in Roles, GiveUp(p), UNCHANGED wire
  PROVE  SessionInvariant'
<1>1. QuietWire
  BY DEF QuietWire
<1> QED
  BY <1>1, GiveUpQuiet, QuietStep

\* An endpoint that only moves on in its keystreams and sequence numbers
\* stays in its session.
LEMMA ReadyQuiet ==
  ASSUME TypeOK, NEW p \in Roles, Open(p), NEW next \in AtReady,
         ep' = [ep EXCEPT ![p] = next],
         next.encoder.key = ep[p].encoder.key, next.decoder.key = ep[p].decoder.key,
         next.session_id = ep[p].session_id
  PROVE  QuietEndpoint("client") /\ QuietEndpoint("server")
<1>1. ep'[p] = next /\ \A q \in Roles : q # p => ep'[q] = ep[q]
  BY DEF TypeOK
<1>2. ep[p].st = "Ready" /\ next.st = "Ready"
  BY DEF Open, AtReady
<1>3. QuietEndpoint(p)
  BY <1>1, <1>2 DEF QuietEndpoint, KeysDerived, SealingKey, OpeningKey
<1> QED
  BY <1>1, <1>3 DEF QuietEndpoint, Roles

\* Neither processing a packet nor failing to changes a codec's key.
LEMMA CodecKeys ==
  ASSUME NEW codec \in Codecs, NEW unit
  PROVE  /\ Advance(codec).key = codec.key
         /\ \A after \in AfterError(codec, unit) : after.key = codec.key
<1>1. Advance(codec).key = codec.key
  BY DEF Advance, Codecs
<1>2. [codec EXCEPT !.aligned = FALSE].key = codec.key
  BY DEF Codecs
<1> QED
  BY <1>1, <1>2 DEF AfterError

\* send_packet moves the encoder on and writes an unsigned message.
LEMMA SendPacketSession ==
  ASSUME TypeOK, SessionInvariant, NEW p \in Roles, SendPacket(p)
  PROVE  SessionInvariant'
<1> DEFINE x == ep[p]
           unit == Build(x.encoder, x.send_seq, Payload(Len(sends[p]) + 1))
           ok == [x EXCEPT !.encoder = Advance(x.encoder), !.send_seq = SeqAdd(x.send_seq, 1)]
           err == [x EXCEPT !.encoder = Advance(x.encoder)]
<1>1. x \in AtReady /\ Open(p)
  BY ReadyVariant DEF SendPacket
<1>2. unit \in Units /\ ~Signed(unit.msg)
  <2>1. Payload(Len(sends[p]) + 1) \in Messages /\ ~Signed(Payload(Len(sends[p]) + 1))
    BY DEF TypeOK, Payload, Messages, Signed
  <2>2. unit.msg = Payload(Len(sends[p]) + 1)
    BY DEF Build
  <2> QED
    BY <1>1, <2>1, <2>2, BuildType DEF AtReady
<1>3. PICK out \in Seq(Units) : /\ Write(p, out)
                                /\ \A k \in 1 .. Len(out) : ~Signed(out[k].msg)
  <2>1. <<unit>> \in Seq(Units) /\ \A k \in 1 .. Len(<<unit>>) : ~Signed(<<unit>>[k].msg)
    <3> HIDE DEF unit
    <3> QED
      BY <1>2
  <2>2. ASSUME NEW cut \in Cuts(<<unit>>), Write(p, cut)
        PROVE  cut \in Seq(Units) /\ \A k \in 1 .. Len(cut) : ~Signed(cut[k].msg)
    BY <2>1, CutsType, CutsMessages
  <2>3. Write(p, <<unit>>) \/ \E cut \in Cuts(<<unit>>) : Write(p, cut)
    BY DEF SendPacket
  <2> QED
    BY <2>1, <2>2, <2>3
<1>4. QuietWire
  BY <1>3, WriteQuiet
<1>5. Advance(x.encoder) \in Codecs /\ Advance(x.encoder).key = x.encoder.key
      /\ SeqAdd(x.send_seq, 1) \in Nat
  BY <1>1, CodecTypes, CodecKeys, SeqAddType DEF AtReady
<1>6. ep' = [ep EXCEPT ![p] = ok] \/ ep' = [ep EXCEPT ![p] = err]
  BY DEF SendPacket
<1>7. \A next \in {ok, err} :
        /\ next \in AtReady /\ next.session_id = x.session_id
        /\ next.encoder.key = x.encoder.key /\ next.decoder.key = x.decoder.key
  BY <1>1, <1>5 DEF AtReady
<1>8. PICK next \in {ok, err} : ep' = [ep EXCEPT ![p] = next]
  BY <1>6
<1>9. QuietEndpoint("client") /\ QuietEndpoint("server")
  <2> HIDE DEF ok, err
  <2> QED
    BY <1>1, <1>7, <1>8, ReadyQuiet
<1> QED
  BY <1>4, <1>9, QuietStep

\* read_packet moves the decoder on, or loses its place, under the same key.
LEMMA ReadPacketSession ==
  ASSUME TypeOK, SessionInvariant, NEW p \in Roles, ReadPacket(p)
  PROVE  SessionInvariant'
<1> DEFINE x == ep[p]
           unit == NextUnit(p)
<1>1. x \in AtReady /\ Open(p)
  BY ReadyVariant DEF ReadPacket
<1>2. PICK next \in AtReady :
        /\ ep' = [ep EXCEPT ![p] = next]
        /\ next.encoder.key = x.encoder.key /\ next.decoder.key = x.decoder.key
        /\ next.session_id = x.session_id
  <2>1. CASE ep' = [ep EXCEPT ![p].decoder = Advance(x.decoder),
                              ![p].recv_seq = SeqAdd(x.recv_seq, 1)]
    <3> DEFINE ok == [x EXCEPT !.decoder = Advance(x.decoder),
                               !.recv_seq = SeqAdd(x.recv_seq, 1)]
    <3>1. Advance(x.decoder) \in Codecs /\ Advance(x.decoder).key = x.decoder.key
          /\ SeqAdd(x.recv_seq, 1) \in Nat
      BY <1>1, CodecTypes, CodecKeys, SeqAddType DEF AtReady
    <3>2. ok \in AtReady /\ ok.encoder = x.encoder /\ ok.session_id = x.session_id
          /\ ok.decoder = Advance(x.decoder)
      BY <1>1, <3>1 DEF AtReady
    <3> QED
      BY <2>1, <3>1, <3>2
  <2>2. ASSUME NEW decoder \in AfterError(x.decoder, unit), ep' = [ep EXCEPT ![p].decoder = decoder]
        PROVE  \E next \in AtReady :
                 /\ ep' = [ep EXCEPT ![p] = next]
                 /\ next.encoder.key = x.encoder.key /\ next.decoder.key = x.decoder.key
                 /\ next.session_id = x.session_id
    <3> DEFINE err == [x EXCEPT !.decoder = decoder]
    <3>1. decoder \in Codecs /\ decoder.key = x.decoder.key
      BY <1>1, AfterErrorType, CodecKeys DEF AtReady
    <3>2. err \in AtReady /\ err.encoder = x.encoder /\ err.session_id = x.session_id
          /\ err.decoder = decoder
      BY <1>1, <3>1 DEF AtReady
    <3> QED
      BY <2>2, <3>1, <3>2
  <2> QED
    BY <2>1, <2>2 DEF ReadPacket
<1>3. QuietWire
  BY DEF ReadPacket, QuietWire
<1> QED
  BY <1>1, <1>2, <1>3, ReadyQuiet, QuietStep

\* A read that fails in mid-packet leaves the key as it is.
LEMMA ReadPacketErrorSession ==
  ASSUME TypeOK, SessionInvariant, NEW p \in Roles, ReadPacketError(p)
  PROVE  SessionInvariant'
<1> DEFINE x == ep[p]
           decoder == [x.decoder EXCEPT !.aligned = FALSE]
           next == [x EXCEPT !.decoder = decoder]
<1>1. x \in AtReady /\ Open(p)
  BY ReadyVariant DEF ReadPacketError
<1>2. decoder \in Codecs /\ decoder.key = x.decoder.key
  BY <1>1 DEF AtReady, Codecs
<1>3. ep' = [ep EXCEPT ![p] = next]
  BY DEF ReadPacketError
<1>4. next \in AtReady /\ next.encoder = x.encoder /\ next.session_id = x.session_id
      /\ next.decoder = decoder
  BY <1>1, <1>2 DEF AtReady
<1>5. QuietWire
  BY DEF ReadPacketError, QuietWire
<1> HIDE DEF next, decoder
<1> QED
  BY <1>1, <1>2, <1>3, <1>4, <1>5, ReadyQuiet, QuietStep

\* A step that touches neither endpoints nor wires keeps the invariant.
LEMMA CloseSession ==
  ASSUME SessionInvariant, UNCHANGED <<ep, wire>>
  PROVE  SessionInvariant'
BY QuietStep DEF QuietWire, QuietEndpoint

\* What damage makes look like a reply is one, and its signature is still over
\* the same hash.
LEMMA GarbledReply ==
  ASSUME NEW msg \in Messages, NEW m \in Garbled(msg), m.type = "KEXDH_REPLY"
  PROVE  msg.type = "KEXDH_REPLY" /\ m.signature.over = msg.signature.over
<1>1. msg.type = "KEXDH_REPLY"
  BY DEF Garbled, Messages, KexInits, NewKeys, Garbage, IdLine, KexInit, KexDhInit
<1>2. msg.signature \in Signatures
  BY <1>1, MessageVariant
<1>3. m.signature = msg.signature \/ m.signature = [msg.signature EXCEPT !.key = Nobody]
  BY <1>1 DEF Garbled, Garbage, KexDhReply
<1>4. [msg.signature EXCEPT !.key = Nobody].over = msg.signature.over
  BY <1>2 DEF Signatures
<1> QED
  BY <1>1, <1>3, <1>4

\* Damage makes no signature that verifies: one that is still there is the
\* one the server made.
LEMMA GarbledSignature ==
  ASSUME NEW msg \in Messages, NEW m \in Garbled(msg), Signed(m)
  PROVE  Signed(msg) /\ m.signature = msg.signature
<1>1. m.type = "KEXDH_REPLY" /\ m.signature.key # Nobody
  BY DEF Signed
<1>2. msg.type = "KEXDH_REPLY"
  BY <1>1 DEF Garbled, Messages, KexInits, NewKeys, Garbage, IdLine, KexInit, KexDhInit
<1>3. msg.signature \in Signatures
  BY <1>2 DEF Messages, KexInits, NewKeys, Garbage
<1>4. m.signature = msg.signature \/ m.signature = [msg.signature EXCEPT !.key = Nobody]
  BY <1>1, <1>2 DEF Garbled, Garbage, KexDhReply
<1>5. [msg.signature EXCEPT !.key = Nobody].key = Nobody
  BY <1>3 DEF Signatures
<1> QED
  BY <1>1, <1>2, <1>4, <1>5 DEF Signed

\* Damage on the way keeps the invariant: it makes no signature.
LEMMA DamageSession ==
  ASSUME TypeOK, SessionInvariant, NEW p \in Roles, Damage(p)
  PROVE  SessionInvariant'
<1> DEFINE q == Peer(p)
           n == rd[p] + 1
<1>1. Unread(p) /\ q \in Roles /\ n \in 1 .. Len(wire[q]) /\ NextUnit(p) \in Units
      /\ NextUnit(p).msg \in Messages
  BY NextUnitType DEF Damage
<1>2. PICK unit \in Damaged(NextUnit(p)) : wire' = [wire EXCEPT ![q][n] = unit]
  BY DEF Damage
<1>3. Signed(unit.msg) => /\ Signed(NextUnit(p).msg)
                          /\ unit.msg.signature = NextUnit(p).msg.signature
  <2>1. ASSUME NEW m \in Garbled(NextUnit(p).msg), unit = [NextUnit(p) EXCEPT !.msg = m]
        PROVE  Signed(unit.msg) => /\ Signed(NextUnit(p).msg)
                                   /\ unit.msg.signature = NextUnit(p).msg.signature
    <3>1. unit.msg = m
      BY <1>1, <2>1 DEF Units
    <3> QED
      BY <1>1, <3>1, GarbledSignature
  <2>2. CASE unit = [NextUnit(p) EXCEPT !.form = "damaged"]
    <3>1. unit.msg = NextUnit(p).msg
      BY <1>1, <2>2 DEF Units
    <3> QED
      BY <3>1
  <2> QED
    BY <1>2, <2>1, <2>2 DEF Damaged
<1>4. NextUnit(p) = wire[q][n]
  BY DEF NextUnit
<1> HIDE DEF q, n
<1>5. wire["server"] \in Seq(Units) /\ wire[q] \in Seq(Units) /\ "server" \in Roles
  BY <1>1 DEF TypeOK, Roles
<1>6. QuietWire
  <2> SUFFICES ASSUME NEW i \in 1 .. Len(wire'["server"]), Signed(wire'["server"][i].msg)
               PROVE  \E j \in 1 .. Len(wire["server"]) :
                        /\ Signed(wire["server"][j].msg)
                        /\ wire["server"][j].msg.signature = wire'["server"][i].msg.signature
    BY DEF QuietWire
  <2>1. CASE q # "server"
    <3>1. wire'["server"] = wire["server"]
      BY <1>2, <2>1, <1>5 DEF TypeOK
    <3> QED
      BY <3>1
  <2>2. CASE q = "server"
    <3>1. wire'["server"] = [wire["server"] EXCEPT ![n] = unit]
      BY <1>1, <1>2, <2>2 DEF TypeOK
    <3>2. i \in 1 .. Len(wire["server"])
          /\ wire'["server"][i] = IF i = n THEN unit ELSE wire["server"][i]
      BY <1>5, <3>1
    <3> QED
      BY <1>3, <1>4, <2>2, <3>2
  <2> QED
    BY <2>1, <2>2
<1>7. QuietEndpoint("client") /\ QuietEndpoint("server")
  BY DEF Damage, QuietEndpoint
<1> QED
  BY <1>6, <1>7, QuietStep

-----------------------------------------------------------------------------
\* Initially nothing is written and no key is derived.
LEMMA InitSession == Init => SessionInvariant
<1> SUFFICES ASSUME Init
             PROVE  SessionInvariant
  OBVIOUS
<1>1. \A p \in Roles : ep[p].st = "WaitingForProtoVersion"
  BY DEF Init, Roles
<1>2. Len(wire["server"]) = 0
  BY DEF Init, Roles
<1> QED
  BY <1>1, <1>2 DEF SessionInvariant, SignedByServer, SelectionFromProposals,
     KeysFromSession, SameSession, KeysDerived, Roles

\* Every step keeps the session invariant.
LEMMA NextSession ==
  ASSUME TypeOK, SessionInvariant, [Next]_vars
  PROVE  SessionInvariant'
<1>1. CASE UNCHANGED vars
  BY <1>1, CloseSession DEF vars
<1>2. CASE Start
  BY <1>2, StartSession
<1>3. CASE ClientReceive
  BY <1>3, ClientReceiveProtoVersionSession, ClientReceiveServerKexinitSession,
     ClientReceiveKexReplySession, ReceiveNewkeysSession, AbandonSession
  DEF ClientReceive, Hangup, Roles
<1>4. CASE ServerReceive
  BY <1>4, ServerReceiveProtoVersionSession, ServerReceiveClientKexinitSession,
     ServerReceiveKexdhInitSession, ReceiveNewkeysSession, AbandonSession
  DEF ServerReceive, Hangup, Roles
<1>5. ASSUME NEW p \in Roles, Ready(p) \/ ReadError(p) \/ Damage(p)
      PROVE  SessionInvariant'
  BY <1>5, SendPacketSession, ReadPacketSession, ReadPacketErrorSession, CloseSession,
     AbandonSession, DamageSession DEF Ready, ReadError, Close
<1> QED
  BY <1>1, <1>2, <1>3, <1>4, <1>5 DEF Next

\* The invariant is what the property promises: both keys of an endpoint are
\* a function of its session id, and the two session ids are equal.
LEMMA SessionImpliesAgreement ==
  ASSUME SessionInvariant
  PROVE  SessionAgreement
<1> SUFFICES ASSUME ep["client"].st \in KeysDerived, ep["server"].st # "Failed"
             PROVE  /\ ep["server"].st \in KeysDerived
                    /\ ep["client"].session_id = ep["server"].session_id
                    /\ SealingKey("client") = OpeningKey("server")
                    /\ SealingKey("server") = OpeningKey("client")
  BY DEF SessionInvariant, SameSession, SessionAgreement
<1>1. /\ ep["server"].st \in KeysDerived
      /\ ep["client"].session_id = ep["server"].session_id
  BY DEF SessionInvariant, SameSession
<1>2. \A p \in {"client", "server"} :
        /\ SealingKey(p) = SessionKey(EncoderDir(p), ep[p].session_id)
        /\ OpeningKey(p) = SessionKey(EncoderDir(Peer(p)), ep[p].session_id)
  BY <1>1 DEF SessionInvariant, KeysFromSession, Roles
<1>3. Peer("client") = "server" /\ Peer("server") = "client"
  BY DEF Peer
<1> QED
  BY <1>1, <1>2, <1>3

\* The session invariant: the server signs only what it sent and received, both
\* selections follow from the two proposals that were hashed, every key comes
\* from the session, and there is only one (receive_kexdh_init,
\* receive_kex_reply, derive_keys), for all constants, faults and damage.
THEOREM SessionInvariantHolds == Spec => []SessionInvariant
<1>1. Init => TypeOK /\ SessionInvariant
  BY InitType, InitSession
<1>2. TypeOK /\ SessionInvariant /\ [Next]_vars => TypeOK' /\ SessionInvariant'
  BY NextType, NextSession
<1> QED
  BY <1>1, <1>2, PTL DEF Spec

\* Session agreement: a client that has accepted the server's reply and a
\* server that has not failed are in one session, with the same id and, in
\* each direction, the same key at both ends, for every choice of proposals,
\* host keys, primes, faults and damage (receive_kex_reply, receive_kexdh_init).
THEOREM SessionCorrect == Spec => []SessionAgreement
BY SessionInvariantHolds, SessionImpliesAgreement, PTL

-----------------------------------------------------------------------------
\* The invariant.

\* The client has read a signed reply (one over the hash h).
IsReply(j) == Signed(wire["server"][j].msg)
ReadReply(h) ==
  \E j \in 1 .. rd["client"] : IsReply(j) /\ wire["server"][j].msg.signature.over = h

ClientHasRead == ep["client"].st \in KeysDerived => ReadReply(ep["client"].session_id)

AnnouncedAfterReply ==
  \A i \in 1 .. Len(wire["client"]) : wire["client"][i].msg.type = "NEWKEYS" =>
    \E j \in 1 .. rd["client"] : IsReply(j)

ReadyAfterReply == ep["server"].st = "Ready" => ReadReply(ep["server"].session_id)

PayloadsSealed ==
  \A p \in Roles : \A i \in 1 .. Len(wire[p]) :
    LET u == wire[p][i]
    IN  u.msg.type = "PAYLOAD" =>
          u.key = SessionKey(EncoderDir(p), u.key.hash) /\ ReadReply(u.key.hash)

SealInv == ClientHasRead /\ AnnouncedAfterReply /\ ReadyAfterReply /\ PayloadsSealed

-----------------------------------------------------------------------------
\* Most steps are plain: what the client has read stays, no new unit of the
\* kinds the invariant speaks of is written, and no endpoint gets further.

Marked(p) == IF p = "client" THEN {"PAYLOAD", "NEWKEYS"} ELSE {"PAYLOAD"}

KeepsReads ==
  \A j \in 1 .. rd["client"] :
    j \in 1 .. rd'["client"] /\ wire'["server"][j] = wire["server"][j]

WritesPlain ==
  \A p \in Roles : \A i \in 1 .. Len(wire'[p]) :
    wire'[p][i].msg.type \in Marked(p) =>
      \E k \in 1 .. Len(wire[p]) : /\ wire[p][k].msg.type = wire'[p][i].msg.type
                                   /\ wire[p][k].key = wire'[p][i].key

\* The states in which the invariant speaks of p's session.
Speaking(p) == IF p = "client" THEN KeysDerived ELSE {"Ready"}
Steady(p, next) ==
  next.st \in Speaking(p) =>
    ep[p].st \in Speaking(p) /\ next.session_id = ep[p].session_id

\* What the client has read it has read for good.
LEMMA ReadsStay ==
  ASSUME KeepsReads
  PROVE  /\ \A h : ReadReply(h) => ReadReply(h)'
         /\ (\E j \in 1 .. rd["client"] : IsReply(j)) => (\E j \in 1 .. rd["client"] : IsReply(j))'
BY DEF KeepsReads, ReadReply, IsReply

\* A plain step keeps what the invariant says of the wires, and of the client.
LEMMA PlainParts ==
  ASSUME SealInv, KeepsReads, WritesPlain, Steady("client", ep'["client"])
  PROVE  ClientHasRead' /\ AnnouncedAfterReply' /\ PayloadsSealed'
<1>1. ClientHasRead'
  BY ReadsStay DEF SealInv, ClientHasRead, Steady, Speaking
<1>2. AnnouncedAfterReply'
  <2> SUFFICES ASSUME NEW i \in 1 .. Len(wire'["client"]), wire'["client"][i].msg.type = "NEWKEYS"
               PROVE  (\E j \in 1 .. rd["client"] : IsReply(j))'
    BY DEF AnnouncedAfterReply
  <2>1. \E k \in 1 .. Len(wire["client"]) : wire["client"][k].msg.type = "NEWKEYS"
    BY DEF WritesPlain, Marked, Roles
  <2> QED
    BY <2>1, ReadsStay DEF SealInv, AnnouncedAfterReply
<1>3. PayloadsSealed'
  <2>1. ASSUME NEW p \in Roles, NEW i \in 1 .. Len(wire'[p]), NEW key,
               wire'[p][i].msg.type = "PAYLOAD", wire'[p][i].key = key
        PROVE  key = SessionKey(EncoderDir(p), key.hash) /\ ReadReply(key.hash)'
    <3>1. PICK k \in 1 .. Len(wire[p]) : wire[p][k].msg.type = "PAYLOAD" /\ wire[p][k].key = key
      BY <2>1 DEF WritesPlain, Marked
    <3>2. key = SessionKey(EncoderDir(p), key.hash) /\ ReadReply(key.hash)
      BY <3>1 DEF SealInv, PayloadsSealed
    <3> QED
      BY <3>2, ReadsStay
  <2> QED
    BY <2>1 DEF PayloadsSealed, ReadReply, IsReply
<1> QED
  BY <1>1, <1>2, <1>3

\* A plain step keeps the invariant.
LEMMA PlainStep ==
  ASSUME SealInv, KeepsReads, WritesPlain,
         Steady("client", ep'["client"]), Steady("server", ep'["server"])
  PROVE  SealInv'
<1>1. ReadyAfterReply'
  BY ReadsStay DEF SealInv, ReadyAfterReply, Steady, Speaking
<1> QED
  BY <1>1, PlainParts DEF SealInv

-----------------------------------------------------------------------------
\* Writes.

\* What a failing write leaves on the wire has the messages, keys, keystream
\* places and sequence numbers of what it was to write.
LEMMA CutsUnits ==
  ASSUME NEW out \in Seq(Units), NEW cut \in Cuts(out), NEW i \in 1 .. Len(cut)
  PROVE  /\ i \in 1 .. Len(out)
         /\ cut[i].msg = out[i].msg
         /\ cut[i].key = out[i].key /\ cut[i].pos = out[i].pos /\ cut[i].seq = out[i].seq
<1>1. CASE \E n \in 0 .. Len(out) : cut = SubSeq(out, 1, n)
  BY <1>1
<1>2. ASSUME NEW n \in 0 .. (Len(out) - 1), cut = Append(SubSeq(out, 1, n), CutShort(out[n + 1]))
      PROVE  /\ i \in 1 .. Len(out)
             /\ cut[i].msg = out[i].msg
             /\ cut[i].key = out[i].key /\ cut[i].pos = out[i].pos /\ cut[i].seq = out[i].seq
  <2>1. SubSeq(out, 1, n) \in Seq(Units) /\ Len(SubSeq(out, 1, n)) = n
    OBVIOUS
  <2>2. Len(cut) = n + 1
    BY <1>2, <2>1
  <2>3. CASE i = n + 1
    <3>1. out[n + 1] \in Units /\ cut[i] = CutShort(out[n + 1])
      BY <1>2, <2>1, <2>3
    <3>2. /\ CutShort(out[n + 1]).msg = out[n + 1].msg
          /\ CutShort(out[n + 1]).key = out[n + 1].key
          /\ CutShort(out[n + 1]).pos = out[n + 1].pos
          /\ CutShort(out[n + 1]).seq = out[n + 1].seq
      BY <3>1 DEF CutShort, Units
    <3> QED
      BY <2>3, <3>1, <3>2
  <2>4. CASE i # n + 1
    BY <1>2, <2>1, <2>2, <2>4
  <2> QED
    BY <2>3, <2>4
<1> QED
  BY <1>1, <1>2 DEF Cuts

\* A write, whole or cut short, appends units with the messages and the keys
\* of what was to be written.
LEMMA WriteAppends ==
  ASSUME TypeOK, NEW p \in Roles, NEW out \in Seq(Units), Write(p, out),
         NEW q \in Roles
  PROVE  /\ \A i \in 1 .. Len(wire[q]) : i \in 1 .. Len(wire'[q]) /\ wire'[q][i] = wire[q][i]
         /\ \A i \in 1 .. Len(wire'[q]) :
              \/ i \in 1 .. Len(wire[q]) /\ wire'[q][i] = wire[q][i]
              \/ q = p /\ \E k \in 1 .. Len(out) : wire'[q][i] = out[k]
<1>1. wire \in [Roles -> Seq(Units)]
  BY DEF TypeOK
<1>2. CASE q = p
  <2> DEFINE w == wire[q]
  <2>1. wire'[q] = w \o out /\ w \in Seq(Units)
    BY <1>1, <1>2 DEF Write
  <2>2. Len(w) \in Nat /\ Len(out) \in Nat /\ Len(w \o out) = Len(w) + Len(out)
    BY <2>1
  <2> HIDE DEF w
  <2>3. \A i \in 1 .. Len(w) : i \in 1 .. Len(w \o out) /\ (w \o out)[i] = w[i]
    BY <2>1, <2>2
  <2>4. ASSUME NEW i \in 1 .. Len(w \o out), i > Len(w)
        PROVE  \E k \in 1 .. Len(out) : (w \o out)[i] = out[k]
    <3>1. i - Len(w) \in 1 .. Len(out) /\ (w \o out)[i] = out[i - Len(w)]
      BY <2>1, <2>2, <2>4
    <3> QED
      BY <3>1
  <2>5. \A i \in 1 .. Len(w \o out) : i \in 1 .. Len(w) \/ i > Len(w)
    BY <2>2
  <2>6. \A i \in 1 .. Len(w \o out) :
          \/ i \in 1 .. Len(w) /\ (w \o out)[i] = w[i]
          \/ \E k \in 1 .. Len(out) : (w \o out)[i] = out[k]
    <3> TAKE i \in 1 .. Len(w \o out)
    <3>1. CASE i \in 1 .. Len(w)
      BY <2>3, <3>1
    <3>2. CASE i > Len(w)
      BY <2>4, <3>2
    <3> QED
      BY <2>5, <3>1, <3>2
  <2>7. wire'[q] = w \o out
    BY <2>1
  <2> DEFINE joined == w \o out
  <2> HIDE DEF joined
  <2>8. /\ \A i \in 1 .. Len(w) : i \in 1 .. Len(joined) /\ joined[i] = w[i]
        /\ \A i \in 1 .. Len(joined) :
             \/ i \in 1 .. Len(w) /\ joined[i] = w[i]
             \/ \E k \in 1 .. Len(out) : joined[i] = out[k]
    BY <2>3, <2>6 DEF joined
  <2>9. w = wire[q] /\ joined = wire'[q]
    BY <2>7 DEF w, joined
  <2> QED
    BY <1>2, <2>8, <2>9, Zenon
<1>3. CASE q # p
  <2>1. wire'[q] = wire[q]
    BY <1>1, <1>3 DEF Write
  <2> QED
    BY <2>1
<1> QED
  BY <1>2, <1>3

\* A write leaves alone what the client has read.
LEMMA WriteKeepsReads ==
  ASSUME TypeOK, NEW p \in Roles, NEW out \in Seq(Units), Write(p, out),
         \/ rd' = rd
         \/ \E q \in Roles : rd' = [rd EXCEPT ![q] = @ + 1]
  PROVE  KeepsReads
<1>1. rd["client"] \in Nat /\ rd["client"] <= Len(wire["server"]) /\ "server" \in Roles
  BY DEF TypeOK, Roles, Peer
<1>2. rd'["client"] \in Nat /\ rd'["client"] >= rd["client"]
  BY <1>1 DEF TypeOK, Roles
<1>3. Len(wire["server"]) \in Nat
  BY <1>1 DEF TypeOK
<1>4. \A j \in 1 .. rd["client"] : j \in 1 .. Len(wire["server"]) /\ j \in 1 .. rd'["client"]
  BY <1>1, <1>2, <1>3
<1>5. \A j \in 1 .. Len(wire["server"]) : wire'["server"][j] = wire["server"][j]
  BY <1>1, WriteAppends
<1> QED
  BY <1>4, <1>5 DEF KeepsReads

\* A write of plain messages is plain.
Plain(p, out) == \A k \in 1 .. Len(out) : out[k].msg.type \notin Marked(p)
\* What p writes without a marked message is such a write.
LEMMA WriteIsPlain ==
  ASSUME TypeOK, NEW p \in Roles, NEW out \in Seq(Units), Write(p, out), Plain(p, out)
  PROVE  WritesPlain
<1> SUFFICES ASSUME NEW q \in Roles, NEW i \in 1 .. Len(wire'[q]),
                    wire'[q][i].msg.type \in Marked(q)
             PROVE  \E k \in 1 .. Len(wire[q]) : /\ wire[q][k].msg.type = wire'[q][i].msg.type
                                                 /\ wire[q][k].key = wire'[q][i].key
  BY DEF WritesPlain
<1>1. i \in 1 .. Len(wire[q]) /\ wire'[q][i] = wire[q][i]
  BY WriteAppends DEF Plain
<1> QED
  BY <1>1

\* What is left of plain messages by a failing write is plain.
LEMMA CutsPlain ==
  ASSUME NEW p \in Roles, NEW out \in Seq(Units), Plain(p, out), NEW cut \in Cuts(out)
  PROVE  cut \in Seq(Units) /\ Plain(p, cut)
BY CutsType, CutsUnits DEF Plain

-----------------------------------------------------------------------------
\* Handlers.

\* An endpoint that gives up says nothing of its session; the other is as it was.
LEMMA GiveUpSteady ==
  ASSUME TypeOK, NEW p \in Roles, GiveUp(p)
  PROVE  Steady("client", ep'["client"]) /\ Steady("server", ep'["server"])
BY DEF TypeOK, GiveUp, Failed, Steady, Speaking, KeysDerived, Roles

\* A handler that returns Err after plain output keeps the invariant.
LEMMA RefusePlain ==
  ASSUME TypeOK, SealInv, NEW p \in Roles, NEW out \in Seq(Units), Plain(p, out),
         Refuse(p, out)
  PROVE  SealInv'
<1>1. PICK units \in Seq(Units) : Write(p, units) /\ Plain(p, units)
  BY CutsPlain DEF Refuse
<1>2. WritesPlain
  BY <1>1, WriteIsPlain
<1>3. KeepsReads
  BY <1>1, WriteKeepsReads DEF Refuse, Consume
<1> QED
  BY <1>2, <1>3, GiveUpSteady, PlainStep DEF Refuse

\* A handler that returns Ok after plain output keeps it too, unless its next
\* state is one the invariant speaks of.
LEMMA ProceedPlain ==
  ASSUME TypeOK, SealInv, NEW p \in Roles, NEW next, NEW out \in Seq(Units), Plain(p, out),
         Steady(p, next), Proceed(p, next, out)
  PROVE  SealInv'
<1>1. PICK units \in Seq(Units) : Write(p, units) /\ Plain(p, units)
  BY CutsPlain DEF Proceed
<1>2. WritesPlain
  BY <1>1, WriteIsPlain
<1>3. KeepsReads
  BY <1>1, WriteKeepsReads DEF Proceed, Consume
<1>4. CASE GiveUp(p)
  BY <1>2, <1>3, <1>4, GiveUpSteady, PlainStep
<1>5. CASE ep' = [ep EXCEPT ![p] = next]
  <2>1. ep'[p] = next /\ \A q \in Roles : q # p => ep'[q] = ep[q]
    BY <1>5 DEF TypeOK
  <2>2. \A q \in Roles : Steady(q, ep'[q])
    BY <2>1 DEF Steady
  <2> QED
    BY <1>2, <1>3, <2>2, PlainStep DEF Roles
<1> QED
  BY <1>4, <1>5 DEF Proceed

\* No output is plain output.
LEMMA EmptyPlain == \A p : Plain(p, <<>>)
BY DEF Plain

\* One unit that is no payload and no NEWKEYS is plain output.
LEMMA UnitPlain ==
  ASSUME NEW p \in Roles, NEW codec \in Codecs, NEW seq \in Nat, NEW msg \in Messages,
         msg.type \notin {"PAYLOAD", "NEWKEYS"}
  PROVE  <<Build(codec, seq, msg)>> \in Seq(Units) /\ Plain(p, <<Build(codec, seq, msg)>>)
<1> DEFINE unit == Build(codec, seq, msg)
<1>1. unit \in Units /\ unit.msg = msg
  BY BuildType DEF Build
<1> HIDE DEF unit
<1>2. <<unit>> \in Seq(Units) /\ Plain(p, <<unit>>)
  BY <1>1 DEF Plain, Marked
<1> QED
  BY <1>2 DEF unit

\* So is an identification line.
LEMMA LinePlain ==
  ASSUME NEW p \in Roles
  PROVE  <<Line(p)>> \in Seq(Units) /\ Plain(p, <<Line(p)>>)
<1>1. IdLine(OwnId[p]) \in Messages /\ IdLine(OwnId[p]).type = "ID"
  BY TransportAssumption DEF IdLine, Messages
<1> QED
  BY <1>1, CodecTypes, UnitPlain DEF Line

\* start writes nothing but an identification line.
LEMMA StartSeals ==
  ASSUME TypeOK, SealInv, Start
  PROVE  SealInv'
<1>1. "client" \in Roles
  BY DEF Roles
<1>2. PICK units \in Seq(Units) : Write("client", units) /\ Plain("client", units)
  BY <1>1, LinePlain, CutsPlain DEF Start, StartOk, StartErr
<1>3. WritesPlain /\ KeepsReads
  BY <1>1, <1>2, WriteIsPlain, WriteKeepsReads DEF Start
<1>4. Steady("client", ep'["client"]) /\ Steady("server", ep'["server"])
  BY DEF Start, Steady
<1> QED
  BY <1>3, <1>4, PlainStep

\* The client's first handler writes its KEXINIT.
LEMMA ClientReceiveProtoVersionSeals ==
  ASSUME TypeOK, SealInv, ClientReceiveProtoVersion
  PROVE  SealInv'
<1> DEFINE c == ep["client"]
           msg == NextUnit("client").msg
<1>1. "client" \in Roles
  BY DEF Roles
<1>2. CASE Refuse("client", <<>>)
  BY <1>1, <1>2, EmptyPlain, EmptyType, RefusePlain
<1>3. ASSUME NEW kexinit \in KexInits,
             Proceed("client", ClientAfterProtoVersion(c, msg, kexinit),
                     <<Build(Naked, 0, kexinit)>>)
      PROVE  SealInv'
  <2> DEFINE out == <<Build(Naked, 0, kexinit)>>
             next == ClientAfterProtoVersion(c, msg, kexinit)
  <2>1. kexinit \in Messages /\ kexinit.type = "KEXINIT"
    BY DEF Messages, KexInits
  <2>2. out \in Seq(Units) /\ Plain("client", out)
    BY <1>1, <2>1, CodecTypes, UnitPlain
  <2>3. Steady("client", next)
    BY DEF ClientAfterProtoVersion, Steady, Speaking, KeysDerived
  <2> HIDE DEF out, next
  <2>4. Proceed("client", next, out)
    BY <1>3 DEF out, next
  <2> QED
    BY <1>1, <2>2, <2>3, <2>4, ProceedPlain
<1> QED
  BY <1>1, <1>2, <1>3, KexInitType DEF ClientReceiveProtoVersion

\* Its second writes the client's public value.
LEMMA ClientReceiveServerKexinitSeals ==
  ASSUME TypeOK, SealInv, ClientReceiveServerKexinit
  PROVE  SealInv'
<1> DEFINE c == ep["client"]
           msg == NextUnit("client").msg
           neg == client_negotiate(c.client_kexinit.offer, msg.offer)
<1>1. "client" \in Roles
  BY DEF Roles
<1>2. c \in ClientAtKexInit
  BY ClientVariant DEF ClientReceiveServerKexinit, At
<1>3. CASE Refuse("client", <<>>)
  BY <1>1, <1>3, EmptyPlain, EmptyType, RefusePlain
<1>4. ASSUME Negotiable(c.client_kexinit.offer, msg.offer),
             NEW secret \in DhSecrets(neg["kex"]),
             Proceed("client", ClientAfterKexInit(c, msg, neg, secret),
               <<Build(c.encoder, c.send_seq, KexDhInit(PublicValue(neg["kex"], secret)))>>)
      PROVE  SealInv'
  <2> DEFINE init == KexDhInit(PublicValue(neg["kex"], secret))
             out == <<Build(c.encoder, c.send_seq, init)>>
             next == ClientAfterKexInit(c, msg, neg, secret)
  <2>1. init \in Messages /\ init.type = "KEXDH_INIT"
    <3>1. neg["kex"] \in KexNames
      BY <1>4, NegotiatedType, NegotiatedKex
    <3>2. PublicValue(neg["kex"], secret) \in Nat
      BY <1>4, <3>1, SecretType, DhType
    <3> QED
      BY <3>2 DEF KexDhInit, Messages
  <2>2. Steady("client", next)
    BY DEF ClientAfterKexInit, Steady, Speaking, KeysDerived
  <2>3. Proceed("client", next, out)
    BY <1>4
  <2>4. c.encoder \in Codecs /\ c.send_seq \in Nat
    BY <1>2 DEF ClientAtKexInit
  <2> HIDE DEF init, next
  <2>5. out \in Seq(Units) /\ Plain("client", out)
    BY <1>1, <2>1, <2>4, UnitPlain
  <2> HIDE DEF out
  <2> QED
    BY <1>1, <2>2, <2>3, <2>5, ProceedPlain
<1> QED
  BY <1>3, <1>4 DEF ClientReceiveServerKexinit

\* The server's first handler writes its line.
LEMMA ServerReceiveProtoVersionSeals ==
  ASSUME TypeOK, SealInv, ServerReceiveProtoVersion
  PROVE  SealInv'
<1> DEFINE next == ServerAfterProtoVersion(ep["server"], NextUnit("server").msg)
<1>1. "server" \in Roles
  BY DEF Roles
<1>2. CASE Refuse("server", <<>>)
  BY <1>1, <1>2, EmptyPlain, EmptyType, RefusePlain
<1>3. CASE Proceed("server", next, <<Line("server")>>)
  <2>1. Steady("server", next)
    BY DEF ServerAfterProtoVersion, Steady, Speaking
  <2> HIDE DEF next
  <2> QED
    BY <1>1, <1>3, <2>1, LinePlain, ProceedPlain
<1> QED
  BY <1>2, <1>3 DEF ServerReceiveProtoVersion

\* Its second writes its KEXINIT, also when it then refuses.
LEMMA ServerReceiveClientKexinitSeals ==
  ASSUME TypeOK, SealInv, ServerReceiveClientKexinit
  PROVE  SealInv'
<1> DEFINE s == ep["server"]
           msg == NextUnit("server").msg
<1>1. "server" \in Roles
  BY DEF Roles
<1>2. s \in ServerAtKexInit
  BY ServerVariant DEF ServerReceiveClientKexinit, At
<1>3. CASE Refuse("server", <<>>)
  BY <1>1, <1>3, EmptyPlain, EmptyType, RefusePlain
<1>4. ASSUME NEW cookie \in Cookies, NEW offer \in OwnOffers["server"],
             LET kexinit == KexInit(cookie, offer)
                 out == <<Build(s.encoder, s.send_seq, kexinit)>>
             IN  Refuse("server", out) \/ Proceed("server", ServerAfterKexInit(s, msg, kexinit), out)
      PROVE  SealInv'
  <2> DEFINE kexinit == KexInit(cookie, offer)
             out == <<Build(s.encoder, s.send_seq, kexinit)>>
             next == ServerAfterKexInit(s, msg, kexinit)
  <2>1. kexinit \in Messages /\ kexinit.type = "KEXINIT"
    BY <1>1, KexInitType DEF KexInit
  <2>2. Steady("server", next)
    BY DEF ServerAfterKexInit, Steady, Speaking
  <2>3. Refuse("server", out) \/ Proceed("server", next, out)
    BY <1>4
  <2>4. s.encoder \in Codecs /\ s.send_seq \in Nat
    BY <1>2 DEF ServerAtKexInit
  <2> HIDE DEF kexinit, next
  <2>5. out \in Seq(Units) /\ Plain("server", out)
    BY <1>1, <2>1, <2>4, UnitPlain
  <2> HIDE DEF out
  <2> QED
    BY <1>1, <2>2, <2>3, <2>5, ProceedPlain, RefusePlain
<1> QED
  BY <1>3, <1>4 DEF ServerReceiveClientKexinit

\* Its third writes the reply and NEWKEYS, but gets no session to speak of yet.
LEMMA ServerReceiveKexdhInitSeals ==
  ASSUME TypeOK, SealInv, ServerReceiveKexdhInit
  PROVE  SealInv'
<1> DEFINE s == ep["server"]
           msg == NextUnit("server").msg
<1>1. "server" \in Roles /\ Unread("server") /\ s.st = "WaitingForKexDhInit"
  BY DEF Roles, ServerReceiveKexdhInit, At, Readable
<1>2. s \in ServerAtKexDhInit /\ msg \in Messages
  BY <1>1, ServerVariant, NextUnitType
<1>3. CASE Refuse("server", <<>>)
  BY <1>1, <1>3, EmptyPlain, EmptyType, RefusePlain
<1>4. ASSUME Received("server", "KEXDH_INIT"),
             NEW secret \in DhSecrets(s.negotiated["kex"]),
             Proceed("server", ServerAfterKexDhInit(s, msg.e, secret),
               <<Build(s.encoder, s.send_seq, ServerReply(s, msg.e, secret)),
                 Build(Advance(s.encoder), SeqAdd(s.send_seq, 1), NewKeys)>>)
      PROVE  SealInv'
  <2> DEFINE next == ServerAfterKexDhInit(s, msg.e, secret)
             reply == Build(s.encoder, s.send_seq, ServerReply(s, msg.e, secret))
             newkeys == Build(Advance(s.encoder), SeqAdd(s.send_seq, 1), NewKeys)
  <2>1. msg.e \in Nat
    BY <1>2, <1>4, MessageVariant DEF Received
  <2>2. reply \in Units /\ newkeys \in Units
    <3>1. ServerReply(s, msg.e, secret) \in Messages /\ NewKeys \in Messages
      BY <1>2, <1>4, <2>1, ServerReplyType DEF Messages
    <3>2. /\ s.encoder \in Codecs /\ Advance(s.encoder) \in Codecs
          /\ s.send_seq \in Nat /\ SeqAdd(s.send_seq, 1) \in Nat
      BY <1>2, CodecTypes, SeqAddType DEF ServerAtKexDhInit
    <3> QED
      BY <3>1, <3>2, BuildType
  <2>3. reply.msg.type = "KEXDH_REPLY" /\ newkeys.msg.type = "NEWKEYS"
    BY DEF ServerReply, KexDhReply, Build, NewKeys
  <2>4. Steady("server", next)
    BY DEF ServerAfterKexDhInit, Steady, Speaking
  <2>5. Proceed("server", next, <<reply, newkeys>>)
    BY <1>4
  <2> HIDE DEF next, reply, newkeys
  <2>6. <<reply, newkeys>> \in Seq(Units) /\ Plain("server", <<reply, newkeys>>)
    BY <2>2, <2>3 DEF Plain, Marked
  <2> QED
    BY <1>1, <2>4, <2>5, <2>6, ProceedPlain
<1> QED
  BY <1>3, <1>4 DEF ServerReceiveKexdhInit

\* The reply the client accepts is signed, over the hash that becomes its
\* session id, and it has now been read; so it may announce its keys.
LEMMA ClientReceiveKexReplySeals ==
  ASSUME TypeOK, SealInv, ClientReceiveKexReply
  PROVE  SealInv'
<1> DEFINE c == ep["client"]
           msg == NextUnit("client").msg
           n == rd["client"] + 1
           hash == ClientHash(c, msg)
           next == ClientAfterKexReply(c, msg)
           out == <<Build(c.encoder, c.send_seq, NewKeys)>>
<1>1. "client" \in Roles /\ "server" \in Roles /\ Unread("client") /\ c.st = "WaitingForKexReply"
  BY DEF Roles, ClientReceiveKexReply, At, Readable
<1>2. c \in ClientAtKexReply /\ msg \in Messages
  BY <1>1, ClientVariant, NextUnitType
<1>3. CASE Refuse("client", <<>>)
  BY <1>1, <1>3, EmptyPlain, EmptyType, RefusePlain
<1>4. CASE /\ Received("client", "KEXDH_REPLY") /\ ClientAccepts(c, msg)
           /\ Proceed("client", next, out)
  <2>1. msg.k_s \in HostKeys /\ msg.type = "KEXDH_REPLY" /\ msg.signature = Sign(msg.k_s, hash)
    BY <1>2, <1>4, MessageVariant DEF Received, ClientAccepts, Verifies
  <2>2. Signed(msg) /\ msg.signature.over = hash
    BY <2>1, NobodyAssumption DEF Signed, Sign
  <2>3. n \in 1 .. Len(wire["server"]) /\ msg = wire["server"][n].msg
    BY <1>1, NextUnitType DEF Peer, NextUnit
  <2>4. out \in Seq(Units) /\ \A k \in 1 .. Len(out) : out[k].msg.type # "PAYLOAD"
    <3>1. NewKeys \in Messages /\ NewKeys.type # "PAYLOAD"
      BY DEF Messages, NewKeys
    <3>2. Build(c.encoder, c.send_seq, NewKeys) \in Units
          /\ Build(c.encoder, c.send_seq, NewKeys).msg = NewKeys
      BY <1>2, <3>1, BuildType DEF ClientAtKexReply, Build
    <3> QED
      BY <3>1, <3>2
  <2>5. next.session_id = hash
    BY DEF ClientAfterKexReply
  <2>6. Proceed("client", next, out)
    BY <1>4
  <2> HIDE DEF out, next, hash, msg
  <2>7. PICK units \in Seq(Units) :
          Write("client", units) /\ \A k \in 1 .. Len(units) : units[k].msg.type # "PAYLOAD"
    <3>1. \A cut \in Cuts(out) :
            cut \in Seq(Units) /\ \A k \in 1 .. Len(cut) : cut[k].msg.type # "PAYLOAD"
      BY <2>4, CutsType, CutsUnits
    <3> QED
      BY <2>4, <2>6, <3>1 DEF Proceed
  <2>8. rd' = [rd EXCEPT !["client"] = @ + 1]
    BY <2>6 DEF Proceed, Consume
  <2>9. KeepsReads
    BY <1>1, <2>7, <2>8, WriteKeepsReads
  <2>10. \E j \in 1 .. rd'["client"] : /\ Signed(wire'["server"][j].msg)
                                      /\ wire'["server"][j].msg.signature.over = hash
    <3>1. n \in 1 .. rd'["client"]
      <4>1. rd["client"] \in Nat /\ rd'["client"] = n
        BY <1>1, <2>8 DEF TypeOK
      <4> QED
        BY <4>1
    <3>2. wire'["server"][n] = wire["server"][n]
      BY <1>1, <2>3, <2>7, WriteAppends
    <3> HIDE DEF n
    <3> QED
      BY <2>2, <2>3, <3>1, <3>2
  <2>11. ep'["server"] = ep["server"] /\ (ep'["client"] = next \/ ep'["client"] = Failed)
    BY <2>6 DEF Proceed, GiveUp, TypeOK, Roles
  <2>12. ClientHasRead'
    <3>1. ep'["client"].st \in KeysDerived => ep'["client"].session_id = hash
      BY <2>5, <2>11 DEF Failed, KeysDerived
    <3> QED
      BY <2>10, <3>1 DEF ClientHasRead, ReadReply, IsReply
  <2>13. AnnouncedAfterReply'
    BY <2>10 DEF AnnouncedAfterReply, IsReply
  <2>14. ReadyAfterReply'
    BY <2>9, <2>11, ReadsStay DEF SealInv, ReadyAfterReply
  <2>15. PayloadsSealed'
    <3>1. ASSUME NEW p \in Roles, NEW i \in 1 .. Len(wire'[p]), NEW key,
                 wire'[p][i].msg.type = "PAYLOAD", wire'[p][i].key = key
          PROVE  key = SessionKey(EncoderDir(p), key.hash) /\ ReadReply(key.hash)'
      <4>1. i \in 1 .. Len(wire[p]) /\ wire[p][i] = wire'[p][i]
        BY <1>1, <2>7, <3>1, WriteAppends
      <4>2. key = SessionKey(EncoderDir(p), key.hash) /\ ReadReply(key.hash)
        BY <3>1, <4>1 DEF SealInv, PayloadsSealed
      <4> QED
        BY <2>9, <4>2, ReadsStay
    <3> QED
      BY <3>1 DEF PayloadsSealed, ReadReply, IsReply
  <2> QED
    BY <2>12, <2>13, <2>14, <2>15 DEF SealInv
<1> QED
  BY <1>3, <1>4 DEF ClientReceiveKexReply

\* The change of keys.  The client has been speaking of its session before; the
\* server gets here by a NEWKEYS that the client wrote after the reply it read.
LEMMA ReceiveNewkeysSeals ==
  ASSUME TypeOK, SessionInvariant, SealInv, NEW p \in Roles, ReceiveNewkeys(p)
  PROVE  SealInv'
<1> DEFINE next == AfterNewKeys(ep[p])
           id == ep[p].session_id
<1>1. Unread(p) /\ ep[p].st = "WaitingForNewKeys"
  BY DEF ReceiveNewkeys, At, Readable
<1>2. CASE Refuse(p, <<>>)
  BY <1>2, EmptyPlain, EmptyType, RefusePlain
<1>3. CASE Received(p, "NEWKEYS") /\ Proceed(p, next, <<>>)
  <2>1. next.st = "Ready" /\ next.session_id = id
    BY DEF AfterNewKeys
  <2>2. CASE p = "client"
    <3>1. Steady(p, next)
      BY <1>1, <2>1, <2>2 DEF Steady, Speaking, KeysDerived
    <3> HIDE DEF next
    <3> QED
      BY <1>3, <3>1, EmptyPlain, EmptyType, ProceedPlain
  <2>3. CASE p = "server"
    <3>1. ReadReply(id)
      <4>1. /\ rd["server"] + 1 \in 1 .. Len(wire["client"])
            /\ wire["client"][rd["server"] + 1].msg.type = "NEWKEYS"
        BY <1>1, <1>3, <2>3, NextUnitType DEF Received, NextUnit, Peer
      <4>2. PICK j \in 1 .. rd["client"] : IsReply(j)
        BY <4>1 DEF SealInv, AnnouncedAfterReply
      <4>3. j \in 1 .. Len(wire["server"])
        <5>1. wire["server"] \in Seq(Units) /\ rd["client"] \in Nat
              /\ rd["client"] <= Len(wire["server"])
          BY DEF TypeOK, Roles, Peer
        <5> QED
          BY <5>1
      <4>4. wire["server"][j].msg.signature.over = id
        BY <1>1, <2>3, <4>2, <4>3 DEF SessionInvariant, SignedByServer, IsReply
      <4> QED
        BY <4>2, <4>4 DEF ReadReply
    <3> HIDE DEF next, id
    <3>2. PICK units \in Seq(Units) : Write(p, units) /\ Plain(p, units)
      BY <1>3, EmptyPlain, EmptyType, CutsPlain DEF Proceed
    <3>3. WritesPlain /\ KeepsReads
      BY <1>3, <3>2, WriteIsPlain, WriteKeepsReads DEF Proceed, Consume
    <3>4. ep'["client"] = ep["client"] /\ (ep'["server"] = next \/ ep'["server"] = Failed)
      BY <1>3, <2>3 DEF Proceed, GiveUp, TypeOK, Roles
    <3>5. ReadyAfterReply'
      <4>1. ep'["server"].st = "Ready" => ep'["server"].session_id = id
        BY <2>1, <3>4 DEF Failed
      <4>2. \A h : ReadReply(h) => ReadReply(h)'
        BY <3>3, ReadsStay
      <4>3. ASSUME NEW h, h = ep'["server"].session_id, ep'["server"].st = "Ready"
            PROVE  ReadReply(h)'
        BY <3>1, <4>1, <4>2, <4>3
      <4> QED
        BY <4>3 DEF ReadyAfterReply, ReadReply, IsReply
    <3> QED
      <4>1. Steady("client", ep'["client"])
        BY <3>4 DEF Steady
      <4> QED
        BY <3>3, <3>5, <4>1, PlainParts DEF SealInv
  <2> QED
    BY <2>2, <2>3 DEF Roles
<1> QED
  BY <1>2, <1>3 DEF ReceiveNewkeys

\* send_packet seals with the key of the session whose reply was read.
LEMMA SendPacketSeals ==
  ASSUME TypeOK, SessionInvariant, SealInv, NEW p \in Roles, SendPacket(p)
  PROVE  SealInv'
<1> DEFINE x == ep[p]
           unit == Build(x.encoder, x.send_seq, Payload(Len(sends[p]) + 1))
<1>1. x \in AtReady /\ x.st = "Ready"
  BY ReadyVariant DEF SendPacket, Open
<1>2. unit \in Units /\ unit.msg.type = "PAYLOAD" /\ unit.key = x.encoder.key
  <2>1. Payload(Len(sends[p]) + 1) \in Messages /\ Payload(Len(sends[p]) + 1).type = "PAYLOAD"
    BY DEF TypeOK, Payload, Messages
  <2>2. unit.msg = Payload(Len(sends[p]) + 1) /\ unit.key = x.encoder.key
    BY DEF Build
  <2> QED
    BY <1>1, <2>1, <2>2, BuildType DEF AtReady
<1>3. x.encoder.key = SessionKey(EncoderDir(p), x.session_id)
  BY <1>1 DEF SessionInvariant, KeysFromSession, KeysDerived, SealingKey
<1>4. x.encoder.key.hash = x.session_id
  BY <1>3 DEF SessionKey, DerivedKey
<1>5. ReadReply(x.session_id)
  BY <1>1 DEF SealInv, ClientHasRead, ReadyAfterReply, KeysDerived, Roles
<1>6. Write(p, <<unit>>) \/ \E cut \in Cuts(<<unit>>) : Write(p, cut)
  BY DEF SendPacket
<1> HIDE DEF unit
<1>7. PICK units \in Seq(Units) :
        /\ Write(p, units)
        /\ \A k \in 1 .. Len(units) : units[k].msg.type = "PAYLOAD" /\ units[k].key = x.encoder.key
  <2>1. <<unit>> \in Seq(Units)
        /\ \A k \in 1 .. Len(<<unit>>) : <<unit>>[k].msg.type = "PAYLOAD" /\ <<unit>>[k].key = x.encoder.key
    BY <1>2
  <2>2. \A cut \in Cuts(<<unit>>) :
          /\ cut \in Seq(Units)
          /\ \A k \in 1 .. Len(cut) : cut[k].msg.type = "PAYLOAD" /\ cut[k].key = x.encoder.key
    <3> TAKE cut \in Cuts(<<unit>>)
    <3>1. cut \in Seq(Units)
      BY <2>1, CutsType
    <3>2. \A k \in 1 .. Len(cut) : /\ k \in 1 .. Len(<<unit>>)
                                   /\ cut[k].msg = <<unit>>[k].msg
                                   /\ cut[k].key = <<unit>>[k].key
      BY <2>1, CutsUnits
    <3> QED
      BY <2>1, <3>1, <3>2
  <2> QED
    BY <1>6, <2>1, <2>2
<1>8. KeepsReads
  BY <1>7, WriteKeepsReads DEF SendPacket
<1>9. \A q \in Roles : ep'[q].st = ep[q].st /\ (ep[q].st = "Ready" => ep'[q].session_id = ep[q].session_id)
      /\ (q # p => ep'[q] = ep[q])
  <2>1. \A q \in Roles : q # p => ep'[q] = ep[q]
    BY DEF SendPacket, TypeOK
  <2>2. ep'[p] = [x EXCEPT !.encoder = Advance(x.encoder), !.send_seq = SeqAdd(x.send_seq, 1)]
        \/ ep'[p] = [x EXCEPT !.encoder = Advance(x.encoder)]
    BY DEF SendPacket, TypeOK
  <2>3. ep'[p].st = x.st /\ ep'[p].session_id = x.session_id
    BY <1>1, <2>2 DEF AtReady
  <2> QED
    BY <2>1, <2>3
<1>10. ClientHasRead' /\ ReadyAfterReply'
  <2>1. Steady("client", ep'["client"]) /\ Steady("server", ep'["server"])
    BY <1>1, <1>9 DEF Steady, Speaking, Roles
  <2> QED
    BY <1>8, <2>1, ReadsStay DEF SealInv, ClientHasRead, ReadyAfterReply, Steady, Speaking
<1>11. AnnouncedAfterReply'
  <2> SUFFICES ASSUME NEW i \in 1 .. Len(wire'["client"]), wire'["client"][i].msg.type = "NEWKEYS"
               PROVE  (\E j \in 1 .. rd["client"] : IsReply(j))'
    BY DEF AnnouncedAfterReply
  <2>1. i \in 1 .. Len(wire["client"]) /\ wire["client"][i] = wire'["client"][i]
    BY <1>7, WriteAppends DEF Roles
  <2> QED
    BY <1>8, <2>1, ReadsStay DEF SealInv, AnnouncedAfterReply
<1>12. PayloadsSealed'
  <2>1. ASSUME NEW q \in Roles, NEW i \in 1 .. Len(wire'[q]), NEW key,
               wire'[q][i].msg.type = "PAYLOAD", wire'[q][i].key = key
        PROVE  key = SessionKey(EncoderDir(q), key.hash) /\ ReadReply(key.hash)'
    <3>1. key = SessionKey(EncoderDir(q), key.hash) /\ ReadReply(key.hash)
      <4>1. CASE i \in 1 .. Len(wire[q]) /\ wire'[q][i] = wire[q][i]
        BY <2>1, <4>1 DEF SealInv, PayloadsSealed
      <4>2. CASE q = p /\ key = x.encoder.key
        BY <1>3, <1>4, <1>5, <4>2
      <4> QED
        BY <1>7, <2>1, <4>1, <4>2, WriteAppends
    <3> QED
      BY <1>8, <3>1, ReadsStay
  <2> QED
    BY <2>1 DEF PayloadsSealed, ReadReply, IsReply
<1> QED
  BY <1>10, <1>11, <1>12 DEF SealInv

\* A step that writes nothing, and leaves both endpoints in their states and
\* sessions or lets one give up, keeps the invariant.
LEMMA SilentSeals ==
  ASSUME TypeOK, SealInv, UNCHANGED wire,
         \/ rd' = rd
         \/ \E q \in Roles : rd' = [rd EXCEPT ![q] = @ + 1],
         Steady("client", ep'["client"]), Steady("server", ep'["server"])
  PROVE  SealInv'
<1>1. KeepsReads
  <2>1. rd["client"] \in Nat /\ rd'["client"] \in Nat /\ rd'["client"] >= rd["client"]
    BY DEF TypeOK, Roles
  <2> QED
    BY <2>1 DEF KeepsReads
<1>2. WritesPlain
  BY DEF WritesPlain
<1> QED
  BY <1>1, <1>2, PlainStep

\* read_packet, and a read that fails in mid-packet, stay in the session.
LEMMA ReadingSeals ==
  ASSUME TypeOK, SealInv, NEW p \in Roles, ReadPacket(p) \/ ReadPacketError(p)
  PROVE  SealInv'
<1> DEFINE x == ep[p]
<1>1. x \in AtReady /\ x.st = "Ready"
  BY ReadyVariant DEF ReadPacket, ReadPacketError, Open
<1>2. \A q \in Roles : q # p => ep'[q] = ep[q]
  BY DEF ReadPacket, ReadPacketError, TypeOK
<1>3. ep'[p].st = x.st /\ ep'[p].session_id = x.session_id
  <2>1. \/ ep'[p] = [x EXCEPT !.decoder = Advance(x.decoder), !.recv_seq = SeqAdd(x.recv_seq, 1)]
        \/ \E decoder : ep'[p] = [x EXCEPT !.decoder = decoder]
    BY DEF ReadPacket, ReadPacketError, TypeOK
  <2> QED
    BY <1>1, <2>1 DEF AtReady
<1>4. Steady("client", ep'["client"]) /\ Steady("server", ep'["server"])
  BY <1>1, <1>2, <1>3 DEF Steady, Speaking, Roles
<1> QED
  BY <1>4, SilentSeals DEF ReadPacket, ReadPacketError

\* A failed read gives up.
LEMMA AbandonSeals ==
  ASSUME TypeOK, SealInv, NEW p \in Roles, GiveUp(p), UNCHANGED <<wire, rd>>
  PROVE  SealInv'
BY GiveUpSteady, SilentSeals

\* Neither close nor a stuttering step concerns the invariant.
LEMMA IdleSeals ==
  ASSUME TypeOK, SealInv, UNCHANGED <<ep, wire, rd>>
  PROVE  SealInv'
BY SilentSeals DEF Steady

\* Damage makes no payload and no NEWKEYS.
LEMMA GarbledPlain ==
  ASSUME NEW msg \in Messages, NEW m \in Garbled(msg)
  PROVE  m.type \notin {"PAYLOAD", "NEWKEYS"}
BY DEF Garbled, Garbage, IdLine, KexInit, KexDhInit, KexDhReply

\* Damage strikes what is still to be read.
LEMMA DamageSeals ==
  ASSUME TypeOK, SealInv, NEW p \in Roles, Damage(p)
  PROVE  SealInv'
<1> DEFINE q == Peer(p)
           n == rd[p] + 1
<1>1. Unread(p) /\ q \in Roles /\ n \in 1 .. Len(wire[q]) /\ NextUnit(p) \in Units
      /\ NextUnit(p).msg \in Messages /\ NextUnit(p) = wire[q][n]
  BY NextUnitType DEF Damage, NextUnit
<1>2. PICK unit \in Damaged(NextUnit(p)) : wire' = [wire EXCEPT ![q][n] = unit]
  BY DEF Damage
<1>3. unit.msg.type \in {"PAYLOAD", "NEWKEYS"} => unit.msg = NextUnit(p).msg /\ unit.key = NextUnit(p).key
  <2>1. ASSUME NEW m \in Garbled(NextUnit(p).msg), unit = [NextUnit(p) EXCEPT !.msg = m]
        PROVE  unit.msg.type \notin {"PAYLOAD", "NEWKEYS"}
    <3>1. unit.msg = m
      BY <1>1, <2>1 DEF Units
    <3> QED
      BY <1>1, <3>1, GarbledPlain
  <2>2. CASE unit = [NextUnit(p) EXCEPT !.form = "damaged"]
    BY <1>1, <2>2 DEF Units
  <2> QED
    BY <1>2, <2>1, <2>2 DEF Damaged
<1>4. \A r \in Roles : /\ Len(wire'[r]) = Len(wire[r])
                       /\ \A i \in 1 .. Len(wire[r]) :
                            wire'[r][i] = IF r = q /\ i = n THEN unit ELSE wire[r][i]
  <2> HIDE DEF q, n
  <2>1. \A r \in Roles : wire[r] \in Seq(Units)
    BY DEF TypeOK
  <2>2. \A r \in Roles : wire'[r] = IF r = q THEN [wire[q] EXCEPT ![n] = unit] ELSE wire[r]
    BY <1>1, <1>2 DEF TypeOK
  <2> QED
    BY <1>1, <2>1, <2>2
<1>5. KeepsReads
  <2>1. rd' = rd /\ rd["client"] \in Nat /\ "server" \in Roles
        /\ rd["client"] <= Len(wire["server"]) /\ Len(wire["server"]) \in Nat
    BY DEF Damage, TypeOK, Roles, Peer
  <2>2. \A j \in 1 .. rd["client"] : j \in 1 .. Len(wire["server"]) /\ ~("server" = q /\ j = n)
    BY <2>1 DEF Peer, Roles
  <2> QED
    BY <1>4, <2>1, <2>2 DEF KeepsReads
<1>6. WritesPlain
  <2> SUFFICES ASSUME NEW r \in Roles, NEW i \in 1 .. Len(wire'[r]),
                      wire'[r][i].msg.type \in Marked(r)
               PROVE  /\ i \in 1 .. Len(wire[r])
                      /\ wire[r][i].msg.type = wire'[r][i].msg.type
                      /\ wire[r][i].key = wire'[r][i].key
    BY DEF WritesPlain
  <2>1. i \in 1 .. Len(wire[r]) /\ wire'[r][i].msg.type \in {"PAYLOAD", "NEWKEYS"}
    BY <1>4 DEF Marked
  <2> QED
    BY <1>1, <1>3, <1>4, <2>1
<1>7. Steady("client", ep'["client"]) /\ Steady("server", ep'["server"])
  BY DEF Damage, Steady
<1> QED
  BY <1>5, <1>6, <1>7, PlainStep

-----------------------------------------------------------------------------
\* Nothing is written before the first step.
LEMMA InitSeals == Init => SealInv
<1> SUFFICES ASSUME Init
             PROVE  SealInv
  OBVIOUS
<1>1. \A p \in Roles : ep[p].st = "WaitingForProtoVersion" /\ Len(wire[p]) = 0
  BY DEF Init, Roles
<1> QED
  BY <1>1 DEF SealInv, ClientHasRead, AnnouncedAfterReply, ReadyAfterReply, PayloadsSealed,
     KeysDerived, Roles

\* Every step keeps the invariant.
LEMMA NextSeals ==
  ASSUME TypeOK, SessionInvariant, SealInv, [Next]_vars
  PROVE  SealInv'
<1>1. CASE UNCHANGED vars
  BY <1>1, IdleSeals DEF vars
<1>2. CASE Start
  BY <1>2, StartSeals
<1>3. CASE ClientReceive
  BY <1>3, ClientReceiveProtoVersionSeals, ClientReceiveServerKexinitSeals,
     ClientReceiveKexReplySeals, ReceiveNewkeysSeals, AbandonSeals
  DEF ClientReceive, Hangup, Roles
<1>4. CASE ServerReceive
  BY <1>4, ServerReceiveProtoVersionSeals, ServerReceiveClientKexinitSeals,
     ServerReceiveKexdhInitSeals, ReceiveNewkeysSeals, AbandonSeals
  DEF ServerReceive, Hangup, Roles
<1>5. ASSUME NEW p \in Roles, Ready(p) \/ ReadError(p) \/ Damage(p)
      PROVE  SealInv'
  BY <1>5, SendPacketSeals, ReadingSeals, IdleSeals, AbandonSeals, DamageSeals
  DEF Ready, ReadError, Close
<1> QED
  BY <1>1, <1>2, <1>3, <1>4, <1>5 DEF Next

\* The invariant is more than the property asks.
LEMMA SealsAsAgreed ==
  ASSUME TypeOK, SealInv
  PROVE  PayloadSealedAsAgreed
<1> SUFFICES ASSUME NEW p \in Roles, NEW i \in 1 .. Len(wire[p]),
                    wire[p][i].msg.type = "PAYLOAD"
             PROVE  LET u == wire[p][i]  h == u.key.hash
                    IN  /\ u.key # NoKey
                        /\ u.key = SessionKey(EncoderDir(p), h)
                        /\ \E j \in 1 .. Len(wire["server"]) :
                             LET reply == wire["server"][j].msg
                             IN  reply.type = "KEXDH_REPLY" /\ reply.signature.over = h
  BY DEF PayloadSealedAsAgreed
<1> DEFINE u == wire[p][i]
           h == u.key.hash
<1>1. u.key = SessionKey(EncoderDir(p), h) /\ ReadReply(h)
  BY DEF SealInv, PayloadsSealed
<1>2. u.key # NoKey
  <2>1. u.key.dir = EncoderDir(p)
    BY <1>1 DEF SessionKey, DerivedKey
  <2>2. u.key.dir # "none"
    BY <2>1 DEF EncoderDir
  <2> QED
    BY <2>2 DEF NoKey
<1>3. PICK j \in 1 .. rd["client"] :
        Signed(wire["server"][j].msg) /\ wire["server"][j].msg.signature.over = h
  BY <1>1 DEF ReadReply, IsReply
<1>4. j \in 1 .. Len(wire["server"])
  <2>1. wire["server"] \in Seq(Units) /\ rd["client"] \in Nat /\ rd["client"] <= Len(wire["server"])
    BY DEF TypeOK, Roles, Peer
  <2> QED
    BY <2>1
<1> QED
  BY <1>1, <1>2, <1>3, <1>4 DEF Signed

\* Payload is sealed as agreed: whatever either end has written as payload is
\* enciphered under the key of its direction of a session, with the algorithms
\* the two proposals in that session's hash negotiate to, and the server has
\* signed that hash (receive_newkeys, derive_keys, send_packet), for every
\* choice of proposals, host keys and primes, and through all faults and damage.
THEOREM SealingCorrect == Spec => []PayloadSealedAsAgreed
<1>1. Init => TypeOK /\ SessionInvariant /\ SealInv
  BY InitType, InitSession, InitSeals
<1>2. TypeOK /\ SessionInvariant /\ SealInv /\ [Next]_vars
        => TypeOK' /\ SessionInvariant' /\ SealInv'
  BY NextType, NextSession, NextSeals
<1>3. TypeOK /\ SealInv => PayloadSealedAsAgreed
  BY SealsAsAgreed
<1> QED
  BY <1>1, <1>2, <1>3, PTL DEF Spec
-----------------------------------------------------------------------------
(***************************************************************************)
(* The keystream.                                                          *)
(***************************************************************************)
\* The invariant.

\* The states in which a handler writes with the encoder of its struct.
Shaking == {"WaitingForServerKexInit", "WaitingForKexReply",
            "WaitingForClientKexInit", "WaitingForKexDhInit"}

NakedEncoders ==
  \A p \in Roles : ep[p].st \in Shaking => ep[p].encoder.key = NoKey

NakedUntilReady ==
  \A p \in Roles : ep[p].st # "Ready" =>
    \A i \in 1 .. Len(wire[p]) : wire[p][i].key = NoKey

BehindEncoder ==
  \A p \in Roles : ep[p].st = "Ready" =>
    \A i \in 1 .. Len(wire[p]) : wire[p][i].key # NoKey =>
      /\ wire[p][i].key = ep[p].encoder.key
      /\ wire[p][i].pos < ep[p].encoder.pos

EachPlaceOnce ==
  \A p \in Roles : \A i, j \in 1 .. Len(wire[p]) :
    /\ wire[p][i].key # NoKey /\ wire[p][j].key # NoKey
    /\ wire[p][i].pos = wire[p][j].pos
    => i = j

StreamInv == NakedEncoders /\ NakedUntilReady /\ BehindEncoder /\ EachPlaceOnce

-----------------------------------------------------------------------------
\* Most steps are bare: what they write is naked, and a Ready endpoint stays
\* Ready with the encoder it had.

WritesBare ==
  \A p \in Roles : \A i \in 1 .. Len(wire'[p]) : wire'[p][i].key # NoKey =>
    /\ i \in 1 .. Len(wire[p])
    /\ wire'[p][i].key = wire[p][i].key /\ wire'[p][i].pos = wire[p][i].pos

KeepsEncoder(p, next) ==
  /\ ep[p].st = "Ready" => next.st = "Ready" /\ next.encoder = ep[p].encoder
  /\ next.st \in Shaking => next.encoder.key = NoKey

\* A bare step keeps the invariant.
LEMMA BareStep ==
  ASSUME StreamInv, WritesBare, \A p \in Roles : KeepsEncoder(p, ep'[p])
  PROVE  StreamInv'
<1>1. NakedEncoders'
  BY DEF NakedEncoders, KeepsEncoder
<1>2. NakedUntilReady'
  BY DEF StreamInv, NakedUntilReady, KeepsEncoder, WritesBare
<1>3. BehindEncoder'
  <2> SUFFICES ASSUME NEW p \in Roles, NEW i \in 1 .. Len(wire'[p]),
                      ep'[p].st = "Ready", wire'[p][i].key # NoKey
               PROVE  /\ wire'[p][i].key = ep'[p].encoder.key
                      /\ wire'[p][i].pos < ep'[p].encoder.pos
    BY DEF BehindEncoder
  <2>1. /\ i \in 1 .. Len(wire[p]) /\ wire[p][i].key # NoKey
        /\ wire'[p][i].key = wire[p][i].key /\ wire'[p][i].pos = wire[p][i].pos
    BY DEF WritesBare
  <2>2. ep[p].st = "Ready"
    BY <2>1 DEF StreamInv, NakedUntilReady
  <2>3. ep'[p].encoder = ep[p].encoder
    BY <2>2 DEF KeepsEncoder
  <2>4. wire[p][i].key = ep[p].encoder.key /\ wire[p][i].pos < ep[p].encoder.pos
    BY <2>1, <2>2 DEF StreamInv, BehindEncoder
  <2> QED
    BY <2>1, <2>3, <2>4
<1>4. EachPlaceOnce'
  BY DEF StreamInv, EachPlaceOnce, WritesBare
<1> QED
  BY <1>1, <1>2, <1>3, <1>4 DEF StreamInv

-----------------------------------------------------------------------------
\* Handlers.

Bare(out) == \A k \in 1 .. Len(out) : out[k].key = NoKey

\* A write of naked units is bare.
LEMMA WriteIsBare ==
  ASSUME TypeOK, NEW p \in Roles, NEW out \in Seq(Units), Write(p, out), Bare(out)
  PROVE  WritesBare
<1> SUFFICES ASSUME NEW q \in Roles, NEW i \in 1 .. Len(wire'[q]), wire'[q][i].key # NoKey
             PROVE  i \in 1 .. Len(wire[q]) /\ wire'[q][i] = wire[q][i]
  BY DEF WritesBare
<1> QED
  BY WriteAppends DEF Bare

\* What is left of naked units by a failing write is naked.
LEMMA CutsBare ==
  ASSUME NEW out \in Seq(Units), Bare(out), NEW cut \in Cuts(out)
  PROVE  cut \in Seq(Units) /\ Bare(cut)
BY CutsType, CutsUnits DEF Bare

\* Only an endpoint that is not yet Ready gives up.
LEMMA GiveUpKeeps ==
  ASSUME TypeOK, NEW p \in Roles, GiveUp(p), ep[p].st # "Ready", StreamInv
  PROVE  \A q \in Roles : KeepsEncoder(q, ep'[q])
BY DEF TypeOK, GiveUp, Failed, KeepsEncoder, Shaking, StreamInv, NakedEncoders

\* A handler that returns Err after naked output keeps the invariant.
LEMMA RefuseBare ==
  ASSUME TypeOK, StreamInv, NEW p \in Roles, ep[p].st # "Ready",
         NEW out \in Seq(Units), Bare(out), Refuse(p, out)
  PROVE  StreamInv'
<1>1. PICK units \in Seq(Units) : Write(p, units) /\ Bare(units)
  BY CutsBare DEF Refuse
<1> QED
  BY <1>1, WriteIsBare, GiveUpKeeps, BareStep DEF Refuse

\* So does one that returns Ok, with an encoder that is still naked.
LEMMA ProceedBare ==
  ASSUME TypeOK, StreamInv, NEW p \in Roles, ep[p].st # "Ready",
         NEW next, next.st \in Shaking => next.encoder.key = NoKey,
         NEW out \in Seq(Units), Bare(out), Proceed(p, next, out)
  PROVE  StreamInv'
<1>1. PICK units \in Seq(Units) : Write(p, units) /\ Bare(units)
  BY CutsBare DEF Proceed
<1>2. CASE GiveUp(p)
  BY <1>1, <1>2, WriteIsBare, GiveUpKeeps, BareStep
<1>3. CASE ep' = [ep EXCEPT ![p] = next]
  <2>1. ep'[p] = next /\ \A q \in Roles : q # p => ep'[q] = ep[q]
    BY <1>3 DEF TypeOK
  <2>2. \A q \in Roles : KeepsEncoder(q, ep'[q])
    BY <2>1 DEF KeepsEncoder, StreamInv, NakedEncoders
  <2> QED
    BY <1>1, <2>2, WriteIsBare, BareStep
<1> QED
  BY <1>2, <1>3 DEF Proceed

\* No output is naked output.
LEMMA EmptyBare == Bare(<<>>)
BY DEF Bare

\* A naked encoder stays naked, and what it builds is naked.
LEMMA UnitBare ==
  ASSUME NEW codec \in Codecs, codec.key = NoKey, NEW seq \in Nat, NEW msg \in Messages
  PROVE  /\ <<Build(codec, seq, msg)>> \in Seq(Units) /\ Bare(<<Build(codec, seq, msg)>>)
         /\ Advance(codec) = codec
<1> DEFINE unit == Build(codec, seq, msg)
<1>1. unit \in Units /\ unit.key = NoKey
  BY BuildType DEF Build
<1> HIDE DEF unit
<1>2. <<unit>> \in Seq(Units) /\ Bare(<<unit>>)
  BY <1>1 DEF Bare
<1>3. Advance(codec) = codec
  BY DEF Advance
<1> QED
  BY <1>2, <1>3 DEF unit

\* An identification line is naked.
LEMMA LineBare ==
  ASSUME NEW p \in Roles
  PROVE  <<Line(p)>> \in Seq(Units) /\ Bare(<<Line(p)>>)
<1>1. IdLine(OwnId[p]) \in Messages
  BY TransportAssumption DEF IdLine, Messages
<1> QED
  BY <1>1, CodecTypes, UnitBare DEF Line, Naked

\* start writes nothing but an identification line.
LEMMA StartStream ==
  ASSUME TypeOK, StreamInv, Start
  PROVE  StreamInv'
<1>1. "client" \in Roles
  BY DEF Roles
<1>2. PICK units \in Seq(Units) : Write("client", units) /\ Bare(units)
  BY <1>1, LineBare, CutsBare DEF Start, StartOk, StartErr
<1>3. \A p \in Roles : KeepsEncoder(p, ep'[p])
  BY DEF Start, KeepsEncoder, StreamInv, NakedEncoders
<1> QED
  BY <1>1, <1>2, <1>3, WriteIsBare, BareStep

\* The client's first handler writes its KEXINIT with a new naked encoder.
LEMMA ClientReceiveProtoVersionStream ==
  ASSUME TypeOK, StreamInv, ClientReceiveProtoVersion
  PROVE  StreamInv'
<1> DEFINE c == ep["client"]
           msg == NextUnit("client").msg
<1>1. "client" \in Roles /\ c.st # "Ready"
  BY DEF Roles, ClientReceiveProtoVersion, At
<1>2. CASE Refuse("client", <<>>)
  BY <1>1, <1>2, EmptyBare, EmptyType, RefuseBare
<1>3. ASSUME NEW kexinit \in KexInits,
             Proceed("client", ClientAfterProtoVersion(c, msg, kexinit),
                     <<Build(Naked, 0, kexinit)>>)
      PROVE  StreamInv'
  <2> DEFINE out == <<Build(Naked, 0, kexinit)>>
             next == ClientAfterProtoVersion(c, msg, kexinit)
  <2>1. kexinit \in Messages /\ Naked \in Codecs /\ Naked.key = NoKey
    BY CodecTypes DEF Messages, Naked
  <2>2. out \in Seq(Units) /\ Bare(out) /\ Advance(Naked) = Naked
    BY <2>1, UnitBare
  <2>3. next.encoder.key = NoKey
    BY <2>1, <2>2 DEF ClientAfterProtoVersion
  <2> HIDE DEF out, next
  <2>4. Proceed("client", next, out)
    BY <1>3 DEF out, next
  <2> QED
    BY <1>1, <2>2, <2>3, <2>4, ProceedBare
<1> QED
  BY <1>1, <1>2, <1>3, KexInitType DEF ClientReceiveProtoVersion

\* Its second writes the client's public value, still naked.
LEMMA ClientReceiveServerKexinitStream ==
  ASSUME TypeOK, StreamInv, ClientReceiveServerKexinit
  PROVE  StreamInv'
<1> DEFINE c == ep["client"]
           msg == NextUnit("client").msg
           neg == client_negotiate(c.client_kexinit.offer, msg.offer)
<1>1. "client" \in Roles /\ c.st = "WaitingForServerKexInit"
  BY DEF Roles, ClientReceiveServerKexinit, At
<1>2. c \in ClientAtKexInit /\ c.encoder.key = NoKey
  BY <1>1, ClientVariant DEF StreamInv, NakedEncoders, Shaking
<1>3. CASE Refuse("client", <<>>)
  BY <1>1, <1>3, EmptyBare, EmptyType, RefuseBare
<1>4. ASSUME Negotiable(c.client_kexinit.offer, msg.offer),
             NEW secret \in DhSecrets(neg["kex"]),
             Proceed("client", ClientAfterKexInit(c, msg, neg, secret),
               <<Build(c.encoder, c.send_seq, KexDhInit(PublicValue(neg["kex"], secret)))>>)
      PROVE  StreamInv'
  <2> DEFINE init == KexDhInit(PublicValue(neg["kex"], secret))
             out == <<Build(c.encoder, c.send_seq, init)>>
             next == ClientAfterKexInit(c, msg, neg, secret)
  <2>1. init \in Messages
    <3>1. neg["kex"] \in KexNames
      BY <1>4, NegotiatedType, NegotiatedKex
    <3>2. PublicValue(neg["kex"], secret) \in Nat
      BY <1>4, <3>1, SecretType, DhType
    <3> QED
      BY <3>2 DEF KexDhInit, Messages
  <2>2. next.encoder = Advance(c.encoder)
    BY DEF ClientAfterKexInit
  <2>3. Proceed("client", next, out)
    BY <1>4
  <2>4. c.encoder \in Codecs /\ c.send_seq \in Nat
    BY <1>2 DEF ClientAtKexInit
  <2> HIDE DEF init, next
  <2>5. out \in Seq(Units) /\ Bare(out) /\ Advance(c.encoder) = c.encoder
    BY <1>2, <2>1, <2>4, UnitBare
  <2> HIDE DEF out
  <2> QED
    BY <1>1, <1>2, <2>2, <2>3, <2>5, ProceedBare
<1> QED
  BY <1>3, <1>4 DEF ClientReceiveServerKexinit

\* Its third announces the new keys, naked, and keeps them pending.
LEMMA ClientReceiveKexReplyStream ==
  ASSUME TypeOK, StreamInv, ClientReceiveKexReply
  PROVE  StreamInv'
<1> DEFINE c == ep["client"]
           msg == NextUnit("client").msg
           next == ClientAfterKexReply(c, msg)
           out == <<Build(c.encoder, c.send_seq, NewKeys)>>
<1>1. "client" \in Roles /\ c.st = "WaitingForKexReply"
  BY DEF Roles, ClientReceiveKexReply, At
<1>2. c \in ClientAtKexReply /\ c.encoder.key = NoKey
  BY <1>1, ClientVariant DEF StreamInv, NakedEncoders, Shaking
<1>3. CASE Refuse("client", <<>>)
  BY <1>1, <1>3, EmptyBare, EmptyType, RefuseBare
<1>4. CASE Proceed("client", next, out)
  <2>1. next.st = "WaitingForNewKeys"
    BY DEF ClientAfterKexReply
  <2>2. NewKeys \in Messages /\ c.encoder \in Codecs /\ c.send_seq \in Nat
    BY <1>2 DEF Messages, ClientAtKexReply
  <2>3. out \in Seq(Units) /\ Bare(out)
    BY <1>2, <2>2, UnitBare
  <2> HIDE DEF out, next
  <2> QED
    BY <1>1, <1>4, <2>1, <2>3, ProceedBare DEF Shaking
<1> QED
  BY <1>3, <1>4 DEF ClientReceiveKexReply

\* The server's first handler writes its line and starts with a naked encoder.
LEMMA ServerReceiveProtoVersionStream ==
  ASSUME TypeOK, StreamInv, ServerReceiveProtoVersion
  PROVE  StreamInv'
<1> DEFINE next == ServerAfterProtoVersion(ep["server"], NextUnit("server").msg)
<1>1. "server" \in Roles /\ ep["server"].st # "Ready"
  BY DEF Roles, ServerReceiveProtoVersion, At
<1>2. CASE Refuse("server", <<>>)
  BY <1>1, <1>2, EmptyBare, EmptyType, RefuseBare
<1>3. CASE Proceed("server", next, <<Line("server")>>)
  <2>1. next.encoder.key = NoKey
    BY DEF ServerAfterProtoVersion, Naked
  <2> HIDE DEF next
  <2> QED
    BY <1>1, <1>3, <2>1, LineBare, ProceedBare
<1> QED
  BY <1>2, <1>3 DEF ServerReceiveProtoVersion

\* Its second writes its KEXINIT, naked.
LEMMA ServerReceiveClientKexinitStream ==
  ASSUME TypeOK, StreamInv, ServerReceiveClientKexinit
  PROVE  StreamInv'
<1> DEFINE s == ep["server"]
           msg == NextUnit("server").msg
<1>1. "server" \in Roles /\ s.st = "WaitingForClientKexInit"
  BY DEF Roles, ServerReceiveClientKexinit, At
<1>2. s \in ServerAtKexInit /\ s.encoder.key = NoKey
  BY <1>1, ServerVariant DEF StreamInv, NakedEncoders, Shaking
<1>3. CASE Refuse("server", <<>>)
  BY <1>1, <1>3, EmptyBare, EmptyType, RefuseBare
<1>4. ASSUME NEW cookie \in Cookies, NEW offer \in OwnOffers["server"],
             LET kexinit == KexInit(cookie, offer)
                 out == <<Build(s.encoder, s.send_seq, kexinit)>>
             IN  Refuse("server", out) \/ Proceed("server", ServerAfterKexInit(s, msg, kexinit), out)
      PROVE  StreamInv'
  <2> DEFINE kexinit == KexInit(cookie, offer)
             out == <<Build(s.encoder, s.send_seq, kexinit)>>
             next == ServerAfterKexInit(s, msg, kexinit)
  <2>1. kexinit \in Messages
    BY <1>1, KexInitType
  <2>2. next.encoder = Advance(s.encoder)
    BY DEF ServerAfterKexInit
  <2>3. Refuse("server", out) \/ Proceed("server", next, out)
    BY <1>4
  <2>4. s.encoder \in Codecs /\ s.send_seq \in Nat
    BY <1>2 DEF ServerAtKexInit
  <2> HIDE DEF kexinit, next
  <2>5. out \in Seq(Units) /\ Bare(out) /\ Advance(s.encoder) = s.encoder
    BY <1>2, <2>1, <2>4, UnitBare
  <2> HIDE DEF out
  <2> QED
    BY <1>1, <1>2, <2>2, <2>3, <2>5, ProceedBare, RefuseBare
<1> QED
  BY <1>3, <1>4 DEF ServerReceiveClientKexinit

\* Its third writes two packets, both naked, and keeps the new keys pending.
LEMMA ServerReceiveKexdhInitStream ==
  ASSUME TypeOK, StreamInv, ServerReceiveKexdhInit
  PROVE  StreamInv'
<1> DEFINE s == ep["server"]
           msg == NextUnit("server").msg
<1>1. "server" \in Roles /\ Unread("server") /\ s.st = "WaitingForKexDhInit"
  BY DEF Roles, ServerReceiveKexdhInit, At, Readable
<1>2. s \in ServerAtKexDhInit /\ msg \in Messages /\ s.encoder.key = NoKey
  BY <1>1, ServerVariant, NextUnitType DEF StreamInv, NakedEncoders, Shaking
<1>3. CASE Refuse("server", <<>>)
  BY <1>1, <1>3, EmptyBare, EmptyType, RefuseBare
<1>4. ASSUME Received("server", "KEXDH_INIT"),
             NEW secret \in DhSecrets(s.negotiated["kex"]),
             Proceed("server", ServerAfterKexDhInit(s, msg.e, secret),
               <<Build(s.encoder, s.send_seq, ServerReply(s, msg.e, secret)),
                 Build(Advance(s.encoder), SeqAdd(s.send_seq, 1), NewKeys)>>)
      PROVE  StreamInv'
  <2> DEFINE next == ServerAfterKexDhInit(s, msg.e, secret)
             reply == Build(s.encoder, s.send_seq, ServerReply(s, msg.e, secret))
             newkeys == Build(Advance(s.encoder), SeqAdd(s.send_seq, 1), NewKeys)
  <2>1. msg.e \in Nat
    BY <1>2, <1>4, MessageVariant DEF Received
  <2>2. reply \in Units /\ newkeys \in Units
    <3>1. ServerReply(s, msg.e, secret) \in Messages /\ NewKeys \in Messages
      BY <1>2, <1>4, <2>1, ServerReplyType DEF Messages
    <3>2. /\ s.encoder \in Codecs /\ Advance(s.encoder) \in Codecs
          /\ s.send_seq \in Nat /\ SeqAdd(s.send_seq, 1) \in Nat
      BY <1>2, CodecTypes, SeqAddType DEF ServerAtKexDhInit
    <3> QED
      BY <3>1, <3>2, BuildType
  <2>3. reply.key = NoKey /\ newkeys.key = NoKey
    BY <1>2 DEF Build, Advance
  <2>4. next.st = "WaitingForNewKeys"
    BY DEF ServerAfterKexDhInit
  <2>5. Proceed("server", next, <<reply, newkeys>>)
    BY <1>4
  <2> HIDE DEF next, reply, newkeys
  <2>6. <<reply, newkeys>> \in Seq(Units) /\ Bare(<<reply, newkeys>>)
    BY <2>2, <2>3 DEF Bare
  <2> QED
    BY <1>1, <2>4, <2>5, <2>6, ProceedBare DEF Shaking
<1> QED
  BY <1>3, <1>4 DEF ServerReceiveKexdhInit

\* The change of keys writes nothing; nothing was enciphered before it.
LEMMA ReceiveNewkeysStream ==
  ASSUME TypeOK, StreamInv, NEW p \in Roles, ReceiveNewkeys(p)
  PROVE  StreamInv'
<1> DEFINE next == AfterNewKeys(ep[p])
<1>1. ep[p].st # "Ready"
  BY DEF ReceiveNewkeys, At
<1>2. CASE Refuse(p, <<>>)
  BY <1>1, <1>2, EmptyBare, EmptyType, RefuseBare
<1>3. CASE Proceed(p, next, <<>>)
  <2>1. next.st = "Ready"
    BY DEF AfterNewKeys
  <2> HIDE DEF next
  <2> QED
    BY <1>1, <1>3, <2>1, EmptyBare, EmptyType, ProceedBare DEF Shaking
<1> QED
  BY <1>2, <1>3 DEF ReceiveNewkeys

-----------------------------------------------------------------------------
\* Ready.

\* The key of a session and a direction names its direction (derive_keys).
LEMMA KeyDirection ==
  ASSUME NEW dir, NEW hash
  PROVE  SessionKey(dir, hash).dir = dir
BY DEF SessionKey, DerivedKey

\* send_packet enciphers at the place its encoder has reached, which is beyond
\* every earlier one, and moves the encoder past it, whether or not the packet
\* gets onto the wire.
LEMMA SendPacketStream ==
  ASSUME TypeOK, SessionInvariant, StreamInv, NEW p \in Roles, SendPacket(p)
  PROVE  StreamInv'
<1> DEFINE x == ep[p]
           unit == Build(x.encoder, x.send_seq, Payload(Len(sends[p]) + 1))
           key == x.encoder.key
           pos == x.encoder.pos
<1>1. x \in AtReady /\ x.st = "Ready"
  BY ReadyVariant DEF SendPacket, Open
<1>2. unit \in Units /\ unit.key = key /\ unit.pos = pos
  <2>1. Payload(Len(sends[p]) + 1) \in Messages
    BY DEF TypeOK, Payload, Messages
  <2>2. unit.key = key /\ unit.pos = pos
    BY DEF Build
  <2> QED
    BY <1>1, <2>1, <2>2, BuildType DEF AtReady
<1>3. key # NoKey
  <2>1. key = SessionKey(EncoderDir(p), x.session_id)
    BY <1>1 DEF SessionInvariant, KeysFromSession, KeysDerived, SealingKey
  <2>2. key.dir = EncoderDir(p)
    BY <2>1, KeyDirection
  <2>3. key.dir # "none"
    BY <2>2 DEF EncoderDir
  <2> QED
    BY <2>3 DEF NoKey
<1>4. Write(p, <<unit>>) \/ \E cut \in Cuts(<<unit>>) : Write(p, cut)
  BY DEF SendPacket
<1>5. \A q \in Roles : q # p => ep'[q] = ep[q]
  BY DEF SendPacket, TypeOK
<1>6. /\ ep'[p].st = "Ready" /\ ep'[p].encoder = Advance(x.encoder)
  <2>1. \/ ep'[p] = [x EXCEPT !.encoder = Advance(x.encoder), !.send_seq = SeqAdd(x.send_seq, 1)]
        \/ ep'[p] = [x EXCEPT !.encoder = Advance(x.encoder)]
    BY DEF SendPacket, TypeOK
  <2> QED
    BY <1>1, <2>1 DEF AtReady
<1>7. /\ pos \in Nat /\ Advance(x.encoder).key = key /\ Advance(x.encoder).pos = pos + 1
  BY <1>1, <1>3 DEF AtReady, Codecs, Advance
<1> HIDE DEF unit
\* At most one unit is written, sealed at pos.
<1>8. PICK units \in Seq(Units) :
        /\ Write(p, units) /\ Len(units) <= 1
        /\ \A k \in 1 .. Len(units) : units[k].key = key /\ units[k].pos = pos
  <2>1. /\ <<unit>> \in Seq(Units) /\ Len(<<unit>>) = 1
        /\ \A k \in 1 .. Len(<<unit>>) : <<unit>>[k].key = key /\ <<unit>>[k].pos = pos
    BY <1>2
  <2>2. ASSUME NEW cut \in Cuts(<<unit>>)
        PROVE  /\ cut \in Seq(Units) /\ Len(cut) <= 1
               /\ \A k \in 1 .. Len(cut) : cut[k].key = key /\ cut[k].pos = pos
    <3>1. cut \in Seq(Units)
      BY <2>1, <2>2, CutsType
    <3>2. \A k \in 1 .. Len(cut) : /\ k \in 1 .. Len(<<unit>>)
                                   /\ cut[k].key = <<unit>>[k].key
                                   /\ cut[k].pos = <<unit>>[k].pos
      BY <2>1, <2>2, CutsUnits
    <3>3. Len(cut) <= 1
      <4>1. Len(cut) \in Nat
        BY <3>1
      <4>2. Len(cut) > 1 => Len(cut) \in 1 .. Len(<<unit>>)
        BY <3>2, <4>1
      <4> QED
        BY <4>1, <4>2
    <3> QED
      BY <2>1, <3>1, <3>2, <3>3
  <2>3. CASE Write(p, <<unit>>)
    <3> DEFINE one == <<unit>>
    <3>1. /\ Write(p, one) /\ one \in Seq(Units) /\ Len(one) <= 1
          /\ \A k \in 1 .. Len(one) : one[k].key = key /\ one[k].pos = pos
      BY <2>1, <2>3
    <3> HIDE DEF one
    <3> QED
      BY <3>1
  <2>4. ASSUME NEW cut \in Cuts(<<unit>>), Write(p, cut)
        PROVE  \E units \in Seq(Units) :
                 /\ Write(p, units) /\ Len(units) <= 1
                 /\ \A k \in 1 .. Len(units) : units[k].key = key /\ units[k].pos = pos
    BY <2>2, <2>4
  <2> QED
    BY <1>4, <2>3, <2>4
\* So what is on the wire of p is what was there, before pos, or is at pos.
<1>9. \A q \in Roles : \A i \in 1 .. Len(wire'[q]) :
        \/ i \in 1 .. Len(wire[q]) /\ wire'[q][i] = wire[q][i]
        \/ q = p /\ i = Len(wire[p]) + 1 /\ wire'[q][i].key = key /\ wire'[q][i].pos = pos
  <2> TAKE q \in Roles
  <2> TAKE i \in 1 .. Len(wire'[q])
  <2>1. \/ i \in 1 .. Len(wire[q]) /\ wire'[q][i] = wire[q][i]
        \/ q = p /\ \E k \in 1 .. Len(units) : wire'[q][i] = units[k]
    BY <1>8, WriteAppends
  <2>2. CASE i \in 1 .. Len(wire[q]) /\ wire'[q][i] = wire[q][i]
    BY <2>2
  <2>3. CASE q = p /\ ~(i \in 1 .. Len(wire[q]) /\ wire'[q][i] = wire[q][i])
    <3>1. wire'[q][i].key = key /\ wire'[q][i].pos = pos
      BY <1>8, <2>1, <2>3
    <3>2. i \notin 1 .. Len(wire[p])
      BY <1>8, <2>3, WriteAppends
    <3>3. wire'[p] = wire[p] \o units /\ wire[p] \in Seq(Units)
      BY <1>8 DEF Write, TypeOK
    <3>4. Len(wire'[p]) = Len(wire[p]) + Len(units)
          /\ Len(wire[p]) \in Nat /\ Len(units) \in Nat
      BY <3>3
    <3>5. i = Len(wire[p]) + 1
      BY <1>8, <2>3, <3>2, <3>4
    <3> QED
      BY <2>3, <3>1, <3>5
  <2> QED
    BY <2>1, <2>2, <2>3
<1>10. \A i \in 1 .. Len(wire[p]) : wire[p][i].key # NoKey =>
         wire[p][i].key = key /\ wire[p][i].pos < pos
  BY <1>1 DEF StreamInv, BehindEncoder
<1>11. NakedEncoders'
  BY <1>5, <1>6 DEF StreamInv, NakedEncoders, Shaking
<1>12. NakedUntilReady'
  BY <1>5, <1>6, <1>9 DEF StreamInv, NakedUntilReady
<1>13. BehindEncoder'
  <2> SUFFICES ASSUME NEW q \in Roles, NEW i \in 1 .. Len(wire'[q]),
                      ep'[q].st = "Ready", wire'[q][i].key # NoKey
               PROVE  /\ wire'[q][i].key = ep'[q].encoder.key
                      /\ wire'[q][i].pos < ep'[q].encoder.pos
    BY DEF BehindEncoder
  <2>1. CASE q # p
    BY <1>5, <1>9, <2>1 DEF StreamInv, BehindEncoder
  <2>2. CASE q = p /\ i \in 1 .. Len(wire[q]) /\ wire'[q][i] = wire[q][i]
    <3>1. wire[p][i].pos \in Nat
      <4>1. wire[p] \in Seq(Units)
        BY DEF TypeOK
      <4>2. wire[p][i] \in Units
        BY <2>2, <4>1
      <4> QED
        BY <4>2 DEF Units
    <3>2. wire[p][i].key = key /\ wire[p][i].pos < pos
      BY <1>10, <2>2
    <3>3. wire[p][i].pos < pos + 1
      BY <1>7, <3>1, <3>2
    <3> QED
      BY <1>6, <1>7, <2>2, <3>2, <3>3
  <2>3. CASE q = p /\ wire'[q][i].key = key /\ wire'[q][i].pos = pos
    <3>1. pos < pos + 1
      BY <1>7
    <3> QED
      BY <1>6, <1>7, <2>3, <3>1
  <2> QED
    BY <1>9, <2>1, <2>2, <2>3
<1>14. EachPlaceOnce'
  <2> SUFFICES ASSUME NEW q \in Roles, NEW i \in 1 .. Len(wire'[q]), NEW j \in 1 .. Len(wire'[q]),
                      wire'[q][i].key # NoKey, wire'[q][j].key # NoKey,
                      wire'[q][i].pos = wire'[q][j].pos
               PROVE  i = j
    BY DEF EachPlaceOnce
  <2> DEFINE Old(k) == k \in 1 .. Len(wire[q]) /\ wire'[q][k] = wire[q][k]
             New(k) == q = p /\ k = Len(wire[p]) + 1 /\ wire'[q][k].pos = pos
  <2>1. (Old(i) \/ New(i)) /\ (Old(j) \/ New(j))
    BY <1>9
  <2>2. CASE Old(i) /\ Old(j)
    BY <2>2 DEF StreamInv, EachPlaceOnce
  <2>3. ASSUME NEW k \in 1 .. Len(wire'[q]), Old(k), q = p, wire'[q][k].key # NoKey
        PROVE  wire'[q][k].pos # pos
    <3>1. wire[p][k].pos < pos
      BY <1>10, <2>3
    <3> QED
      BY <1>7, <2>3, <3>1
  <2>4. CASE New(i) /\ New(j)
    BY <2>4
  <2>5. CASE Old(i) /\ New(j)
    BY <2>3, <2>5
  <2>6. CASE New(i) /\ Old(j)
    BY <2>3, <2>6
  <2> QED
    BY <2>1, <2>2, <2>4, <2>5, <2>6
<1> QED
  BY <1>11, <1>12, <1>13, <1>14 DEF StreamInv

\* A step that writes nothing and leaves the encoders alone keeps the invariant.
LEMMA SilentStream ==
  ASSUME StreamInv, UNCHANGED wire, \A p \in Roles : KeepsEncoder(p, ep'[p])
  PROVE  StreamInv'
BY BareStep DEF WritesBare

\* Reading concerns the decoder only.
LEMMA ReadingStream ==
  ASSUME TypeOK, StreamInv, NEW p \in Roles, ReadPacket(p) \/ ReadPacketError(p)
  PROVE  StreamInv'
<1> DEFINE x == ep[p]
<1>1. x \in AtReady /\ x.st = "Ready"
  BY ReadyVariant DEF ReadPacket, ReadPacketError, Open
<1>2. \A q \in Roles : q # p => ep'[q] = ep[q]
  BY DEF ReadPacket, ReadPacketError, TypeOK
<1>3. ep'[p].st = x.st /\ ep'[p].encoder = x.encoder
  <2>1. \/ ep'[p] = [x EXCEPT !.decoder = Advance(x.decoder), !.recv_seq = SeqAdd(x.recv_seq, 1)]
        \/ \E decoder : ep'[p] = [x EXCEPT !.decoder = decoder]
    BY DEF ReadPacket, ReadPacketError, TypeOK
  <2> QED
    BY <1>1, <2>1 DEF AtReady
<1>4. \A q \in Roles : KeepsEncoder(q, ep'[q])
  BY <1>1, <1>2, <1>3 DEF KeepsEncoder, StreamInv, NakedEncoders, Shaking
<1> QED
  BY <1>4, SilentStream DEF ReadPacket, ReadPacketError

\* A failed handshake read gives up.
LEMMA AbandonStream ==
  ASSUME TypeOK, StreamInv, NEW p \in Roles, Handshaking(p), GiveUp(p), UNCHANGED wire
  PROVE  StreamInv'
BY GiveUpKeeps, SilentStream DEF Handshaking

\* Neither close nor a stuttering step concerns the invariant.
LEMMA IdleStream ==
  ASSUME StreamInv, UNCHANGED <<ep, wire>>
  PROVE  StreamInv'
BY SilentStream DEF KeepsEncoder, StreamInv, NakedEncoders

\* Damage changes neither key nor place of what it strikes.
LEMMA DamageStream ==
  ASSUME TypeOK, StreamInv, NEW p \in Roles, Damage(p)
  PROVE  StreamInv'
<1> DEFINE q == Peer(p)
           n == rd[p] + 1
<1>1. Unread(p) /\ q \in Roles /\ n \in 1 .. Len(wire[q]) /\ NextUnit(p) \in Units
      /\ NextUnit(p) = wire[q][n]
  BY NextUnitType DEF Damage, NextUnit
<1>2. PICK unit \in Damaged(NextUnit(p)) : wire' = [wire EXCEPT ![q][n] = unit]
  BY DEF Damage
<1>3. unit.key = NextUnit(p).key /\ unit.pos = NextUnit(p).pos
  <2>1. ASSUME NEW m, unit = [NextUnit(p) EXCEPT !.msg = m]
        PROVE  unit.key = NextUnit(p).key /\ unit.pos = NextUnit(p).pos
    BY <1>1, <2>1 DEF Units
  <2>2. CASE unit = [NextUnit(p) EXCEPT !.form = "damaged"]
    BY <1>1, <2>2 DEF Units
  <2> QED
    BY <1>2, <2>1, <2>2 DEF Damaged
<1>4. WritesBare
  <2> HIDE DEF q, n
  <2>1. \A r \in Roles : wire[r] \in Seq(Units)
    BY DEF TypeOK
  <2>2. \A r \in Roles : wire'[r] = IF r = q THEN [wire[q] EXCEPT ![n] = unit] ELSE wire[r]
    BY <1>1, <1>2 DEF TypeOK
  <2>3. \A r \in Roles : \A i \in 1 .. Len(wire'[r]) :
          i \in 1 .. Len(wire[r])
          /\ wire'[r][i] = IF r = q /\ i = n THEN unit ELSE wire[r][i]
    BY <1>1, <2>1, <2>2
  <2> QED
    BY <1>1, <1>3, <2>3 DEF WritesBare
<1>5. \A r \in Roles : KeepsEncoder(r, ep'[r])
  BY DEF Damage, KeepsEncoder, StreamInv, NakedEncoders
<1> QED
  BY <1>4, <1>5, BareStep

-----------------------------------------------------------------------------
\* Nothing is written before the first step.
LEMMA InitStream == Init => StreamInv
<1> SUFFICES ASSUME Init
             PROVE  StreamInv
  OBVIOUS
<1>1. \A p \in Roles : ep[p].st = "WaitingForProtoVersion" /\ Len(wire[p]) = 0
  BY DEF Init, Roles
<1> QED
  BY <1>1 DEF StreamInv, NakedEncoders, NakedUntilReady, BehindEncoder, EachPlaceOnce, Shaking

\* Every step keeps the invariant.
LEMMA NextStream ==
  ASSUME TypeOK, SessionInvariant, StreamInv, [Next]_vars
  PROVE  StreamInv'
<1>1. CASE UNCHANGED vars
  BY <1>1, IdleStream DEF vars
<1>2. CASE Start
  BY <1>2, StartStream
<1>3. CASE ClientReceive
  BY <1>3, ClientReceiveProtoVersionStream, ClientReceiveServerKexinitStream,
     ClientReceiveKexReplyStream, ReceiveNewkeysStream, AbandonStream
  DEF ClientReceive, Hangup, Roles
<1>4. CASE ServerReceive
  BY <1>4, ServerReceiveProtoVersionStream, ServerReceiveClientKexinitStream,
     ServerReceiveKexdhInitStream, ReceiveNewkeysStream, AbandonStream
  DEF ServerReceive, Hangup, Roles
<1>5. ASSUME NEW p \in Roles, Ready(p) \/ ReadError(p) \/ Damage(p)
      PROVE  StreamInv'
  BY <1>5, SendPacketStream, ReadingStream, IdleStream, AbandonStream, DamageStream
  DEF Ready, ReadError, Close
<1> QED
  BY <1>1, <1>2, <1>3, <1>4, <1>5 DEF Next

\* Two units under one key are of one endpoint, which never returns to a place.
LEMMA NeverReused ==
  ASSUME SessionInvariant, StreamInv
  PROVE  KeystreamNeverReused
<1> SUFFICES ASSUME NEW p \in Roles, NEW q \in Roles,
                    NEW i \in 1 .. Len(wire[p]), NEW j \in 1 .. Len(wire[q]),
                    wire[p][i].key # NoKey, wire[p][i].key = wire[q][j].key,
                    wire[p][i].pos = wire[q][j].pos
             PROVE  p = q /\ i = j
  BY DEF KeystreamNeverReused
<1>1. ep[p].st = "Ready" /\ ep[q].st = "Ready"
  BY DEF StreamInv, NakedUntilReady
<1>2. /\ wire[p][i].key = SessionKey(EncoderDir(p), ep[p].session_id)
      /\ wire[q][j].key = SessionKey(EncoderDir(q), ep[q].session_id)
  BY <1>1 DEF StreamInv, BehindEncoder, SessionInvariant, KeysFromSession, KeysDerived, SealingKey
<1>3. wire[p][i].key.dir = EncoderDir(p) /\ wire[q][j].key.dir = EncoderDir(q)
  BY <1>2, KeyDirection
<1>4. p = q
  BY <1>3 DEF EncoderDir, Roles
<1> QED
  BY <1>4 DEF StreamInv, EachPlaceOnce

\* The keystream is never reused: no two packets either end ever wrote, whole,
\* cut short by a failing write, or damaged on the way, were enciphered under
\* the same key at the same place (protect, derive_keys, into_*_pair,
\* send_packet), for every choice of proposals, host keys, primes and faults.
THEOREM KeystreamCorrect == Spec => []KeystreamNeverReused
<1>1. Init => TypeOK /\ SessionInvariant /\ StreamInv
  BY InitType, InitSession, InitStream
<1>2. TypeOK /\ SessionInvariant /\ StreamInv /\ [Next]_vars
        => TypeOK' /\ SessionInvariant' /\ StreamInv'
  BY NextType, NextSession, NextStream
<1>3. SessionInvariant /\ StreamInv => KeystreamNeverReused
  BY NeverReused
<1> QED
  BY <1>1, <1>2, <1>3, PTL DEF Spec

-----------------------------------------------------------------------------
\* Arithmetic of sequence numbers.

\* wrapping_add to a number that has wrapped already.
LEMMA SeqAddCounts ==
  ASSUME NEW k \in Nat, NEW j \in Nat
  PROVE  SeqAdd(k % SeqMod, j) = (k + j) % SeqMod
BY TransportAssumption, RemainderOfSum DEF SeqAdd

\* Fewer packets than there are sequence numbers have different ones.
LEMMA SeqDiffers ==
  ASSUME NEW k \in Nat, NEW a \in Nat, NEW b \in Nat, a < SeqMod, b < SeqMod,
         (k + a) % SeqMod = (k + b) % SeqMod
  PROVE  a = b
<1>1. SeqMod \in Nat \ {0}
  BY TransportAssumption
<1>2. a \in 0 .. (SeqMod - 1) /\ b \in 0 .. (SeqMod - 1)
  BY <1>1
<1> QED
  BY <1>1, <1>2, RemaindersDiffer

-----------------------------------------------------------------------------
\* How many of the first calls of send_packet have returned Ok.

Successes(calls, k) == Cardinality({m \in 1 .. k : calls[m]})

\* The calls of an interval are as many as succeeded and failed in it.
LEMMA CallsCounted ==
  ASSUME NEW calls, NEW a \in Nat \ {0}, NEW b \in Nat, a <= b + 1
  PROVE  /\ Cardinality({m \in a .. b : calls[m]}) \in Nat
         /\ Cardinality({m \in a .. b : ~calls[m]}) \in Nat
         /\ Cardinality({m \in a .. b : calls[m]}) + Cardinality({m \in a .. b : ~calls[m]})
              = b - a + 1
<1> DEFINE A == {m \in a .. b : calls[m]}
           B == {m \in a .. b : ~calls[m]}
<1>1. IsFiniteSet(a .. b) /\ Cardinality(a .. b) = b - a + 1
  <2>1. a \in Int /\ b \in Int
    OBVIOUS
  <2>2. IsFiniteSet(a .. b) /\ Cardinality(a .. b) = IF a > b THEN 0 ELSE b - a + 1
    BY <2>1, FS_Interval
  <2>3. (IF a > b THEN 0 ELSE b - a + 1) = b - a + 1
    OBVIOUS
  <2> QED
    BY <2>2, <2>3
<1>2. A \in SUBSET (a .. b) /\ B \in SUBSET (a .. b)
  OBVIOUS
<1>3. IsFiniteSet(A) /\ IsFiniteSet(B)
  BY <1>1, <1>2, FS_Subset
<1>4. A \cup B = a .. b /\ A \cap B = {}
  OBVIOUS
<1>5. Cardinality(A) \in Nat /\ Cardinality(B) \in Nat
  BY <1>3, FS_CardinalityType
<1>6. Cardinality(A \cup B) = Cardinality(A) + Cardinality(B) - Cardinality(A \cap B)
  BY <1>3, FS_Union
<1>7. Cardinality(A \cap B) = 0
  BY <1>4, FS_EmptySet
<1> HIDE DEF A, B
<1>8. Cardinality(a .. b) = Cardinality(A) + Cardinality(B) - 0
  BY <1>4, <1>6, <1>7
<1>9. Cardinality(A) + Cardinality(B) = b - a + 1
  BY <1>1, <1>5, <1>8
<1> QED
  BY <1>5, <1>9 DEF A, B

\* What succeeded in the first calls succeeded before some call, or since.
LEMMA SuccessesSplit ==
  ASSUME NEW calls, NEW a \in Nat \ {0}, NEW b \in Nat, a <= b + 1
  PROVE  Successes(calls, b) = Successes(calls, a - 1) + Cardinality({m \in a .. b : calls[m]})
<1> DEFINE A == {m \in 1 .. (a - 1) : calls[m]}
           B == {m \in a .. b : calls[m]}
<1>1. IsFiniteSet(1 .. (a - 1)) /\ IsFiniteSet(a .. b)
  BY FS_Interval
<1>2. A \in SUBSET (1 .. (a - 1)) /\ B \in SUBSET (a .. b)
  OBVIOUS
<1>3. IsFiniteSet(A) /\ IsFiniteSet(B)
  BY <1>1, <1>2, FS_Subset
<1>4. A \cup B = {m \in 1 .. b : calls[m]}
  OBVIOUS
<1>5. A \cap B = {}
  OBVIOUS
<1>6. Cardinality(A \cup B) = Cardinality(A) + Cardinality(B) - Cardinality(A \cap B)
  BY <1>3, FS_Union
<1>7. Cardinality(A \cap B) = 0 /\ Cardinality(A) \in Nat /\ Cardinality(B) \in Nat
  BY <1>3, <1>5, FS_EmptySet, FS_CardinalityType
<1> HIDE DEF A, B
<1>8. Cardinality(A \cup B) = Cardinality(A) + Cardinality(B)
  BY <1>6, <1>7
<1> QED
  BY <1>4, <1>8 DEF A, B, Successes

\* No more calls succeed than are made.
LEMMA SuccessesBound ==
  ASSUME NEW calls, NEW k \in Nat
  PROVE  Successes(calls, k) \in Nat /\ Successes(calls, k) <= k
<1> DEFINE ok == Cardinality({m \in 1 .. k : calls[m]})
           failed == Cardinality({m \in 1 .. k : ~calls[m]})
<1>1. ok \in Nat /\ failed \in Nat /\ ok + failed = k - 1 + 1
  <2>1. 1 \in Nat \ {0} /\ 1 <= k + 1
    OBVIOUS
  <2> QED
    BY <2>1, CallsCounted
<1>2. Successes(calls, k) = ok
  BY DEF Successes
<1> HIDE DEF ok, failed
<1> QED
  BY <1>1, <1>2

\* No call has succeeded before the first.
LEMMA SuccessesNone ==
  ASSUME NEW calls
  PROVE  Successes(calls, 0) = 0
BY SuccessesBound

\* One more call succeeds or does not.
LEMMA SuccessesNext ==
  ASSUME NEW calls, NEW k \in Nat, calls[k + 1] \in BOOLEAN
  PROVE  Successes(calls, k + 1) =
           IF calls[k + 1] THEN Successes(calls, k) + 1 ELSE Successes(calls, k)
<1> DEFINE last == {m \in (k + 1) .. (k + 1) : calls[m]}
<1>1. Successes(calls, k + 1) = Successes(calls, k) + Cardinality(last)
  BY SuccessesSplit, k + 1 - 1 = k
<1>2. CASE calls[k + 1]
  <2>1. last = {} \cup {k + 1}
    BY <1>2
  <2>2. Cardinality(last) = 1
    BY <2>1, FS_EmptySet, FS_AddElement
  <2> QED
    BY <1>1, <1>2, <2>2
<1>3. CASE ~calls[k + 1]
  <2>1. last = {}
    BY <1>3
  <2> QED
    BY <1>1, <1>3, <2>1, FS_EmptySet, SuccessesBound
<1> QED
  BY <1>2, <1>3

\* A later call does not change what earlier ones returned.
LEMMA SuccessesAppend ==
  ASSUME NEW calls \in Seq(BOOLEAN), NEW ok \in BOOLEAN, NEW k \in 0 .. Len(calls)
  PROVE  Successes(Append(calls, ok), k) = Successes(calls, k)
<1>1. \A m \in 1 .. k : Append(calls, ok)[m] = calls[m]
  OBVIOUS
<1>2. {m \in 1 .. k : Append(calls, ok)[m]} = {m \in 1 .. k : calls[m]}
  BY <1>1
<1> QED
  BY <1>2 DEF Successes

-----------------------------------------------------------------------------
\* The invariant.

\* Before Ready the sequence numbers count the handshake's packets, and
\* nothing has been sent or received for the owner.
Numbered(x, sent, received) == x.send_seq = sent % SeqMod /\ x.recv_seq = received % SeqMod
HandshakeNumbers(x) ==
  /\ x.st = "WaitingForServerKexInit" => Numbered(x, 1, 0)
  /\ x.st = "WaitingForKexReply"      => Numbered(x, 2, 1)
  /\ x.st = "WaitingForClientKexInit" => Numbered(x, 0, 0)
  /\ x.st = "WaitingForKexDhInit"     => Numbered(x, 1, 1)
  /\ x.st = "WaitingForNewKeys"       => Numbered(x, 3, 2)
HandshakeCounts ==
  \A p \in Roles : /\ HandshakeNumbers(ep[p])
                   /\ ep[p].st # "Ready" => sends[p] = <<>> /\ got[p] = <<>>

\* From Ready on they count three of the handshake and the calls that returned Ok.
ReadyCounts ==
  \A p \in Roles : ep[p].st = "Ready" =>
    Numbered(ep[p], 3 + Successes(sends[p], Len(sends[p])), 3 + Len(got[p]))

SendsBounded == \A p \in Roles : Len(sends[p]) <= MaxSends[p]

\* What was sealed is the payload of a call, numbered by the calls before it.
SealedByCall(p, u) ==
  /\ u.msg.type = "PAYLOAD" /\ u.msg.n \in 1 .. Len(sends[p])
  /\ u.seq = (3 + Successes(sends[p], u.msg.n - 1)) % SeqMod
SealedCounts ==
  \A p \in Roles : \A i \in 1 .. Len(wire[p]) :
    wire[p][i].key # NoKey => SealedByCall(p, wire[p][i])

\* The i-th payload returned was sent after i - 1 calls that succeeded.
GotCounts ==
  \A p \in Roles : \A i \in 1 .. Len(got[p]) :
    /\ got[p][i].n \in 1 .. Len(sends[Peer(p)])
    /\ Successes(sends[Peer(p)], got[p][i].n - 1) = i - 1

CountInv == HandshakeCounts /\ ReadyCounts /\ SendsBounded /\ SealedCounts /\ GotCounts
-----------------------------------------------------------------------------
\* Handshake steps.

\* What is sealed on the wires after the step was so before, with the number it has.
KeepsSealed ==
  \A q \in Roles : \A i \in 1 .. Len(wire'[q]) : wire'[q][i].key # NoKey =>
    /\ i \in 1 .. Len(wire[q]) /\ wire[q][i].key # NoKey
    /\ wire'[q][i].seq = wire[q][i].seq /\ wire'[q][i].msg = wire[q][i].msg

\* A step that sends, delivers and seals nothing only has its numbers to show.
LEMMA CountStep ==
  ASSUME CountInv, UNCHANGED <<sends, got>>, KeepsSealed,
         \A q \in Roles : /\ HandshakeNumbers(ep'[q])
                          /\ ep[q].st = "Ready" => ep'[q].st = "Ready"
                          /\ ep'[q].st = "Ready" =>
                               Numbered(ep'[q], 3 + Successes(sends[q], Len(sends[q])),
                                        3 + Len(got[q]))
  PROVE  CountInv'
<1>1. HandshakeCounts' /\ ReadyCounts' /\ SendsBounded' /\ GotCounts'
  BY DEF CountInv, HandshakeCounts, ReadyCounts, SendsBounded, GotCounts
<1>2. SealedCounts'
  BY DEF CountInv, SealedCounts, SealedByCall, KeepsSealed
<1> QED
  BY <1>1, <1>2 DEF CountInv

\* A step of p alone.
OnlyBy(p) == \A q \in Roles : q # p => ep'[q] = ep[q] /\ wire'[q] = wire[q]

\* As long as p is not Ready everything on its wire is naked.
LEMMA HandshakeStepCounts ==
  ASSUME CountInv, StreamInv', NEW p \in Roles, OnlyBy(p), UNCHANGED <<sends, got>>,
         ep[p].st # "Ready", ep'[p].st # "Ready", HandshakeNumbers(ep'[p])
  PROVE  CountInv'
<1>1. KeepsSealed
  BY DEF StreamInv, NakedUntilReady, OnlyBy, KeepsSealed
<1> QED
  BY <1>1, CountStep DEF OnlyBy, CountInv, HandshakeCounts, ReadyCounts

\* Giving up leaves no numbers.
LEMMA GiveUpAlone ==
  ASSUME TypeOK, NEW p \in Roles, GiveUp(p)
  PROVE  /\ ep'[p].st # "Ready" /\ HandshakeNumbers(ep'[p])
         /\ \A q \in Roles : q # p => ep'[q] = ep[q]
BY DEF TypeOK, GiveUp, Failed, HandshakeNumbers

\* A write of p leaves the other wire alone.
LEMMA WriteAlone ==
  ASSUME TypeOK, NEW p \in Roles, NEW out, Write(p, out)
  PROVE  \A q \in Roles : q # p => wire'[q] = wire[q]
BY DEF TypeOK, Write

\* A handler that returns Err keeps the counts.
LEMMA RefuseCounts ==
  ASSUME TypeOK, CountInv, StreamInv', NEW p \in Roles, ep[p].st # "Ready",
         NEW out, Refuse(p, out)
  PROVE  CountInv'
<1>1. OnlyBy(p)
  BY GiveUpAlone, WriteAlone DEF Refuse, OnlyBy
<1>2. UNCHANGED <<sends, got>>
  BY DEF Refuse, Consume
<1> QED
  BY <1>1, <1>2, GiveUpAlone, HandshakeStepCounts DEF Refuse

\* So does one that returns Ok with the right numbers.
LEMMA ProceedCounts ==
  ASSUME TypeOK, CountInv, StreamInv', NEW p \in Roles, ep[p].st # "Ready",
         NEW next, next.st # "Ready", HandshakeNumbers(next), NEW out, Proceed(p, next, out)
  PROVE  CountInv'
<1>1. UNCHANGED <<sends, got>>
  BY DEF Proceed, Consume
<1>2. \A q \in Roles : q # p => wire'[q] = wire[q]
  BY WriteAlone DEF Proceed
<1>3. CASE GiveUp(p)
  BY <1>1, <1>2, <1>3, GiveUpAlone, HandshakeStepCounts DEF OnlyBy
<1>4. CASE ep' = [ep EXCEPT ![p] = next]
  <2>1. ep'[p] = next /\ \A q \in Roles : q # p => ep'[q] = ep[q]
    BY <1>4 DEF TypeOK
  <2> QED
    BY <1>1, <1>2, <2>1, HandshakeStepCounts DEF OnlyBy
<1> QED
  BY <1>3, <1>4 DEF Proceed

\* start is not counted.
LEMMA StartCounts ==
  ASSUME TypeOK, CountInv, StreamInv', Start
  PROVE  CountInv'
<1>1. "client" \in Roles /\ UNCHANGED <<ep, sends, got>> /\ ep["client"].st # "Ready"
  BY DEF Roles, Start
<1>2. OnlyBy("client")
  BY <1>1, WriteAlone DEF Start, StartOk, StartErr, OnlyBy
<1>3. HandshakeNumbers(ep'["client"])
  BY <1>1 DEF CountInv, HandshakeCounts
<1> QED
  BY <1>1, <1>2, <1>3, HandshakeStepCounts

\* The client's first packet is number 0.
LEMMA ClientReceiveProtoVersionCounts ==
  ASSUME TypeOK, CountInv, StreamInv', ClientReceiveProtoVersion
  PROVE  CountInv'
<1> DEFINE Next1(kexinit) == ClientAfterProtoVersion(ep["client"], NextUnit("client").msg, kexinit)
<1>1. "client" \in Roles /\ ep["client"].st # "Ready"
  BY DEF Roles, ClientReceiveProtoVersion, At
<1>2. CASE Refuse("client", <<>>)
  BY <1>1, <1>2, RefuseCounts
<1>3. ASSUME NEW kexinit, NEW out, Proceed("client", Next1(kexinit), out)
      PROVE  CountInv'
  <2>1. SeqAdd(0, 1) = 1 % SeqMod /\ 0 = 0 % SeqMod
    BY TransportAssumption DEF SeqAdd
  <2>2. HandshakeNumbers(Next1(kexinit)) /\ Next1(kexinit).st # "Ready"
    BY <2>1 DEF ClientAfterProtoVersion, HandshakeNumbers, Numbered
  <2> HIDE DEF Next1
  <2> QED
    BY <1>1, <1>3, <2>2, ProceedCounts
<1> QED
  BY <1>2, <1>3 DEF ClientReceiveProtoVersion

\* KEXINIT read and KEXDH_INIT written are one packet each.
LEMMA ClientReceiveServerKexinitCounts ==
  ASSUME TypeOK, CountInv, StreamInv', ClientReceiveServerKexinit
  PROVE  CountInv'
<1> DEFINE c == ep["client"]
           Next1(neg, secret) == ClientAfterKexInit(c, NextUnit("client").msg, neg, secret)
<1>1. "client" \in Roles /\ c.st = "WaitingForServerKexInit"
  BY DEF Roles, ClientReceiveServerKexinit, At
<1>2. CASE Refuse("client", <<>>)
  BY <1>1, <1>2, RefuseCounts
<1>3. ASSUME NEW neg, NEW secret, NEW out, Proceed("client", Next1(neg, secret), out)
      PROVE  CountInv'
  <2>1. c.send_seq = 1 % SeqMod /\ c.recv_seq = 0 % SeqMod
    BY <1>1 DEF CountInv, HandshakeCounts, HandshakeNumbers, Numbered
  <2>2. SeqAdd(c.send_seq, 1) = 2 % SeqMod /\ SeqAdd(c.recv_seq, 1) = 1 % SeqMod
    BY <2>1, SeqAddCounts, 1 + 1 = 2, 0 + 1 = 1
  <2>3. HandshakeNumbers(Next1(neg, secret)) /\ Next1(neg, secret).st # "Ready"
    BY <2>2 DEF ClientAfterKexInit, HandshakeNumbers, Numbered
  <2> HIDE DEF Next1
  <2> QED
    BY <1>1, <1>3, <2>3, ProceedCounts
<1> QED
  BY <1>2, <1>3 DEF ClientReceiveServerKexinit
\* KEXDH_REPLY read and NEWKEYS written are one packet each.
LEMMA ClientReceiveKexReplyCounts ==
  ASSUME TypeOK, CountInv, StreamInv', ClientReceiveKexReply
  PROVE  CountInv'
<1> DEFINE c == ep["client"]
           next == ClientAfterKexReply(c, NextUnit("client").msg)
<1>1. "client" \in Roles /\ c.st = "WaitingForKexReply"
  BY DEF Roles, ClientReceiveKexReply, At
<1>2. CASE Refuse("client", <<>>)
  BY <1>1, <1>2, RefuseCounts
<1>3. ASSUME NEW out, Proceed("client", next, out)
      PROVE  CountInv'
  <2>1. c.send_seq = 2 % SeqMod /\ c.recv_seq = 1 % SeqMod
    BY <1>1 DEF CountInv, HandshakeCounts, HandshakeNumbers, Numbered
  <2>2. SeqAdd(c.send_seq, 1) = 3 % SeqMod /\ SeqAdd(c.recv_seq, 1) = 2 % SeqMod
    BY <2>1, SeqAddCounts, 2 + 1 = 3, 1 + 1 = 2
  <2>3. HandshakeNumbers(next) /\ next.st # "Ready"
    BY <2>2 DEF ClientAfterKexReply, HandshakeNumbers, Numbered
  <2> HIDE DEF next
  <2> QED
    BY <1>1, <1>3, <2>3, ProceedCounts
<1> QED
  BY <1>2, <1>3 DEF ClientReceiveKexReply

\* The server's line is no packet.
LEMMA ServerReceiveProtoVersionCounts ==
  ASSUME TypeOK, CountInv, StreamInv', ServerReceiveProtoVersion
  PROVE  CountInv'
<1> DEFINE next == ServerAfterProtoVersion(ep["server"], NextUnit("server").msg)
<1>1. "server" \in Roles /\ ep["server"].st # "Ready"
  BY DEF Roles, ServerReceiveProtoVersion, At
<1>2. CASE Refuse("server", <<>>)
  BY <1>1, <1>2, RefuseCounts
<1>3. CASE Proceed("server", next, <<Line("server")>>)
  <2>1. 0 = 0 % SeqMod
    BY TransportAssumption
  <2>2. HandshakeNumbers(next) /\ next.st # "Ready"
    BY <2>1 DEF ServerAfterProtoVersion, HandshakeNumbers, Numbered
  <2> HIDE DEF next
  <2> QED
    BY <1>1, <1>3, <2>2, ProceedCounts
<1> QED
  BY <1>2, <1>3 DEF ServerReceiveProtoVersion

\* Each end's KEXINIT is its packet number 0.
LEMMA ServerReceiveClientKexinitCounts ==
  ASSUME TypeOK, CountInv, StreamInv', ServerReceiveClientKexinit
  PROVE  CountInv'
<1> DEFINE s == ep["server"]
           Next1(kexinit) == ServerAfterKexInit(s, NextUnit("server").msg, kexinit)
<1>1. "server" \in Roles /\ s.st = "WaitingForClientKexInit"
  BY DEF Roles, ServerReceiveClientKexinit, At
<1>2. ASSUME NEW out, Refuse("server", out)
      PROVE  CountInv'
  BY <1>1, <1>2, RefuseCounts
<1>3. ASSUME NEW kexinit, NEW out, Proceed("server", Next1(kexinit), out)
      PROVE  CountInv'
  <2>1. s.send_seq = 0 % SeqMod /\ s.recv_seq = 0 % SeqMod
    BY <1>1 DEF CountInv, HandshakeCounts, HandshakeNumbers, Numbered
  <2>2. SeqAdd(s.send_seq, 1) = 1 % SeqMod /\ SeqAdd(s.recv_seq, 1) = 1 % SeqMod
    BY <2>1, SeqAddCounts, 0 + 1 = 1
  <2>3. HandshakeNumbers(Next1(kexinit)) /\ Next1(kexinit).st # "Ready"
    BY <2>2 DEF ServerAfterKexInit, HandshakeNumbers, Numbered
  <2> HIDE DEF Next1
  <2> QED
    BY <1>1, <1>3, <2>3, ProceedCounts
<1> QED
  BY <1>2, <1>3 DEF ServerReceiveClientKexinit

\* The server writes two packets for the one it reads.
LEMMA ServerReceiveKexdhInitCounts ==
  ASSUME TypeOK, CountInv, StreamInv', ServerReceiveKexdhInit
  PROVE  CountInv'
<1> DEFINE s == ep["server"]
           Next1(secret) == ServerAfterKexDhInit(s, NextUnit("server").msg.e, secret)
<1>1. "server" \in Roles /\ s.st = "WaitingForKexDhInit"
  BY DEF Roles, ServerReceiveKexdhInit, At
<1>2. CASE Refuse("server", <<>>)
  BY <1>1, <1>2, RefuseCounts
<1>3. ASSUME NEW secret, NEW out, Proceed("server", Next1(secret), out)
      PROVE  CountInv'
  <2>1. s.send_seq = 1 % SeqMod /\ s.recv_seq = 1 % SeqMod
    BY <1>1 DEF CountInv, HandshakeCounts, HandshakeNumbers, Numbered
  <2>2. SeqAdd(s.send_seq, 2) = 3 % SeqMod /\ SeqAdd(s.recv_seq, 1) = 2 % SeqMod
    BY <2>1, SeqAddCounts, 1 + 2 = 3, 1 + 1 = 2
  <2>3. HandshakeNumbers(Next1(secret)) /\ Next1(secret).st # "Ready"
    BY <2>2 DEF ServerAfterKexDhInit, HandshakeNumbers, Numbered
  <2> HIDE DEF Next1
  <2> QED
    BY <1>1, <1>3, <2>3, ProceedCounts
<1> QED
  BY <1>2, <1>3 DEF ServerReceiveKexdhInit

\* A handler without output writes nothing.
LEMMA EmptyWrite ==
  ASSUME TypeOK, NEW p \in Roles, Write(p, <<>>)
  PROVE  wire' = wire
<1>1. wire \in [Roles -> Seq(Units)] /\ wire[p] \o <<>> = wire[p]
  BY DEF TypeOK
<1> QED
  BY <1>1 DEF Write

\* NEWKEYS is counted when it is read; the owner's counts start from nothing.
LEMMA ReceiveNewkeysCounts ==
  ASSUME TypeOK, CountInv, StreamInv', NEW p \in Roles, ReceiveNewkeys(p)
  PROVE  CountInv'
<1> DEFINE x == ep[p]
           next == AfterNewKeys(x)
<1>1. x.st = "WaitingForNewKeys"
  BY DEF ReceiveNewkeys, At
<1>2. CASE Refuse(p, <<>>)
  BY <1>1, <1>2, RefuseCounts
<1>3. CASE Proceed(p, next, <<>>)
  <2>1. /\ Write(p, <<>>) /\ ep' = [ep EXCEPT ![p] = next] /\ UNCHANGED <<sends, got>>
    BY <1>3 DEF Proceed, Consume
  <2>2. ep'[p] = next /\ \A q \in Roles : q # p => ep'[q] = ep[q]
    BY <2>1 DEF TypeOK
  <2>3. sends[p] = <<>> /\ got[p] = <<>> /\ x.send_seq = 3 % SeqMod /\ x.recv_seq = 2 % SeqMod
    BY <1>1 DEF CountInv, HandshakeCounts, HandshakeNumbers, Numbered
  <2>4. next.send_seq = 3 % SeqMod /\ next.recv_seq = 3 % SeqMod
    BY <2>3, SeqAddCounts, 2 + 1 = 3 DEF AfterNewKeys
  <2>5. Numbered(next, 3 + Successes(sends[p], Len(sends[p])), 3 + Len(got[p]))
    <3>1. Len(sends[p]) = 0 /\ Len(got[p]) = 0
      BY <2>3
    <3>2. Successes(sends[p], Len(sends[p])) = 0
      BY <3>1, SuccessesNone
    <3> QED
      BY <2>4, <3>1, <3>2, 3 + 0 = 3 DEF Numbered
  <2>6. HandshakeNumbers(next) /\ next.st = "Ready"
    BY DEF AfterNewKeys, HandshakeNumbers
  <2>7. KeepsSealed
    BY <2>1, EmptyWrite DEF KeepsSealed
  <2> HIDE DEF next
  <2> QED
    BY <1>1, <2>1, <2>2, <2>5, <2>6, <2>7, CountStep DEF CountInv, HandshakeCounts, ReadyCounts
<1> QED
  BY <1>2, <1>3 DEF ReceiveNewkeys
-----------------------------------------------------------------------------
\* Ready.

\* A Ready end has keys (derive_keys, into_*_pair).
LEMMA ReadyKeys ==
  ASSUME SessionInvariant, NEW p \in Roles, ep[p].st = "Ready"
  PROVE  /\ ep[p].encoder.key # NoKey /\ ep[p].encoder.key.dir = EncoderDir(p)
         /\ ep[p].decoder.key # NoKey /\ ep[p].decoder.key.dir = EncoderDir(Peer(p))
<1> DEFINE hash == ep[p].session_id
<1>1. /\ ep[p].encoder.key = SessionKey(EncoderDir(p), hash)
      /\ ep[p].decoder.key = SessionKey(EncoderDir(Peer(p)), hash)
  BY DEF SessionInvariant, KeysFromSession, KeysDerived, SealingKey, OpeningKey
<1>2. ep[p].encoder.key.dir = EncoderDir(p) /\ ep[p].decoder.key.dir = EncoderDir(Peer(p))
  BY <1>1, KeyDirection
<1>3. EncoderDir(p) # "none" /\ EncoderDir(Peer(p)) # "none"
  BY DEF EncoderDir
<1> QED
  BY <1>2, <1>3 DEF NoKey

\* What a call of send_packet puts on the wire, whole or cut short, is the
\* payload it was given, under the number its transport had reached.
LEMMA SendPacketWrites ==
  ASSUME TypeOK, SessionInvariant, NEW p \in Roles, SendPacket(p)
  PROVE  \A q \in Roles : \A i \in 1 .. Len(wire'[q]) :
           \/ i \in 1 .. Len(wire[q]) /\ wire'[q][i] = wire[q][i]
           \/ /\ q = p /\ wire'[q][i].msg = Payload(Len(sends[p]) + 1)
              /\ wire'[q][i].seq = ep[p].send_seq
<1> DEFINE x == ep[p]
           msg == Payload(Len(sends[p]) + 1)
           unit == Build(x.encoder, x.send_seq, msg)
           OfCall(units) == /\ units \in Seq(Units) /\ Write(p, units)
                            /\ \A k \in 1 .. Len(units) :
                                 units[k].msg = msg /\ units[k].seq = x.send_seq
<1>1. x \in AtReady /\ x.encoder.key # NoKey
  BY ReadyVariant, ReadyKeys DEF SendPacket, Open
<1>2. unit \in Units /\ unit.msg = msg /\ unit.seq = x.send_seq
  <2>1. msg \in Messages
    BY DEF TypeOK, Payload, Messages
  <2>2. x.encoder \in Codecs /\ x.send_seq \in Nat
    BY <1>1 DEF AtReady
  <2>3. unit.msg = msg /\ unit.seq = x.send_seq
    BY <1>1 DEF Build
  <2> HIDE DEF msg
  <2> QED
    BY <2>1, <2>2, <2>3, BuildType
<1>3. Write(p, <<unit>>) \/ \E cut \in Cuts(<<unit>>) : Write(p, cut)
  BY DEF SendPacket
<1> HIDE DEF unit, msg
<1> DEFINE one == <<unit>>
<1>4. one \in Seq(Units) /\ \A k \in 1 .. Len(one) : one[k].msg = msg /\ one[k].seq = x.send_seq
  BY <1>2
<1>5. Write(p, one) \/ \E cut \in Cuts(one) : Write(p, cut)
  BY <1>3
<1> HIDE DEF one
<1>6. ASSUME NEW cut \in Cuts(one), Write(p, cut)
      PROVE  OfCall(cut)
  <2>1. cut \in Seq(Units)
    BY <1>4, CutsType
  <2>2. \A k \in 1 .. Len(cut) : /\ k \in 1 .. Len(one)
                                 /\ cut[k].msg = one[k].msg /\ cut[k].seq = one[k].seq
    BY <1>4, CutsUnits
  <2> QED
    BY <1>4, <1>6, <2>1, <2>2
<1>7. PICK units : OfCall(units)
  BY <1>4, <1>5, <1>6
<1>8. \A q \in Roles : \A i \in 1 .. Len(wire'[q]) :
        \/ i \in 1 .. Len(wire[q]) /\ wire'[q][i] = wire[q][i]
        \/ q = p /\ \E k \in 1 .. Len(units) : wire'[q][i] = units[k]
  BY <1>7, WriteAppends
<1>9. \A q \in Roles : \A i \in 1 .. Len(wire'[q]) :
        \/ i \in 1 .. Len(wire[q]) /\ wire'[q][i] = wire[q][i]
        \/ q = p /\ wire'[q][i].msg = msg /\ wire'[q][i].seq = x.send_seq
  BY <1>7, <1>8
<1> QED
  BY <1>9 DEF msg

\* send_packet numbers the payload with the calls that have succeeded, and
\* counts itself if it does.
LEMMA SendPacketCounts ==
  ASSUME TypeOK, SessionInvariant, CountInv, NEW p \in Roles, SendPacket(p)
  PROVE  CountInv'
<1> DEFINE x == ep[p]
           calls == sends[p]
           n == Len(calls)
<1>1. x \in AtReady /\ x.st = "Ready" /\ calls \in Seq(BOOLEAN) /\ n \in Nat
  BY ReadyVariant DEF SendPacket, Open, TypeOK
<1>2. n < MaxSends[p] /\ UNCHANGED got
  BY DEF SendPacket
<1>3. PICK ok \in BOOLEAN :
        /\ sends' = [sends EXCEPT ![p] = Append(calls, ok)]
        /\ ep'[p] = IF ok THEN [x EXCEPT !.encoder = Advance(x.encoder),
                                         !.send_seq = SeqAdd(x.send_seq, 1)]
                          ELSE [x EXCEPT !.encoder = Advance(x.encoder)]
        /\ \A q \in Roles : q # p => ep'[q] = ep[q]
  BY DEF SendPacket, TypeOK
<1>4. sends'[p] = Append(calls, ok) /\ \A q \in Roles : q # p => sends'[q] = sends[q]
  BY <1>3 DEF TypeOK
<1>5. Len(sends'[p]) = n + 1 /\ sends'[p][n + 1] = ok
  BY <1>1, <1>4
<1>6. \A k \in 0 .. n : Successes(sends'[p], k) = Successes(sends[p], k)
  BY <1>1, <1>4, SuccessesAppend
<1>7. x.send_seq = (3 + Successes(sends[p], n)) % SeqMod
      /\ x.recv_seq = (3 + Len(got[p])) % SeqMod
  BY <1>1 DEF CountInv, ReadyCounts, Numbered
<1>8. \A q \in Roles : q # p => Len(sends'[q]) = Len(sends[q])
  BY <1>4
\* What was sent, and what of it was returned, keeps its place among the calls.
<1>9. \A q \in Roles : \A k \in 1 .. Len(sends[q]) :
        k \in 1 .. Len(sends'[q]) /\ Successes(sends'[q], k - 1) = Successes(sends[q], k - 1)
  <2> TAKE q \in Roles
  <2> TAKE k \in 1 .. Len(sends[q])
  <2>1. CASE q = p
    BY <1>1, <1>5, <1>6, <2>1
  <2>2. CASE q # p
    BY <1>4, <2>2
  <2> QED
    BY <2>1, <2>2
<1>10. ep'[p].st = "Ready" /\ ep'[p].recv_seq = x.recv_seq
       /\ ep'[p].send_seq = IF ok THEN SeqAdd(x.send_seq, 1) ELSE x.send_seq
  BY <1>1, <1>3 DEF AtReady
<1>11. HandshakeCounts'
  <2>1. HandshakeNumbers(ep'[p])
    BY <1>10 DEF HandshakeNumbers
  <2> QED
    BY <1>2, <1>3, <1>4, <1>10, <2>1 DEF CountInv, HandshakeCounts
<1>12. ReadyCounts'
  <2>1. Numbered(ep'[p], 3 + Successes(sends'[p], n + 1), 3 + Len(got[p]))
    <3> DEFINE before == Successes(sends[p], n)
    <3>1. before \in Nat /\ Successes(sends'[p], n) = before
      BY <1>1, <1>6, SuccessesBound
    <3>2. Successes(sends'[p], n + 1) = IF ok THEN before + 1 ELSE before
      BY <1>1, <1>5, <3>1, SuccessesNext
    <3>3. x.send_seq = (3 + before) % SeqMod
      BY <1>7
    <3> HIDE DEF before
    <3>4. SeqAdd(x.send_seq, 1) = (3 + before + 1) % SeqMod
      BY <3>1, <3>3, SeqAddCounts
    <3>5. 3 + (before + 1) = 3 + before + 1
      BY <3>1
    <3> QED
      BY <1>7, <1>10, <3>2, <3>3, <3>4, <3>5 DEF Numbered
  <2> QED
    BY <1>2, <1>3, <1>4, <1>5, <2>1 DEF CountInv, ReadyCounts
<1>13. SendsBounded'
  <2>1. MaxSends[p] \in Nat
    BY TransportAssumption
  <2>2. Len(sends'[p]) <= MaxSends[p]
    BY <1>1, <1>2, <1>5, <2>1
  <2> QED
    BY <1>8, <2>2 DEF CountInv, SendsBounded
<1>14. SealedCounts'
  <2> SUFFICES ASSUME NEW q \in Roles, NEW i \in 1 .. Len(wire'[q]), wire'[q][i].key # NoKey
               PROVE  LET u == wire'[q][i]
                      IN  /\ u.msg.type = "PAYLOAD" /\ u.msg.n \in 1 .. Len(sends'[q])
                          /\ u.seq = (3 + Successes(sends'[q], u.msg.n - 1)) % SeqMod
    BY DEF SealedCounts, SealedByCall
  <2>1. CASE i \in 1 .. Len(wire[q]) /\ wire'[q][i] = wire[q][i]
    <3>1. SealedByCall(q, wire[q][i])
      BY <2>1 DEF CountInv, SealedCounts
    <3> QED
      BY <1>9, <2>1, <3>1 DEF SealedByCall
  <2>2. CASE q = p /\ wire'[q][i].msg = Payload(n + 1) /\ wire'[q][i].seq = x.send_seq
    <3>1. n \in 0 .. n /\ n + 1 - 1 = n /\ n + 1 \in 1 .. (n + 1)
      BY <1>1
    <3>2. Successes(sends'[p], n + 1 - 1) = Successes(sends[p], n)
      BY <1>6, <3>1
    <3> QED
      BY <1>5, <1>7, <2>2, <3>1, <3>2 DEF SealedByCall, Payload
  <2> QED
    BY <2>1, <2>2, SendPacketWrites
<1>15. GotCounts'
  BY <1>2, <1>9 DEF CountInv, GotCounts, Peer, Roles
<1> QED
  BY <1>11, <1>12, <1>13, <1>14, <1>15 DEF CountInv
\* No more is returned than was sent.
LEMMA GotBounded ==
  ASSUME TypeOK, CountInv, NEW p \in Roles
  PROVE  /\ Len(got[p]) \in Nat /\ Len(sends[Peer(p)]) \in Nat
         /\ Len(got[p]) <= Len(sends[Peer(p)])
<1> DEFINE k == Len(got[p])
           calls == sends[Peer(p)]
           n == got[p][k].n
<1>1. Peer(p) \in Roles
  BY DEF Peer, Roles
<1>2. k \in Nat /\ Len(calls) \in Nat
  BY <1>1 DEF TypeOK
<1>3. CASE k = 0
  BY <1>2, <1>3
<1>4. CASE k # 0
  <2>1. k \in 1 .. Len(got[p])
    BY <1>2, <1>4
  <2>2. n \in 1 .. Len(calls) /\ Successes(calls, n - 1) = k - 1
    BY <2>1 DEF CountInv, GotCounts
  <2>3. n - 1 \in Nat /\ n <= Len(calls) /\ n \in Nat
    BY <1>2, <2>2
  <2>4. Successes(calls, n - 1) <= n - 1
    BY <2>3, SuccessesBound
  <2> HIDE DEF k, n, calls
  <2>5. k <= Len(calls)
    BY <1>2, <2>2, <2>3, <2>4
  <2> QED
    BY <1>2, <2>5 DEF k, calls
<1> QED
  BY <1>3, <1>4

\* Sequence numbers do not wrap within one connection's packets.
NoWrap == \A p \in Roles : MaxSends[p] < SeqMod

\* A packet that decodes was sent after as many successes as were returned.
LEMMA DecodedIsNext ==
  ASSUME TypeOK, SessionInvariant, CountInv, NoWrap, NEW p \in Roles, Open(p), Unread(p),
         Decodes(ep[p].decoder, ep[p].recv_seq, NextUnit(p))
  PROVE  LET n == NextUnit(p).msg.n
         IN  /\ n \in 1 .. Len(sends[Peer(p)])
             /\ Successes(sends[Peer(p)], n - 1) = Len(got[p])
<1> DEFINE q == Peer(p)
           u == NextUnit(p)
           n == u.msg.n
           calls == sends[q]
<1>1. q \in Roles /\ rd[p] + 1 \in 1 .. Len(wire[q]) /\ u = wire[q][rd[p] + 1]
  BY NextUnitType DEF NextUnit, Peer, Roles
<1>2. ep[p].st = "Ready" /\ ep[p].recv_seq = (3 + Len(got[p])) % SeqMod
  BY DEF Open, CountInv, ReadyCounts, Numbered
<1>3. u.key # NoKey /\ u.seq = ep[p].recv_seq
  BY <1>2, ReadyKeys DEF Decodes, Tracks
<1>4. n \in 1 .. Len(calls) /\ u.seq = (3 + Successes(calls, n - 1)) % SeqMod
  BY <1>1, <1>3 DEF CountInv, SealedCounts, SealedByCall
<1>5. Len(got[p]) \in Nat /\ Len(calls) \in Nat /\ Len(got[p]) <= Len(calls)
  BY GotBounded
<1>6. Len(calls) <= MaxSends[q] /\ MaxSends[q] < SeqMod /\ MaxSends[q] \in Nat /\ SeqMod \in Nat
  BY <1>1, TransportAssumption DEF CountInv, SendsBounded, NoWrap
<1> HIDE DEF q, u, n, calls
<1>7. n - 1 \in Nat /\ n - 1 < Len(calls)
  BY <1>4, <1>5
<1> DEFINE a == Successes(calls, n - 1)
           b == Len(got[p])
<1>8. a \in Nat /\ a <= n - 1
  BY <1>7, SuccessesBound
<1>9. b \in Nat /\ (3 + a) % SeqMod = (3 + b) % SeqMod
  BY <1>2, <1>3, <1>4, <1>5
<1>10. a < SeqMod /\ b < SeqMod
  <2> HIDE DEF a, b
  <2>1. b <= Len(calls)
    BY <1>5 DEF b
  <2> QED
    BY <1>5, <1>6, <1>7, <1>8, <1>9, <2>1
<1> HIDE DEF a, b
<1>11. a = b
  BY <1>8, <1>9, <1>10, SeqDiffers
<1> QED
  BY <1>4, <1>11 DEF a, b, n, u, calls, q

\* The state of the decoder is not counted.
LEMMA DecoderOnlyCounts ==
  ASSUME TypeOK, CountInv, NEW p \in Roles, Open(p), UNCHANGED <<wire, sends, got>>,
         NEW decoder, ep' = [ep EXCEPT ![p].decoder = decoder]
  PROVE  CountInv'
<1> DEFINE x == ep[p]
<1>1. x \in AtReady /\ x.st = "Ready"
  BY ReadyVariant DEF Open
<1>2. ep'[p] = [x EXCEPT !.decoder = decoder] /\ \A q \in Roles : q # p => ep'[q] = ep[q]
  BY DEF TypeOK
<1>3. ep'[p].st = "Ready" /\ ep'[p].send_seq = x.send_seq /\ ep'[p].recv_seq = x.recv_seq
  BY <1>1, <1>2 DEF AtReady
<1>4. KeepsSealed
  BY DEF KeepsSealed
<1>5. \A q \in Roles : /\ HandshakeNumbers(ep'[q]) /\ ep'[q].st = ep[q].st
                       /\ ep[q].st = "Ready" => /\ ep'[q].send_seq = ep[q].send_seq
                                                /\ ep'[q].recv_seq = ep[q].recv_seq
  BY <1>1, <1>2, <1>3 DEF CountInv, HandshakeCounts, HandshakeNumbers
<1> QED
  BY <1>4, <1>5, CountStep DEF CountInv, ReadyCounts, Numbered

\* read_packet counts what it returns, and nothing else.
LEMMA ReadPacketCounts ==
  ASSUME TypeOK, SessionInvariant, CountInv, NoWrap, NEW p \in Roles, ReadPacket(p)
  PROVE  CountInv'
<1> DEFINE x == ep[p]
           u == NextUnit(p)
           k == Len(got[p])
<1>1. /\ Open(p) /\ Unread(p) /\ UNCHANGED <<wire, sends>>
      /\ x \in AtReady /\ x.st = "Ready" /\ got[p] \in Seq(Messages) /\ k \in Nat
  BY ReadyVariant DEF ReadPacket, Readable, Open, TypeOK
<1>2. \A q \in Roles : q # p => ep'[q] = ep[q]
  BY DEF ReadPacket, TypeOK
<1>3. x.send_seq = (3 + Successes(sends[p], Len(sends[p]))) % SeqMod
      /\ x.recv_seq = (3 + k) % SeqMod
  BY <1>1 DEF CountInv, ReadyCounts, Numbered
<1>4. CASE /\ Decodes(x.decoder, x.recv_seq, u)
           /\ ep' = [ep EXCEPT ![p].decoder = Advance(x.decoder),
                               ![p].recv_seq = SeqAdd(x.recv_seq, 1)]
           /\ got' = [got EXCEPT ![p] = Append(@, u.msg)]
  <2>1. ep'[p] = [x EXCEPT !.decoder = Advance(x.decoder), !.recv_seq = SeqAdd(x.recv_seq, 1)]
    BY <1>4 DEF TypeOK
  <2>2. /\ ep'[p].st = "Ready" /\ ep'[p].send_seq = x.send_seq
        /\ ep'[p].recv_seq = SeqAdd(x.recv_seq, 1)
    BY <1>1, <2>1 DEF AtReady
  <2>3. got'[p] = Append(got[p], u.msg) /\ \A q \in Roles : q # p => got'[q] = got[q]
    BY <1>4 DEF TypeOK
  <2>4. /\ Len(got'[p]) = k + 1 /\ got'[p][k + 1] = u.msg
        /\ \A i \in 1 .. k : got'[p][i] = got[p][i]
    <3>1. u.msg \in Messages
      BY <1>1, NextUnitType DEF Units
    <3> QED
      BY <1>1, <2>3, <3>1
  <2>5. SeqAdd(x.recv_seq, 1) = (3 + (k + 1)) % SeqMod
    <3>1. 3 + k \in Nat /\ 3 + k + 1 = 3 + (k + 1)
      BY <1>1
    <3>2. SeqAdd(x.recv_seq, 1) = (3 + k + 1) % SeqMod
      BY <1>3, <3>1, SeqAddCounts
    <3> QED
      BY <3>1, <3>2
  <2>6. HandshakeCounts'
    <3>1. HandshakeNumbers(ep'[p])
      BY <2>2 DEF HandshakeNumbers
    <3> QED
      BY <1>1, <1>2, <2>2, <2>3, <3>1 DEF CountInv, HandshakeCounts
  <2>7. ReadyCounts'
    <3>1. Numbered(ep'[p], 3 + Successes(sends[p], Len(sends[p])), 3 + Len(got'[p]))
      BY <1>3, <2>2, <2>4, <2>5 DEF Numbered
    <3> QED
      BY <1>1, <1>2, <2>3, <3>1 DEF CountInv, ReadyCounts
  <2>8. SendsBounded' /\ SealedCounts'
    BY <1>1 DEF CountInv, SendsBounded, SealedCounts, SealedByCall
  <2>9. GotCounts'
    <3> SUFFICES ASSUME NEW q \in Roles, NEW i \in 1 .. Len(got'[q])
                 PROVE  /\ got'[q][i].n \in 1 .. Len(sends[Peer(q)])
                        /\ Successes(sends[Peer(q)], got'[q][i].n - 1) = i - 1
      BY <1>1 DEF GotCounts
    <3>1. CASE q # p
      BY <2>3, <3>1 DEF CountInv, GotCounts
    <3>2. CASE q = p /\ i \in 1 .. k
      BY <2>4, <3>2 DEF CountInv, GotCounts
    <3>3. CASE q = p /\ i = k + 1
      <4>1. /\ u.msg.n \in 1 .. Len(sends[Peer(p)])
            /\ Successes(sends[Peer(p)], u.msg.n - 1) = k
        BY <1>1, <1>4, DecodedIsNext
      <4>2. k = i - 1
        BY <1>1, <3>3
      <4> QED
        BY <2>4, <3>3, <4>1, <4>2
    <3> QED
      BY <1>1, <2>4, <3>1, <3>2, <3>3
  <2> QED
    BY <2>6, <2>7, <2>8, <2>9 DEF CountInv
<1>5. ASSUME NEW decoder, ep' = [ep EXCEPT ![p].decoder = decoder], UNCHANGED got
      PROVE  CountInv'
  BY <1>1, <1>5, DecoderOnlyCounts
<1> QED
  BY <1>4, <1>5 DEF ReadPacket
\* An I/O error in a unit is not counted.
LEMMA ReadPacketErrorCounts ==
  ASSUME TypeOK, CountInv, NEW p \in Roles, ReadPacketError(p)
  PROVE  CountInv'
<1> DEFINE decoder == [ep[p].decoder EXCEPT !.aligned = FALSE]
<1>1. ep' = [ep EXCEPT ![p].decoder = decoder]
  BY DEF ReadPacketError
<1> HIDE DEF decoder
<1> QED
  BY <1>1, DecoderOnlyCounts DEF ReadPacketError

\* Nor is a failed handshake read.
LEMMA AbandonCounts ==
  ASSUME TypeOK, CountInv, StreamInv', NEW p \in Roles, Handshaking(p), GiveUp(p),
         UNCHANGED <<wire, sends, got>>
  PROVE  CountInv'
BY GiveUpAlone, HandshakeStepCounts DEF Handshaking, OnlyBy

\* Neither close nor a stuttering step concerns the counts.
LEMMA IdleCounts ==
  ASSUME CountInv, UNCHANGED <<ep, wire, sends, got>>
  PROVE  CountInv'
BY CountStep DEF KeepsSealed, CountInv, HandshakeCounts, ReadyCounts

\* Damage leaves the number and the message of what a mac covers.
LEMMA DamageCounts ==
  ASSUME TypeOK, CountInv, NEW p \in Roles, Damage(p)
  PROVE  CountInv'
<1> DEFINE q == Peer(p)
           n == rd[p] + 1
           u == NextUnit(p)
<1>1. q \in Roles /\ n \in 1 .. Len(wire[q]) /\ u \in Units /\ u = wire[q][n]
  BY NextUnitType DEF Damage, NextUnit, Peer, Roles
<1>2. PICK unit \in Damaged(u) : wire' = [wire EXCEPT ![q][n] = unit]
  BY DEF Damage
<1>3. unit.key = u.key /\ (unit.key # NoKey => unit.seq = u.seq /\ unit.msg = u.msg)
  <2>1. CASE u.key = NoKey
    <3>1. PICK m : unit = [u EXCEPT !.msg = m]
      BY <1>2, <2>1 DEF Damaged
    <3> QED
      BY <1>1, <2>1, <3>1 DEF Units
  <2>2. CASE u.key # NoKey
    <3>1. unit = [u EXCEPT !.form = "damaged"]
      BY <1>2, <2>2 DEF Damaged
    <3> QED
      BY <1>1, <3>1 DEF Units
  <2> QED
    BY <2>1, <2>2
<1>4. KeepsSealed
  <2> HIDE DEF q, n, u
  <2>1. \A r \in Roles : wire[r] \in Seq(Units)
    BY DEF TypeOK
  <2>2. \A r \in Roles : wire'[r] = IF r = q THEN [wire[q] EXCEPT ![n] = unit] ELSE wire[r]
    BY <1>1, <1>2 DEF TypeOK
  <2>3. \A r \in Roles : \A i \in 1 .. Len(wire'[r]) :
          i \in 1 .. Len(wire[r])
          /\ wire'[r][i] = IF r = q /\ i = n THEN unit ELSE wire[r][i]
    BY <1>1, <2>1, <2>2
  <2> QED
    BY <1>1, <1>3, <2>3 DEF KeepsSealed
<1> QED
  BY <1>4, CountStep DEF Damage, CountInv, HandshakeCounts, ReadyCounts

-----------------------------------------------------------------------------
\* Nothing is counted before the first step.
LEMMA InitCounts == Init => CountInv
<1> SUFFICES ASSUME Init
             PROVE  CountInv
  OBVIOUS
<1>1. \A p \in Roles : /\ ep[p].st = "WaitingForProtoVersion" /\ wire[p] = <<>>
                       /\ sends[p] = <<>> /\ got[p] = <<>>
  BY DEF Init, Roles
<1>2. \A p \in Roles : Len(sends[p]) <= MaxSends[p]
  <2> TAKE p \in Roles
  <2>1. Len(sends[p]) = 0 /\ MaxSends[p] \in Nat
    BY <1>1, TransportAssumption
  <2> QED
    BY <2>1
<1> QED
  BY <1>1, <1>2 DEF CountInv, HandshakeCounts, HandshakeNumbers, ReadyCounts, SendsBounded,
     SealedCounts, GotCounts

\* Every step keeps the counts.
LEMMA NextCounts ==
  ASSUME TypeOK, SessionInvariant, StreamInv', CountInv, NoWrap, [Next]_vars
  PROVE  CountInv'
<1>1. CASE UNCHANGED vars
  BY <1>1, IdleCounts DEF vars
<1>2. CASE Start
  BY <1>2, StartCounts
<1>3. CASE ClientReceive
  BY <1>3, ClientReceiveProtoVersionCounts, ClientReceiveServerKexinitCounts,
     ClientReceiveKexReplyCounts, ReceiveNewkeysCounts, AbandonCounts
  DEF ClientReceive, Hangup, Roles
<1>4. CASE ServerReceive
  BY <1>4, ServerReceiveProtoVersionCounts, ServerReceiveClientKexinitCounts,
     ServerReceiveKexdhInitCounts, ReceiveNewkeysCounts, AbandonCounts
  DEF ServerReceive, Hangup, Roles
<1>5. ASSUME NEW p \in Roles, Ready(p) \/ ReadError(p) \/ Damage(p)
      PROVE  CountInv'
  BY <1>5, SendPacketCounts, ReadPacketCounts, ReadPacketErrorCounts, IdleCounts,
     AbandonCounts, DamageCounts
  DEF Ready, ReadError, Close
<1> QED
  BY <1>1, <1>2, <1>3, <1>4, <1>5 DEF Next

\* Between two payloads returned one after the other exactly one call
\* succeeded, the one that sent the first of them; the others failed.
LEMMA CountsLeaveNoGap ==
  ASSUME TypeOK, CountInv
  PROVE  NoSilentGap
<1> SUFFICES ASSUME NEW p \in Roles, NEW i \in 1 .. Len(got[p])
             PROVE  LET n == got[p][i].n
                        before == IF i = 1 THEN 0 ELSE got[p][i - 1].n
                        failed == {m \in 1 .. (n - 1) : m >= before /\ ~sends[Peer(p)][m]}
                    IN  n > before /\ n - before - 1 <= Cardinality(failed)
  BY DEF NoSilentGap
<1> DEFINE n == got[p][i].n
           calls == sends[Peer(p)]
           Failures(before) == {m \in before .. (n - 1) : ~calls[m]}
           last == IF i = 1 THEN 0 ELSE got[p][i - 1].n
           Skipped(before) == {m \in 1 .. (n - 1) : m >= before /\ ~calls[m]}
           Skips(before) == n > before /\ n - before - 1 <= Cardinality(Skipped(before))
<1>1. Len(got[p]) \in Nat /\ Len(calls) \in Nat
  BY GotBounded
<1>2. n \in Nat /\ n - 1 \in Nat /\ Successes(calls, n - 1) = i - 1
  BY <1>1 DEF CountInv, GotCounts
<1>3. CASE i = 1
  <2>1. Skipped(0) = Failures(1)
    OBVIOUS
  <2>2. 1 \in Nat \ {0} /\ 1 <= (n - 1) + 1
    BY <1>2
  <2>3. /\ Cardinality({m \in 1 .. (n - 1) : calls[m]}) + Cardinality(Failures(1))
             = n - 1 - 1 + 1
        /\ Cardinality(Failures(1)) \in Nat
    BY <1>2, <2>2, CallsCounted
  <2>4. Cardinality({m \in 1 .. (n - 1) : calls[m]}) = 0
    BY <1>2, <1>3 DEF Successes
  <2>5. Cardinality(Failures(1)) = n - 1
    BY <1>2, <2>3, <2>4
  <2>6. Skips(0)
    <3> HIDE DEF n, Skipped, Failures
    <3> QED
      BY <1>2, <2>1, <2>5
  <2>7. last = 0
    BY <1>3
  <2> HIDE DEF last, Skips
  <2>8. Skips(last)
    BY <2>6, <2>7
  <2> QED
    BY <2>8 DEF Skips, last
<1>4. CASE i # 1
  <2> DEFINE before == got[p][i - 1].n
             ok == Cardinality({m \in before .. (n - 1) : calls[m]})
  <2>1. i - 1 \in 1 .. Len(got[p]) /\ (i - 1) - 1 = i - 2
    BY <1>1, <1>4
  <2>2. before \in Nat \ {0} /\ before - 1 \in Nat /\ Successes(calls, before - 1) = i - 2
    BY <1>1, <2>1 DEF CountInv, GotCounts
  <2> HIDE DEF before
  <2>3. before <= n - 1
    <3>1. SUFFICES ASSUME n <= before PROVE FALSE
      BY <1>2, <2>2
    <3> DEFINE since == Cardinality({m \in n .. (before - 1) : calls[m]})
    <3>2. n \in Nat \ {0} /\ n <= (before - 1) + 1
      BY <1>2, <2>2, <3>1
    <3>3. Successes(calls, before - 1) = Successes(calls, n - 1) + since /\ since \in Nat
      BY <2>2, <3>2, SuccessesSplit, CallsCounted
    <3> HIDE DEF since, n
    <3> QED
      BY <1>2, <2>2, <3>3
  <2>4. before <= (n - 1) + 1
    BY <1>2, <2>2, <2>3
  <2>5. /\ ok \in Nat /\ Cardinality(Failures(before)) \in Nat
        /\ ok + Cardinality(Failures(before)) = n - 1 - before + 1
        /\ Successes(calls, n - 1) = Successes(calls, before - 1) + ok
    BY <1>2, <2>2, <2>4, CallsCounted, SuccessesSplit
  <2>6. Skipped(before) = Failures(before)
    BY <1>2, <2>2
  <2> HIDE DEF ok
  <2>7. ok = 1
    BY <1>2, <2>2, <2>5
  <2>8. Cardinality(Failures(before)) = n - before - 1
    <3> DEFINE failed == Cardinality(Failures(before))
    <3>1. failed \in Nat /\ ok + failed = n - 1 - before + 1
      BY <2>5
    <3>2. n \in Nat
      BY <1>2
    <3> HIDE DEF failed, n
    <3>3. failed = n - before - 1
      BY <2>2, <2>7, <3>1, <3>2
    <3> QED
      BY <3>3 DEF failed
  <2>9. Skips(before)
    <3> HIDE DEF n, Skipped, Failures
    <3> QED
      BY <1>2, <2>2, <2>3, <2>6, <2>8
  <2>10. last = before
    BY <1>4 DEF before
  <2> HIDE DEF last, Skips
  <2>11. Skips(last)
    BY <2>9, <2>10
  <2> QED
    BY <2>11 DEF Skips, last
<1> QED
  BY <1>3, <1>4

\* read_packet never skips a payload in silence (send_packet's and read_packet's
\* sequence numbers, build and decode_from), whatever is damaged or fails, for
\* all owners that send fewer packets than there are sequence numbers.
THEOREM NothingSkippedSilently ==
  ASSUME \A p \in Roles : MaxSends[p] < SeqMod
  PROVE  Spec => []NoSilentGap
<1> DEFINE Invs == TypeOK /\ SessionInvariant /\ StreamInv /\ CountInv
<1>1. Init => Invs
  BY InitType, InitSession, InitStream, InitCounts
<1>2. Invs /\ [Next]_vars => Invs'
  <2>1. NoWrap
    BY DEF NoWrap
  <2> QED
    BY <2>1, NextType, NextSession, NextStream, NextCounts
<1>3. Invs => NoSilentGap
  BY CountsLeaveNoGap
<1> QED
  BY <1>1, <1>2, <1>3, PTL DEF Spec
=============================================================================
