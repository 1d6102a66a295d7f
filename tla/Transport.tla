----------------------------- MODULE Transport -----------------------------
(***************************************************************************)
(* The SSH transport of one connection: the Client and Server state        *)
(* machines of pkg/client.rs and pkg/server.rs, each driven by its own     *)
(* process over a TCP stream, from the identification lines through the    *)
(* key exchange to the encrypted packets of the Ready state.               *)
(*                                                                         *)
(* ep[p] mirrors the Rust enum: its "st" is the variant and the other      *)
(* fields are the fields of the variant's struct.  wire[p] is everything p *)
(* has written, oldest first, and rd[p] how many units of its peer's wire  *)
(* p has consumed; wire keeps the whole history so that properties can     *)
(* speak of it.  A handler reads one unit, so each handler is one action.  *)
(***************************************************************************)
EXTENDS KeyExchange, PacketLayer, FiniteSets

CONSTANTS
  Ids, OwnId, BadId, \* identification lines; each endpoint's own; one refused
  Cookies,           \* values of the KEXINIT cookie
  Offers, OwnOffers, \* proposals; those each endpoint may make
  SeqMod,            \* sequence numbers are counted modulo SeqMod (2^32)
  IoErrors,          \* whether reads and writes may fail on an open stream
  MaxStarts,         \* bound: calls of Client::start
  MaxSends,          \* bound: calls of send_packet of each endpoint
  MaxDamage          \* bound: units damaged on their way

VARIABLES
  ep,       \* the Client and the Server value
  wire,     \* wire[p]: the units p has written
  rd,       \* rd[p]: the units p has read of the other's wire
  closed,   \* closed[p]: p has dropped its stream
  starts,   \* how often Client::start was called
  sends,    \* sends[p][n]: whether p's n-th send_packet returned Ok
  got,      \* got[p]: what p's read_packet calls have returned, in order
  damages   \* how many units were damaged

vars == <<ep, wire, rd, closed, starts, sends, got, damages>>

Roles == {"client", "server"}
Peer(p) == IF p = "client" THEN "server" ELSE "client"

ASSUME TransportAssumption ==
  /\ OwnId \in [Roles -> Ids \ {BadId}]
  /\ OwnOffers \in [Roles -> SUBSET Offers]
  /\ Offers \subseteq [Slots -> Seq(STRING)]
  /\ SeqMod \in Nat \ {0}
  /\ IoErrors \in BOOLEAN
  /\ MaxSends \in [Roles -> Nat]
  /\ {MaxStarts, MaxDamage} \subseteq Nat

-----------------------------------------------------------------------------
\* Messages.

IdLine(text) == [type |-> "ID", text |-> text]
KexInit(cookie, offer) == [type |-> "KEXINIT", cookie |-> cookie, offer |-> offer]
KexDhInit(e) == [type |-> "KEXDH_INIT", e |-> e]
KexDhReply(k_s, f, signature) ==
  [type |-> "KEXDH_REPLY", k_s |-> k_s, f |-> f, signature |-> signature]
NewKeys == [type |-> "NEWKEYS"]
Payload(n) == [type |-> "PAYLOAD", n |-> n]
Garbage == [type |-> "GARBAGE"]

\* What damage can make of a message no mac protects: bytes that do not parse,
\* or the same kind of message with other contents.  It never makes a
\* signature that verifies.
Garbled(msg) ==
  {Garbage} \cup
  CASE msg.type = "ID"         -> {IdLine(text) : text \in Ids}
    [] msg.type = "KEXINIT"    -> {KexInit(c, o) : c \in Cookies, o \in Offers}
    [] msg.type = "KEXDH_INIT" -> {KexDhInit(e) : e \in {0, 1, msg.e + 1}}
    [] msg.type = "KEXDH_REPLY" ->
         {KexDhReply(k, msg.f, msg.signature) : k \in HostKeys} \cup
         {KexDhReply(msg.k_s, f, msg.signature) : f \in {0, 1, msg.f + 1}} \cup
         {KexDhReply(msg.k_s, msg.f, [msg.signature EXCEPT !.key = Nobody])}
    [] OTHER -> {}

-----------------------------------------------------------------------------
\* The stream.

Line(p) == Build(Naked, 0, IdLine(OwnId[p]))

Unread(p) == rd[p] < Len(wire[Peer(p)])
NextUnit(p) == wire[Peer(p)][rd[p] + 1]

\* read_exact returns: the next unit is complete, or the bytes after a cut-off
\* one, or the end of the stream, complete it.
Readable(p) ==
  /\ Unread(p)
  /\ \/ NextUnit(p).form # "partial"
     \/ rd[p] + 1 < Len(wire[Peer(p)])
     \/ closed[Peer(p)]

\* The peer is gone: everything it wrote is read, or it left input unread and
\* the reset discarded what was still to be read here.
PeerGone(p) ==
  closed[Peer(p)] /\ (~Unread(p) \/ rd[Peer(p)] < Len(wire[p]))

WriteMayFail(p) == IoErrors \/ closed[Peer(p)]

\* What a failing sequence of writes may have put on the wire: a prefix of the
\* units, the last one possibly cut short.  All of them, if flush failed.
CutShort(unit) == [unit EXCEPT !.form = "partial"]
Cuts(out) ==
  {SubSeq(out, 1, n) : n \in 0 .. Len(out)} \cup
  {Append(SubSeq(out, 1, n), CutShort(out[n + 1])) : n \in 0 .. (Len(out) - 1)}

Write(p, units) == wire' = [wire EXCEPT ![p] = @ \o units]

-----------------------------------------------------------------------------
\* The handshake handlers.  Each takes the state by value (mem::replace with
\* Failed): on Ok the next state is stored, on Err Failed stays, and the
\* caller returns and drops the stream.

Failed == [st |-> "Failed"]
Handshaking(p) == ~closed[p] /\ ep[p].st \notin {"Ready", "Failed"}

At(p, st) == ~closed[p] /\ ep[p].st = st /\ Readable(p)

\* decode_from and deserialize both return Ok.
Received(p, type) ==
  /\ Decodes(ep[p].decoder, ep[p].recv_seq, NextUnit(p))
  /\ NextUnit(p).msg.type = type

\* read_identification_string returns Ok.
ReceivedLine(p) ==
  /\ NextUnit(p).form = "whole" /\ NextUnit(p).key = NoKey
  /\ NextUnit(p).msg.type = "ID" /\ NextUnit(p).msg.text # BadId

GiveUp(p) == /\ ep' = [ep EXCEPT ![p] = Failed]
             /\ closed' = [closed EXCEPT ![p] = TRUE]

Consume(p) == /\ rd' = [rd EXCEPT ![p] = @ + 1]
              /\ UNCHANGED <<starts, sends, got, damages>>

\* The handler writes `out` and returns `next`, unless a write fails.
Proceed(p, next, out) ==
  /\ Consume(p)
  /\ \/ /\ Write(p, out)
        /\ ep' = [ep EXCEPT ![p] = next]
        /\ UNCHANGED closed
     \/ /\ out # <<>> /\ WriteMayFail(p)
        /\ \E cut \in Cuts(out) : Write(p, cut)
        /\ GiveUp(p)

\* The handler returns Err after having written `out`, or less.
Refuse(p, out) ==
  /\ Consume(p)
  /\ \/ Write(p, out)
     \/ /\ out # <<>> /\ WriteMayFail(p)
        /\ \E cut \in Cuts(out) : Write(p, cut)
  /\ GiveUp(p)

\* A sequence number after k more packets (wrapping_add).
SeqAdd(seq, k) == (seq + k) % SeqMod

-----------------------------------------------------------------------------
\* Client: start, then one handler per state.

StartOk ==
  /\ Write("client", <<Line("client")>>)
  /\ UNCHANGED closed

StartErr ==
  /\ WriteMayFail("client")
  /\ \E cut \in Cuts(<<Line("client")>>) : Write("client", cut)
  /\ closed' = [closed EXCEPT !["client"] = TRUE]

\* start borrows the state, so it can be called again before the server's
\* identification line is read; an Err leaves the state and drops the stream.
Start ==
  /\ ep["client"].st = "WaitingForProtoVersion"
  /\ ~closed["client"] /\ starts < MaxStarts
  /\ starts' = starts + 1
  /\ StartOk \/ StartErr
  /\ UNCHANGED <<ep, rd, sends, got, damages>>

\* Each handler H(...) has an After operator: the struct it returns.
ClientAfterProtoVersion(c, line, kexinit) ==
  [st |-> "WaitingForServerKexInit", client_id |-> c.client_id, server_id |-> line.text,
   encoder |-> Advance(Naked), decoder |-> Naked, send_seq |-> SeqAdd(0, 1), recv_seq |-> 0,
   client_kexinit |-> kexinit]

ClientReceiveProtoVersion ==
  /\ At("client", "WaitingForProtoVersion")
  /\ \/ ~ReceivedLine("client") /\ Refuse("client", <<>>)
     \/ /\ ReceivedLine("client")
        /\ \E cookie \in Cookies, offer \in OwnOffers["client"] :
             LET kexinit == KexInit(cookie, offer)
             IN  Proceed("client",
                   ClientAfterProtoVersion(ep["client"], NextUnit("client").msg, kexinit),
                   <<Build(Naked, 0, kexinit)>>)

ClientAfterKexInit(c, kexinit, neg, secret) ==
  [st |-> "WaitingForKexReply", client_id |-> c.client_id, server_id |-> c.server_id,
   encoder |-> Advance(c.encoder), decoder |-> Advance(c.decoder),
   send_seq |-> SeqAdd(c.send_seq, 1), recv_seq |-> SeqAdd(c.recv_seq, 1),
   client_kexinit |-> c.client_kexinit, server_kexinit |-> kexinit, negotiated |-> neg,
   secret |-> secret, public_value |-> PublicValue(neg["kex"], secret)]

\* Negotiates before it writes: on a mismatch the server gets nothing more.
ClientReceiveServerKexinit ==
  LET c == ep["client"]  msg == NextUnit("client").msg
  IN  /\ At("client", "WaitingForServerKexInit")
      /\ \/ /\ ~(/\ Received("client", "KEXINIT")
                 /\ Negotiable(c.client_kexinit.offer, msg.offer))
            /\ Refuse("client", <<>>)
         \/ /\ Received("client", "KEXINIT")
            /\ Negotiable(c.client_kexinit.offer, msg.offer)
            /\ LET neg == client_negotiate(c.client_kexinit.offer, msg.offer)
               IN \E secret \in DhSecrets(neg["kex"]) :
                    LET init == KexDhInit(PublicValue(neg["kex"], secret))
                    IN  Proceed("client", ClientAfterKexInit(c, msg, neg, secret),
                                <<Build(c.encoder, c.send_seq, init)>>)

\* The client's own computation of the shared key and the exchange hash.
ClientSharedKey(c, reply) == SharedKey(c.negotiated["kex"], reply.f, c.secret)
ClientHash(c, reply) ==
  ExchangeHash(c.negotiated["kex"], c.client_id, c.server_id,
               c.client_kexinit, c.server_kexinit, reply.k_s,
               c.public_value, reply.f, ClientSharedKey(c, reply))

\* derive_keys then into_client_pair / into_server_pair: one key per direction.
EncoderDir(p) == IF p = "client" THEN "c2s" ELSE "s2c"
\* Mutant: into_client_pair and into_server_pair are exchanged.
PendingEncoderOfPeer(p, neg, k, hash) == Traditional(DerivedKey(EncoderDir(Peer(p)), neg, k, hash))
PendingEncoder(p, neg, k, hash) == Traditional(DerivedKey(EncoderDir(p), neg, k, hash))
PendingDecoder(p, neg, k, hash) == Traditional(DerivedKey(EncoderDir(Peer(p)), neg, k, hash))

ClientAccepts(c, reply) == Verifies(reply.k_s, ClientHash(c, reply), reply.signature)

ClientAfterKexReply(c, reply) ==
  LET k == ClientSharedKey(c, reply)  hash == ClientHash(c, reply)
  IN  [st |-> "WaitingForNewKeys", decoder |-> Advance(c.decoder),
       send_seq |-> SeqAdd(c.send_seq, 1), recv_seq |-> SeqAdd(c.recv_seq, 1),
       pending_encoder |-> PendingEncoder("client", c.negotiated, k, hash),
       pending_decoder |-> PendingDecoder("client", c.negotiated, k, hash),
       session_id |-> hash]

\* Mutant: the client does not announce its new keys.
ClientReceiveKexReplySilent ==
  LET c == ep["client"]  msg == NextUnit("client").msg
  IN  /\ At("client", "WaitingForKexReply")
      /\ Received("client", "KEXDH_REPLY") /\ ClientAccepts(c, msg)
      /\ Proceed("client", ClientAfterKexReply(c, msg), <<>>)

ClientReceiveKexReply ==
  LET c == ep["client"]  msg == NextUnit("client").msg
  IN  /\ At("client", "WaitingForKexReply")
      /\ \/ /\ ~(Received("client", "KEXDH_REPLY") /\ ClientAccepts(c, msg))
            /\ Refuse("client", <<>>)
         \/ /\ Received("client", "KEXDH_REPLY") /\ ClientAccepts(c, msg)
            /\ Proceed("client", ClientAfterKexReply(c, msg),
                       <<Build(c.encoder, c.send_seq, NewKeys)>>)

-----------------------------------------------------------------------------
\* Server: one handler per state.

ServerAfterProtoVersion(s, line) ==
  [st |-> "WaitingForClientKexInit", client_id |-> line.text, server_id |-> s.server_id,
   host_key |-> s.host_key, encoder |-> Naked, decoder |-> Naked,
   send_seq |-> 0, recv_seq |-> 0]

\* Mutant: the server's line stays in its buffer.
ServerReceiveProtoVersionSilent ==
  /\ At("server", "WaitingForProtoVersion")
  /\ Proceed("server", ServerAfterProtoVersion(ep["server"], NextUnit("server").msg), <<>>)

\* Reads the client's line before it writes its own.
ServerReceiveProtoVersion ==
  /\ At("server", "WaitingForProtoVersion")
  /\ \/ ~ReceivedLine("server") /\ Refuse("server", <<>>)
     \/ /\ ReceivedLine("server")
        /\ Proceed("server", ServerAfterProtoVersion(ep["server"], NextUnit("server").msg),
                   <<Line("server")>>)

ServerAfterKexInit(s, theirs, ours) ==
  [st |-> "WaitingForKexDhInit", client_id |-> s.client_id, server_id |-> s.server_id,
   host_key |-> s.host_key, encoder |-> Advance(s.encoder), decoder |-> Advance(s.decoder),
   send_seq |-> SeqAdd(s.send_seq, 1), recv_seq |-> SeqAdd(s.recv_seq, 1),
   client_kexinit |-> theirs, server_kexinit |-> ours,
   negotiated |-> server_negotiate(theirs.offer, ours.offer)]

\* Writes its own KEXINIT before it negotiates: on a mismatch the client still
\* gets it, and finds the mismatch itself.
ServerReceiveClientKexinit ==
  LET s == ep["server"]  msg == NextUnit("server").msg
  IN  /\ At("server", "WaitingForClientKexInit")
      /\ \/ ~Received("server", "KEXINIT") /\ Refuse("server", <<>>)
         \/ /\ Received("server", "KEXINIT")
            /\ \E cookie \in Cookies, offer \in OwnOffers["server"] :
                 LET kexinit == KexInit(cookie, offer)
                     out == <<Build(s.encoder, s.send_seq, kexinit)>>
                 IN  \/ ~Negotiable(msg.offer, offer) /\ Refuse("server", out)
                     \/ /\ Negotiable(msg.offer, offer)
                        /\ Proceed("server", ServerAfterKexInit(s, msg, kexinit), out)

\* The server's reply to the client's public value e.
ServerSharedKey(s, e, secret) == SharedKey(s.negotiated["kex"], e, secret)
ServerHash(s, e, secret) ==
  ExchangeHash(s.negotiated["kex"], s.client_id, s.server_id,
               s.client_kexinit, s.server_kexinit, s.host_key,
               e, PublicValue(s.negotiated["kex"], secret), ServerSharedKey(s, e, secret))
ServerReply(s, e, secret) ==
  KexDhReply(s.host_key, PublicValue(s.negotiated["kex"], secret),
             Sign(s.host_key, ServerHash(s, e, secret)))

ServerAfterKexDhInit(s, e, secret) ==
  LET k == ServerSharedKey(s, e, secret)  hash == ServerHash(s, e, secret)
  IN  [st |-> "WaitingForNewKeys",
       encoder |-> Advance(Advance(s.encoder)), decoder |-> Advance(s.decoder),
       send_seq |-> SeqAdd(s.send_seq, 2), recv_seq |-> SeqAdd(s.recv_seq, 1),
       pending_encoder |-> PendingEncoder("server", s.negotiated, k, hash),
       pending_decoder |-> PendingDecoder("server", s.negotiated, k, hash),
       session_id |-> hash]

\* The reply and NEWKEYS go out together, numbered send_seq and send_seq + 1.
ServerReceiveKexdhInit ==
  LET s == ep["server"]  msg == NextUnit("server").msg
  IN  /\ At("server", "WaitingForKexDhInit")
      /\ \/ ~Received("server", "KEXDH_INIT") /\ Refuse("server", <<>>)
         \/ /\ Received("server", "KEXDH_INIT")
            /\ \E secret \in DhSecrets(s.negotiated["kex"]) :
                 Proceed("server", ServerAfterKexDhInit(s, msg.e, secret),
                   <<Build(s.encoder, s.send_seq, ServerReply(s, msg.e, secret)),
                     Build(Advance(s.encoder), SeqAdd(s.send_seq, 1), NewKeys)>>)

-----------------------------------------------------------------------------
\* Mutant: NEWKEYS itself is not counted.
AfterNewKeysUncounted(x) ==
  [st |-> "Ready", encoder |-> x.pending_encoder, decoder |-> x.pending_decoder,
   send_seq |-> x.send_seq, recv_seq |-> x.recv_seq, session_id |-> x.session_id]

\* Both: NEWKEYS switches encoder and decoder together.
AfterNewKeys(x) ==
  [st |-> "Ready", encoder |-> x.pending_encoder, decoder |-> x.pending_decoder,
   send_seq |-> x.send_seq, recv_seq |-> SeqAdd(x.recv_seq, 1),
   session_id |-> x.session_id]

ReceiveNewkeys(p) ==
  /\ At(p, "WaitingForNewKeys")
  /\ \/ ~Received(p, "NEWKEYS") /\ Refuse(p, <<>>)
     \/ Received(p, "NEWKEYS") /\ Proceed(p, AfterNewKeys(ep[p]), <<>>)

\* Mutant: the end of the stream is taken for a read to be tried again.
HangupIgnored(p) == Handshaking(p) /\ PeerGone(p) /\ UNCHANGED vars

\* A read fails in a handshake state: the stream ended, or the read itself did.
Hangup(p) ==
  /\ Handshaking(p) /\ PeerGone(p)
  /\ GiveUp(p)
  /\ UNCHANGED <<wire, rd, starts, sends, got, damages>>

ReadError(p) ==
  /\ Handshaking(p) /\ IoErrors
  /\ GiveUp(p)
  /\ UNCHANGED <<wire, rd, starts, sends, got, damages>>

-----------------------------------------------------------------------------
\* Ready: the API the owner of the transport calls.  Errors leave it Ready.

Open(p) == ep[p].st = "Ready" /\ ~closed[p]

\* build enciphers before the write, so the encoder moves on in any case;
\* send_seq only after write_all and flush have both returned Ok.
SendPacket(p) ==
  LET x == ep[p]
      unit == Build(x.encoder, x.send_seq, Payload(Len(sends[p]) + 1))
  IN  /\ Open(p) /\ Len(sends[p]) < MaxSends[p]
      /\ \/ /\ Write(p, <<unit>>)
            /\ ep' = [ep EXCEPT ![p].encoder = Advance(x.encoder),
                                ![p].send_seq = SeqAdd(x.send_seq, 1)]
            /\ sends' = [sends EXCEPT ![p] = Append(@, TRUE)]
         \/ /\ WriteMayFail(p)
            /\ \E cut \in Cuts(<<unit>>) : Write(p, cut)
            /\ ep' = [ep EXCEPT ![p].encoder = Advance(x.encoder)]
            /\ sends' = [sends EXCEPT ![p] = Append(@, FALSE)]
      /\ UNCHANGED <<rd, closed, starts, got, damages>>

\* recv_seq counts only the packets that decode; a failed decode has
\* nevertheless moved the decoder (AfterError).
ReadPacket(p) ==
  LET x == ep[p]  unit == NextUnit(p)
  IN  /\ Open(p) /\ Readable(p)
      /\ \/ /\ Decodes(x.decoder, x.recv_seq, unit)
            /\ ep' = [ep EXCEPT ![p].decoder = Advance(x.decoder),
                                ![p].recv_seq = SeqAdd(x.recv_seq, 1)]
            /\ got' = [got EXCEPT ![p] = Append(@, unit.msg)]
         \/ /\ ~Decodes(x.decoder, x.recv_seq, unit)
            /\ \E decoder \in AfterError(x.decoder, unit) :
                 ep' = [ep EXCEPT ![p].decoder = decoder]
            /\ UNCHANGED got
      /\ rd' = [rd EXCEPT ![p] = @ + 1]
      /\ UNCHANGED <<wire, closed, starts, sends, damages>>

\* Mutant: a read that times out counts as a unit read, although none came.
ReadPacketErrorEarly(p) ==
  /\ Open(p) /\ IoErrors
  /\ ep' = [ep EXCEPT ![p].decoder.aligned = FALSE]
  /\ rd' = [rd EXCEPT ![p] = @ + 1]
  /\ UNCHANGED <<wire, closed, starts, sends, got, damages>>

\* Mutant: a packet that cannot be read is counted and skipped.
ReadPacketErrorSkips(p) ==
  /\ Open(p) /\ Unread(p) /\ IoErrors
  /\ ep' = [ep EXCEPT ![p].decoder = Advance(@), ![p].recv_seq = SeqAdd(@, 1)]
  /\ rd' = [rd EXCEPT ![p] = @ + 1]
  /\ UNCHANGED <<wire, closed, starts, sends, got, damages>>

\* An I/O error in the middle of a unit: read_exact has consumed some of it,
\* and decode_from may have deciphered its first block.  (An error before its
\* first byte, or the end of the stream, changes nothing: read_packet is Err.)
ReadPacketError(p) ==
  /\ Open(p) /\ Unread(p) /\ IoErrors
  /\ ep' = [ep EXCEPT ![p].decoder.aligned = FALSE]
  /\ rd' = [rd EXCEPT ![p] = @ + 1]
  /\ UNCHANGED <<wire, closed, starts, sends, got, damages>>

\* The owner drops the transport; both binaries do as soon as it is Ready.
Close(p) ==
  /\ Open(p)
  /\ closed' = [closed EXCEPT ![p] = TRUE]
  /\ UNCHANGED <<ep, wire, rd, starts, sends, got, damages>>

-----------------------------------------------------------------------------
\* The environment: the next unit p will read is damaged on its way.

Damaged(unit) ==
  IF unit.key = NoKey THEN {[unit EXCEPT !.msg = m] : m \in Garbled(unit.msg) \ {unit.msg}}
                      ELSE {[unit EXCEPT !.form = "damaged"]}

Damage(p) ==
  /\ Unread(p) /\ NextUnit(p).form = "whole" /\ damages < MaxDamage
  /\ damages' = damages + 1
  /\ \E unit \in Damaged(NextUnit(p)) :
       wire' = [wire EXCEPT ![Peer(p)][rd[p] + 1] = unit]
  /\ UNCHANGED <<ep, rd, closed, starts, sends, got>>

-----------------------------------------------------------------------------
Init ==
  /\ \E host_key \in HostKeys :
       ep = [client |-> [st |-> "WaitingForProtoVersion", client_id |-> OwnId["client"]],
             server |-> [st |-> "WaitingForProtoVersion", server_id |-> OwnId["server"],
                         host_key |-> host_key]]
  /\ wire = [p \in Roles |-> <<>>]
  /\ rd = [p \in Roles |-> 0]
  /\ closed = [p \in Roles |-> FALSE]
  /\ starts = 0
  /\ sends = [p \in Roles |-> <<>>]
  /\ got = [p \in Roles |-> <<>>]
  /\ damages = 0

\* The handler p's driver is blocked in, when the read it waits for returns.
ClientReceive ==
  \/ ClientReceiveProtoVersion
  \/ ClientReceiveServerKexinit
  \/ ClientReceiveKexReply
  \/ ReceiveNewkeys("client")
  \/ Hangup("client")

ServerReceive ==
  \/ ServerReceiveProtoVersion
  \/ ServerReceiveClientKexinit
  \/ ServerReceiveKexdhInit
  \/ ReceiveNewkeys("server")
  \/ Hangup("server")

Ready(p) == SendPacket(p) \/ ReadPacket(p) \/ ReadPacketError(p) \/ Close(p)

Next ==
  \/ Start
  \/ ClientReceive
  \/ ServerReceive
  \/ \E p \in Roles : Ready(p) \/ ReadError(p) \/ Damage(p)

Spec == Init /\ [][Next]_vars

\* Both binaries call start and the handlers one after the other and nothing
\* else, so a call that can return does.  Nothing is assumed of the calls a
\* Ready transport gets, nor of errors.
Fairness == /\ WF_vars(Start /\ starts = 0)
            /\ WF_vars(ClientReceive)
            /\ WF_vars(ServerReceive)

FairSpec == Spec /\ Fairness

-----------------------------------------------------------------------------
\* Types.

KexInits == [type : {"KEXINIT"}, cookie : Cookies, offer : Offers]
Hashes == [len : {32, 64}, v_c : Ids, v_s : Ids, i_c : KexInits, i_s : KexInits,
           k_s : HostKeys, e : Nat, f : Nat, k : Nat]
Signatures == [key : HostKeys \cup {Nobody}, over : Hashes]
Messages ==
  [type : {"ID"}, text : Ids] \cup KexInits \cup [type : {"KEXDH_INIT"}, e : Nat] \cup
  [type : {"KEXDH_REPLY"}, k_s : HostKeys, f : Nat, signature : Signatures] \cup
  [type : {"PAYLOAD"}, n : Nat] \cup {NewKeys, Garbage}

Keys == {NoKey} \cup [dir : {"c2s", "s2c"}, cipher : CipherNames, mac : MacNames,
                      k : Nat, hash : Hashes]
Codecs == [key : Keys, pos : Nat, aligned : BOOLEAN]
Units == [form : {"whole", "damaged", "partial"}, key : Keys, pos : Nat,
          seq : Nat, msg : Messages]

\* One record set per variant of the two enums.
ClientAtProtoVersion == [st : {"WaitingForProtoVersion"}, client_id : Ids]
ClientAtKexInit ==
  [st : {"WaitingForServerKexInit"}, client_id : Ids, server_id : Ids,
   encoder : Codecs, decoder : Codecs, send_seq : Nat, recv_seq : Nat,
   client_kexinit : KexInits]
ClientAtKexReply ==
  [st : {"WaitingForKexReply"}, client_id : Ids, server_id : Ids,
   encoder : Codecs, decoder : Codecs, send_seq : Nat, recv_seq : Nat,
   client_kexinit : KexInits, server_kexinit : KexInits,
   negotiated : Negotiated, secret : Nat, public_value : Nat]
ClientAtNewKeys ==
  [st : {"WaitingForNewKeys"}, decoder : Codecs, send_seq : Nat, recv_seq : Nat,
   pending_encoder : Codecs, pending_decoder : Codecs, session_id : Hashes]

ServerAtProtoVersion ==
  [st : {"WaitingForProtoVersion"}, server_id : Ids, host_key : HostKeys]
ServerAtKexInit ==
  [st : {"WaitingForClientKexInit"}, client_id : Ids, server_id : Ids,
   host_key : HostKeys, encoder : Codecs, decoder : Codecs,
   send_seq : Nat, recv_seq : Nat]
ServerAtKexDhInit ==
  [st : {"WaitingForKexDhInit"}, client_id : Ids, server_id : Ids,
   host_key : HostKeys, encoder : Codecs, decoder : Codecs,
   send_seq : Nat, recv_seq : Nat,
   client_kexinit : KexInits, server_kexinit : KexInits, negotiated : Negotiated]
ServerAtNewKeys ==
  [st : {"WaitingForNewKeys"}, encoder : Codecs, decoder : Codecs,
   send_seq : Nat, recv_seq : Nat,
   pending_encoder : Codecs, pending_decoder : Codecs, session_id : Hashes]

AtReady ==
  [st : {"Ready"}, encoder : Codecs, decoder : Codecs,
   send_seq : Nat, recv_seq : Nat, session_id : Hashes]

States(p) ==
  AtReady \cup {Failed} \cup
  IF p = "client"
    THEN ClientAtProtoVersion \cup ClientAtKexInit \cup ClientAtKexReply \cup ClientAtNewKeys
    ELSE ServerAtProtoVersion \cup ServerAtKexInit \cup ServerAtKexDhInit \cup ServerAtNewKeys

\* Every value has its type; in particular no handler reads a field that the
\* variant it matched does not have.
TypeOK ==
  /\ DOMAIN ep = Roles
  /\ \A p \in Roles : ep[p] \in States(p)
  /\ wire \in [Roles -> Seq(Units)]
  /\ rd \in [Roles -> Nat]
  /\ \A p \in Roles : rd[p] <= Len(wire[Peer(p)])
  /\ closed \in [Roles -> BOOLEAN]
  /\ starts \in Nat /\ damages \in Nat
  /\ sends \in [Roles -> Seq(BOOLEAN)]
  /\ got \in [Roles -> Seq(Messages)]

-----------------------------------------------------------------------------
\* Safety.

KeysDerived == {"WaitingForNewKeys", "Ready"}

\* The key p seals with, or opens with, once NEWKEYS has been processed.
SealingKey(p) ==
  IF ep[p].st = "Ready" THEN ep[p].encoder.key ELSE ep[p].pending_encoder.key
OpeningKey(p) ==
  IF ep[p].st = "Ready" THEN ep[p].decoder.key ELSE ep[p].pending_decoder.key

\* A client that has verified the reply shares the session with the server
\* that signed it: the server has finished its key exchange too, both hold the
\* same session id, although each computed it from its own record of the
\* handshake, and each direction's encoder and decoder hold the same key.
\* This holds whatever damage the handshake suffered on its way
\* (client.rs receive_kex_reply, server.rs receive_kexdh_init, derive_keys).
SessionAgreement ==
  ep["client"].st \in KeysDerived =>
    /\ ep["server"].st \in KeysDerived \cup {"Failed"}
    /\ ep["server"].st # "Failed" =>
         /\ ep["client"].session_id = ep["server"].session_id
         /\ SealingKey("client") = OpeningKey("server")
         /\ SealingKey("server") = OpeningKey("client")

\* Why it is so: what every handler keeps true, in four parts.
SessionKey(dir, hash) ==
  DerivedKey(dir, client_negotiate(hash.i_c.offer, hash.i_s.offer), hash.k, hash)

\* A signature that can verify is the server's, over its own session id.
Signed(msg) == msg.type = "KEXDH_REPLY" /\ msg.signature.key # Nobody
SignedByServer ==
  \A i \in 1 .. Len(wire["server"]) :
    LET msg == wire["server"][i].msg
    IN  Signed(msg) =>
          /\ ep["server"].st \in KeysDerived \cup {"Failed"}
          /\ ep["server"].st # "Failed" => msg.signature.over = ep["server"].session_id

\* The selection an endpoint works with is that of the proposals it will hash.
SelectionFromProposals ==
  \A p \in Roles : ep[p].st \in {"WaitingForKexReply", "WaitingForKexDhInit"} =>
    ep[p].negotiated =
      client_negotiate(ep[p].client_kexinit.offer, ep[p].server_kexinit.offer)

\* An endpoint's two keys are a function of its session id.
KeysFromSession ==
  \A p \in Roles : ep[p].st \in KeysDerived =>
    /\ SealingKey(p) = SessionKey(EncoderDir(p), ep[p].session_id)
    /\ OpeningKey(p) = SessionKey(EncoderDir(Peer(p)), ep[p].session_id)

\* The client's session id is the server's.
SameSession ==
  ep["client"].st \in KeysDerived =>
    /\ ep["server"].st \in KeysDerived \cup {"Failed"}
    /\ ep["server"].st # "Failed" => ep["client"].session_id = ep["server"].session_id

\* The four together are inductive and imply SessionAgreement.  It holds
\* through all faults and damage (receive_kexdh_init, receive_kex_reply,
\* client_negotiate and server_negotiate, derive_keys, receive_newkeys).
SessionInvariant ==
  SignedByServer /\ SelectionFromProposals /\ KeysFromSession /\ SameSession

\* No two packets are ever enciphered under the same key at the same place of
\* the keystream, not even across a send_packet that failed and the next one
\* that did not (BinaryPacketEncoder::protect, into_*_pair).
KeystreamNeverReused ==
  \A p, q \in Roles : \A i \in 1 .. Len(wire[p]), j \in 1 .. Len(wire[q]) :
    LET u == wire[p][i]  v == wire[q][j]
    IN  (u.key # NoKey /\ u.key = v.key /\ u.pos = v.pos) => (p = q /\ i = j)

\* Payload travels only under the keys of the session: sealed for its own
\* direction, with the algorithms the two hashed proposals negotiate to, from
\* an exchange hash the server has signed (receive_newkeys switches the
\* encoder, derive_keys and into_*_pair choose the key, send_packet is Ready's).
PayloadSealedAsAgreed ==
  \A p \in Roles : \A i \in 1 .. Len(wire[p]) :
    LET u == wire[p][i]  h == u.key.hash
    IN  u.msg.type = "PAYLOAD" =>
          /\ u.key # NoKey
          /\ u.key = SessionKey(EncoderDir(p), h)
          /\ \E j \in 1 .. Len(wire["server"]) :
               LET reply == wire["server"][j].msg
               IN  reply.type = "KEXDH_REPLY" /\ reply.signature.over = h

\* Whatever was damaged or failed, read_packet returns a peer's payloads in
\* the order they were sent and none twice; and it skips at most as many as
\* send_packet calls had failed since the one last returned.  recv_seq counts
\* only packets that decode, so after a packet that does not decode the mac of
\* every later one is wrong, unless a sender repeats a sequence number because
\* its send_packet put the packet on the wire and still returned an error.
NoSilentGap ==
  \A p \in Roles : \A i \in 1 .. Len(got[p]) :
    LET n == got[p][i].n
        before == IF i = 1 THEN 0 ELSE got[p][i - 1].n
        failed == {m \in 1 .. (n - 1) : m >= before /\ ~sends[Peer(p)][m]}
    IN  n > before /\ n - before - 1 <= Cardinality(failed)

\* Holds on an undisturbed stream: whatever is next to be read is what its
\* reader accepts, so keys, keystream and sequence numbers of the two ends
\* never drift apart, from KEXINIT through the change of keys to the last
\* packet.  A second identification line is the exception (see Start).
UnreadDecodes ==
  \A p \in Roles :
    LET x == ep[p]
    IN  (Unread(p) /\ ~closed[p] /\ x.st # "WaitingForProtoVersion" /\ starts < 2)
          => /\ Decodes(x.decoder, x.recv_seq, NextUnit(p))
             /\ NextUnit(p).msg.type =
                  CASE x.st = "WaitingForServerKexInit" -> "KEXINIT"
                    [] x.st = "WaitingForClientKexInit" -> "KEXINIT"
                    [] x.st = "WaitingForKexDhInit"     -> "KEXDH_INIT"
                    [] x.st = "WaitingForKexReply"      -> "KEXDH_REPLY"
                    [] x.st = "WaitingForNewKeys"       -> "NEWKEYS"
                    [] OTHER -> "PAYLOAD"

\* Client and server are never both blocked in a read that nothing can
\* satisfy: the server waits for the client's line and KEXINIT before it
\* sends its own, so one message held back would stop both for good.
Blocked(p) == Handshaking(p) /\ ~Readable(p) /\ ~PeerGone(p)
NoMutualWait == starts > 0 => ~(Blocked("client") /\ Blocked("server"))

\* On an undisturbed stream a handshake fails for one reason only: the two
\* proposals in it have no negotiable outcome (or start was called again).
Proposals(p) ==
  {wire[p][i].msg.offer : i \in {j \in 1 .. Len(wire[p]) : wire[p][j].msg.type = "KEXINIT"}}
Mismatch == \E c \in Proposals("client"), s \in Proposals("server") : ~Negotiable(c, s)
FailsOnlyOnMismatch ==
  (\E p \in Roles : ep[p].st = "Failed") => starts > 1 \/ Mismatch

-----------------------------------------------------------------------------
\* Refinement.

\* What an end is to its owner: in no session until it has the keys, gone once
\* its stream is.
NoSession == [len |-> 0]
Phase(p) == IF closed[p] THEN "left"
            ELSE IF ep[p].st = "Ready" THEN "ready"
            ELSE IF ep[p].st = "WaitingForNewKeys" THEN "agreed"
            ELSE "opening"
SessionOf(p) == IF Phase(p) \in {"agreed", "ready"} THEN ep[p].session_id ELSE NoSession
Offered ==
  LET signed == {i \in 1 .. Len(wire["server"]) : wire["server"][i].msg.type = "KEXDH_REPLY"}
  IN  IF signed = {} THEN NoSession
      ELSE wire["server"][CHOOSE i \in signed : TRUE].msg.signature.over

Channel == INSTANCE SecureChannel
             WITH Sessions <- Hashes, None <- NoSession, offer <- Offered,
                  phase   <- [p \in Roles |-> Phase(p)],
                  session <- [p \in Roles |-> SessionOf(p)],
                  sent    <- [p \in Roles |-> Len(sends[p])],
                  got     <- [p \in Roles |-> [i \in DOMAIN got[p] |-> got[p][i].n]]

\* On a stream whose reads and writes fail only when the peer is gone the two
\* state machines implement a secure channel, whatever is damaged on its way:
\* one session or none, and payloads in order, none left out, none twice, between
\* ends of the same session (client.rs, server.rs, all handlers).
ImplementsChannel == Channel!Spec

-----------------------------------------------------------------------------
\* Liveness.

Settled(p) == ep[p].st = "Ready" \/ closed[p]

\* Every handshake comes to an end at both ends, also when reads and writes
\* fail: an error closes the stream, and that ends the other side's read.
HandshakeSettles == <>(Settled("client") /\ Settled("server"))

\* Without I/O errors no end is left behind: when one has all the keys, and
\* even closes its stream at once as both binaries do, the other still gets
\* the NEWKEYS it waits for.
NeitherIsLeftBehind ==
  \A p \in Roles : (ep[p].st = "Ready") ~> (ep[Peer(p)].st = "Ready")

\* On an undisturbed stream both ends become Ready, unless their proposals
\* cannot be negotiated or start is called again.
HandshakeCompletes == <>((\A p \in Roles : ep[p].st = "Ready") \/ starts > 1 \/ Mismatch)
=============================================================================
