------------------------------ MODULE Framing ------------------------------
(***************************************************************************)
(* One direction of the binary packet protocol, byte by byte: how build    *)
(* (crypto.rs) pads a payload, and how decode_from finds the end of a      *)
(* packet, its mac and its payload in the bytes that arrive.               *)
(*                                                                         *)
(* Bytes are counted, not stored.  What 4 bytes at some place of the       *)
(* stream mean to the decoder is known only where a packet begins and only *)
(* if the decoder's keystream is where the encoder's was; anywhere else    *)
(* they are any number.  A mac verifies if it is that of exactly the bytes *)
(* and the sequence number it is checked for.                              *)
(***************************************************************************)
EXTENDS Integers, Sequences

CONSTANTS
  Kind,     \* the variant of both enums: "Naked" or "Traditional"
  MacLen,   \* length of a mac; a naked packet has none
  Lengths,  \* the payload lengths sent
  WordMod,  \* an unsigned 32-bit integer is taken modulo WordMod (2^32)
  MaxPacket, \* the packet_length above which decode_from gives up (35000)
  Patience, \* how many Errs of decode_from its owner puts up with
  Noise,    \* what 4 bytes that are no packet's length field may decode to
  Cuts,     \* how much of a packet may arrive ahead of the rest
  Timeouts, \* whether a read on the stream may time out
  MaxSends  \* bound: packets sent

ASSUME FramingAssumption ==
  /\ Kind \in {"Naked", "Traditional"}
  /\ MacLen \in Nat
  /\ Kind = "Naked" => MacLen = 0 /\ Timeouts = FALSE /\ Patience = 1
  /\ Lengths \subseteq Nat
  /\ Kind = "Naked" => \A n \in Lengths : n + 256 < WordMod \* handshake messages
  /\ MaxPacket \in Nat /\ WordMod \in Nat /\ WordMod > MaxPacket
  /\ Patience \in Nat
  /\ Noise \subseteq 0 .. (WordMod - 1)
  /\ Cuts \subseteq Nat
  /\ Timeouts \in BOOLEAN
  /\ MaxSends \in Nat

VARIABLES
  encoder, \* bytes put on the wire, keystream bytes used
  sent,    \* the packets built
  arrived, \* bytes that have reached the reader
  decoder, \* bytes consumed, keystream bytes used, packet_length being read
  got,     \* the payloads decode_from has returned
  errors   \* how often decode_from has returned Err

vars == <<encoder, sent, arrived, decoder, got, errors>>

-----------------------------------------------------------------------------
\* Padding.

\* The block size of aes-ctr, and the least the protocol allows.
PadInc == IF Kind = "Naked" THEN 8 ELSE 16

\* Mutant: a padding that is too short is not lengthened.
SmallestPadShort(n) == (PadInc - ((5 + n) % PadInc)) % PadInc
SmallestPad(n) ==
  LET buf == (PadInc - ((5 + n) % PadInc)) % PadInc
  IN  IF buf >= 4 THEN buf ELSE buf + PadInc

\* build draws one of these at random.
PadLengths(n) ==
  {pad \in 0 .. 255 : pad >= SmallestPad(n) /\ (pad - SmallestPad(n)) % PadInc = 0}

\* The payload length is cut to 32 bits, and the sum wraps.
PacketLength(n, pad) == (1 + (n % WordMod) + pad) % WordMod

\* Keystream bytes that k bytes use up.
Keystream(k) == IF Kind = "Naked" THEN 0 ELSE k

\* Length, padding length, payload and padding: what is enciphered.
DataLen(packet) == 5 + packet.payload.len + packet.pad

Send(n, pad) ==
  LET packet == [at |-> encoder.at, ks |-> encoder.ks, pad |-> pad,
                 header |-> PacketLength(n, pad),
                 payload |-> [id |-> Len(sent) + 1, len |-> n]]
  IN  /\ Len(sent) < MaxSends
      /\ sent' = Append(sent, packet)
      /\ encoder' = [at |-> encoder.at + DataLen(packet) + MacLen,
                     ks |-> encoder.ks + Keystream(DataLen(packet))]
      /\ UNCHANGED <<arrived, decoder, got, errors>>

\* The stream delivers all that was sent, or stops part-way into a packet.
Arrive ==
  /\ \E to \in {encoder.at} \cup {sent[i].at + c : i \in DOMAIN sent, c \in Cuts} :
       arrived < to /\ to <= encoder.at /\ arrived' = to
  /\ UNCHANGED <<encoder, sent, decoder, got, errors>>

-----------------------------------------------------------------------------
\* decode_from.

\* What it reads first: the length field, or the block that holds it.
FirstLen == IF Kind = "Naked" THEN 4 ELSE 16

NoHeader == 0

\* Packet i begins where the decoder was `back` bytes ago.
Begins(i, back) ==
  /\ sent[i].at = decoder.at - back
  /\ sent[i].ks = decoder.ks - Keystream(back)

Headers ==
  LET here == {i \in DOMAIN sent : Begins(i, 0)}
  IN  IF here = {} THEN Noise ELSE {sent[i].header : i \in here}

\* Mutant: the upper limit is tested against the whole packet and its mac.
SizeOkTotal(h) == 5 <= h /\ 4 + h + MacLen <= MaxPacket /\ FirstLen <= 4 + h
\* Mutant: there is no upper limit.
SizeOkUnlimited(h) == 5 <= h /\ FirstLen <= 4 + h
SizeOk(h) == 5 <= h /\ h <= MaxPacket /\ FirstLen <= 4 + h

\* The owner still calls decode_from; a handshake ends at the first Err.
Running == errors < Patience

\* read_exact is asked for this many bytes.
Wanted ==
  IF decoder.header = NoHeader THEN FirstLen
                               ELSE 4 + decoder.header - FirstLen + MacLen
Readable == decoder.at + Wanted <= arrived

DecodeFirst ==
  /\ Running /\ decoder.header = NoHeader /\ Readable
  /\ \E h \in Headers :
       /\ decoder' = [at |-> decoder.at + FirstLen,
                      ks |-> decoder.ks + Keystream(FirstLen),
                      header |-> IF SizeOk(h) THEN h ELSE NoHeader]
       /\ errors' = IF SizeOk(h) THEN errors ELSE errors + 1
  /\ UNCHANGED <<encoder, sent, arrived, got>>

\* Mutant: the mac does not cover the sequence number.
AuthenticUnnumbered(i) ==
  /\ Begins(i, FirstLen)
  /\ Kind = "Traditional" => DataLen(sent[i]) = 4 + decoder.header

\* These bytes are packet i, and its mac and sequence number are as expected.
Authentic(i) ==
  /\ Begins(i, FirstLen)
  /\ Kind = "Traditional" =>
       /\ DataLen(sent[i]) = 4 + decoder.header
       /\ i = Len(got) + 1

\* get_payload: padding and payload lengths fill the packet exactly.
PayloadLen(h, pad) == h - pad - 1
PayloadOk(total, h, pad) ==
  /\ pad >= 4 /\ PayloadLen(h, pad) >= 0
  /\ total = 5 + PayloadLen(h, pad) + pad

DecodeRest ==
  /\ Running /\ decoder.header # NoHeader /\ Readable
  /\ LET h == decoder.header
         ok == {i \in DOMAIN sent : Authentic(i) /\ PayloadOk(4 + h, h, sent[i].pad)}
     IN  /\ got' = IF ok = {} THEN got
                   ELSE Append(got, [id |-> CHOOSE i \in ok : TRUE,
                                     len |-> PayloadLen(h, sent[CHOOSE i \in ok : TRUE].pad)])
         /\ errors' = IF ok = {} THEN errors + 1 ELSE errors
         /\ decoder' = [at |-> decoder.at + Wanted,
                        ks |-> decoder.ks + Keystream(Wanted - MacLen),
                        header |-> NoHeader]
  /\ UNCHANGED <<encoder, sent, arrived>>

\* read_exact times out: it has consumed what had arrived, and nothing of that
\* is deciphered.
Timeout ==
  /\ Timeouts /\ Running /\ ~Readable
  /\ decoder' = [decoder EXCEPT !.at = arrived, !.header = NoHeader]
  /\ errors' = errors + 1
  /\ UNCHANGED <<encoder, sent, arrived, got>>

-----------------------------------------------------------------------------
Init ==
  /\ encoder = [at |-> 0, ks |-> 0]
  /\ sent = <<>>
  /\ arrived = 0
  /\ decoder = [at |-> 0, ks |-> 0, header |-> NoHeader]
  /\ got = <<>>
  /\ errors = 0

Next ==
  \/ \E n \in Lengths : \E pad \in PadLengths(n) : Send(n, pad)
  \/ Arrive
  \/ DecodeFirst
  \/ DecodeRest
  \/ Timeout

Spec == Init /\ [][Next]_vars

-----------------------------------------------------------------------------
Packets == [at : Nat, ks : Nat, pad : 0 .. 255, header : 0 .. (WordMod - 1),
            payload : [id : Nat, len : Lengths]]

TypeOK ==
  /\ encoder \in [at : Nat, ks : Nat]
  /\ sent \in Seq(Packets)
  /\ arrived \in Nat
  /\ decoder \in [at : Nat, ks : Nat, header : 0 .. MaxPacket]
  /\ got \in Seq([id : Nat, len : Nat])
  /\ errors \in Nat

\* Every packet that is built can be enciphered block by block and taken apart
\* again: the padding is at least 4 bytes and fits its length byte, the blocks
\* are whole, and there is at least the one block decode_from reads first
\* (BinaryPacketEncoder::build, decode_from's first read).
BlocksAreWhole ==
  \A i \in DOMAIN sent :
    /\ sent[i].pad >= 4
    /\ DataLen(sent[i]) % PadInc = 0
    /\ DataLen(sent[i]) >= FirstLen

\* The largest payload that is accepted whatever padding is drawn.
SafeLen == MaxPacket - 1 - 255

\* On a stream that does not time out decode_from fails for size alone, and
\* only because of the packet that is next: a packet whose payload leaves room
\* for any padding is accepted, and so are all before it (build has no limit of
\* its own, decode_from's is on packet_length).
FailsOnlyOnSize ==
  errors > 0 /\ ~Timeouts =>
    /\ Len(got) < Len(sent)
    /\ sent[Len(got) + 1].payload.len > SafeLen

\* Whatever bytes the decoder took for a length, and wherever reads timed out,
\* what comes out is what went in: the packets implement a queue.
Queue == INSTANCE PacketQueue
           WITH in  <- [i \in DOMAIN sent |-> sent[i].payload],
                out <- got
ImplementsQueue == Queue!Spec
=============================================================================
