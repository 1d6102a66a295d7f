--------------------------- MODULE FramingProofs ---------------------------
(***************************************************************************)
(* Proofs about Framing, for every payload length, choice of padding, kind *)
(* of codec, noise, and place where a read may time out.                   *)
(***************************************************************************)
EXTENDS Framing, TLAPS

-----------------------------------------------------------------------------
\* Padding.

\* The block sizes.
LEMMA PadIncType == PadInc \in {8, 16}
  BY DEF PadInc

\* What build can draw: a byte, at least 4, that completes the last block.
LEMMA PaddingFits ==
  ASSUME NEW n \in Nat, NEW pad \in PadLengths(n)
  PROVE  /\ pad \in 4 .. 255
         /\ (5 + n + pad) % PadInc = 0
<1>1. CASE PadInc = 8
  BY <1>1 DEF PadLengths, SmallestPad
<1>2. CASE PadInc = 16
  BY <1>2 DEF PadLengths, SmallestPad
<1>3. QED
  BY <1>1, <1>2, PadIncType

\* build's "No possible pad lengths" never happens.
THEOREM PaddingExists ==
  ASSUME NEW n \in Nat
  PROVE  PadLengths(n) # {}
<1>1. SmallestPad(n) \in 4 .. 255
  BY PadIncType DEF SmallestPad
<1>2. (SmallestPad(n) - SmallestPad(n)) % PadInc = 0
  BY <1>1, PadIncType
<1>3. SmallestPad(n) \in PadLengths(n)
  BY <1>1, <1>2 DEF PadLengths
<1>4. QED
  BY <1>3

-----------------------------------------------------------------------------
\* The invariant.

\* Where packet j begins; the one after the last begins where the encoder is.
StartAt(j) == IF j <= Len(sent) THEN sent[j].at ELSE encoder.at
StartKs(j) == IF j <= Len(sent) THEN sent[j].ks ELSE encoder.ks

\* The packets lie one behind the other, each as build made it.
Layout ==
  /\ StartAt(1) = 0 /\ StartKs(1) = 0
  /\ \A i \in 1 .. Len(sent) :
       /\ sent[i].payload.id = i
       /\ sent[i].pad \in PadLengths(sent[i].payload.len)
       /\ sent[i].header = PacketLength(sent[i].payload.len, sent[i].pad)
       /\ StartAt(i + 1) = sent[i].at + DataLen(sent[i]) + MacLen
       /\ StartKs(i + 1) = sent[i].ks + Keystream(DataLen(sent[i]))
       /\ sent[i].at < encoder.at
  /\ \A i, j \in 1 .. Len(sent) : i < j => sent[i].at < sent[j].at

\* Nothing is read before it arrives, nothing arrives before it is sent.
Causal == decoder.at <= arrived /\ arrived <= encoder.at

\* Until the first Err the decoder is at the packet that is next.
InStep ==
  errors = 0 =>
    LET k == Len(got) + 1
    IN  /\ k <= Len(sent) + 1
        /\ decoder.header = NoHeader =>
             decoder.at = StartAt(k) /\ decoder.ks = StartKs(k)
        /\ decoder.header # NoHeader =>
             /\ k <= Len(sent)
             /\ Begins(k, FirstLen)
             /\ decoder.header = sent[k].header
             /\ SizeOk(decoder.header)

\* What has been returned is what was sent.
Returned ==
  /\ Len(got) <= Len(sent)
  /\ \A i \in 1 .. Len(got) : got[i] = sent[i].payload

\* A length that is being used has been tested.
Tested == decoder.header # NoHeader => SizeOk(decoder.header)

\* On a stream that does not time out, a packet whose length was refused is not
\* read a second time.
Passed ==
  errors > 0 /\ ~Timeouts =>
    LET from == sent[Len(got) + 1].at + FirstLen
    IN  /\ decoder.at >= from
        /\ decoder.header # NoHeader => decoder.at > from

Inv == /\ TypeOK /\ Layout /\ Causal /\ InStep /\ Returned /\ Tested
       /\ FailsOnlyOnSize /\ Passed

\* Inv holds initially.
LEMMA InitInv == Init => Inv
BY FramingAssumption, PadIncType
   DEF Init, Inv, TypeOK, Layout, Causal, InStep, Returned, FailsOnlyOnSize,
       Tested, Passed,
       StartAt, StartKs, NoHeader, Packets

-----------------------------------------------------------------------------
\* Facts about one packet.

\* Bytes take numbers of keystream.
LEMMA KeystreamType == ASSUME NEW k \in Nat PROVE Keystream(k) \in Nat
  BY DEF Keystream

\* Its length on the wire, and its length field when that has not wrapped.
LEMMA PacketFacts ==
  ASSUME TypeOK, Layout, NEW i \in 1 .. Len(sent)
  PROVE  /\ sent[i].payload.len \in Lengths /\ sent[i].payload.len \in Nat
         /\ sent[i].pad \in 4 .. 255
         /\ sent[i].at \in Nat /\ sent[i].ks \in Nat
         /\ sent[i].header \in 0 .. (WordMod - 1)
         /\ DataLen(sent[i]) \in Nat
         /\ DataLen(sent[i]) % PadInc = 0
         /\ DataLen(sent[i]) >= FirstLen
         /\ sent[i].payload.len + 256 < WordMod => DataLen(sent[i]) = 4 + sent[i].header
         /\ sent[i].payload.len <= SafeLen =>
              /\ SizeOk(sent[i].header)
              /\ DataLen(sent[i]) = 4 + sent[i].header
<1> DEFINE n == sent[i].payload.len
           pad == sent[i].pad
           h == sent[i].header
<1>1. /\ sent[i] \in Packets /\ pad \in PadLengths(n) /\ h = PacketLength(n, pad)
  BY DEF TypeOK, Layout
<1>2. n \in Lengths /\ n \in Nat /\ h \in 0 .. (WordMod - 1) /\ sent[i].at \in Nat /\ sent[i].ks \in Nat
  BY <1>1, FramingAssumption DEF Packets
<1>3. pad \in 4 .. 255 /\ (5 + n + pad) % PadInc = 0
  BY <1>1, <1>2, PaddingFits
<1>4. DataLen(sent[i]) = 5 + n + pad
  BY DEF DataLen
<1> HIDE DEF n, pad, h
<1>5. 5 + n + pad >= FirstLen
  BY <1>2, <1>3 DEF PadInc, FirstLen
<1>6. n + 256 < WordMod => h = 1 + n + pad
  <2>1. WordMod \in Nat /\ WordMod > 0
    BY FramingAssumption
  <2>2. ASSUME n + 256 < WordMod PROVE n % WordMod = n /\ (1 + n + pad) % WordMod = 1 + n + pad
    BY <1>2, <1>3, <2>1, <2>2
  <2>3. QED
    BY <2>2, <1>1 DEF PacketLength, h, n, pad
<1>7. ASSUME n <= SafeLen PROVE n + 256 < WordMod /\ 1 + n + pad <= MaxPacket
  BY <1>2, <1>3, <1>7, FramingAssumption DEF SafeLen
<1>8. ASSUME n <= SafeLen PROVE SizeOk(h) /\ 5 + n + pad = 4 + h
  BY <1>2, <1>3, <1>5, <1>6, <1>7, <1>8 DEF SizeOk
<1>9. DataLen(sent[i]) \in Nat /\ DataLen(sent[i]) % PadInc = 0 /\ DataLen(sent[i]) >= FirstLen
  BY <1>2, <1>3, <1>4, <1>5
<1>10. n + 256 < WordMod => DataLen(sent[i]) = 4 + h
  BY <1>2, <1>3, <1>4, <1>6
<1>11. n <= SafeLen => SizeOk(h) /\ DataLen(sent[i]) = 4 + h
  BY <1>4, <1>8
<1>12. QED
  BY <1>2, <1>3, <1>9, <1>10, <1>11 DEF n, pad, h

\* Only one packet begins at a place.
LEMMA OneBegins ==
  ASSUME TypeOK, Layout, NEW i \in 1 .. Len(sent), NEW j \in 1 .. Len(sent),
         NEW back \in Nat, Begins(i, back), Begins(j, back)
  PROVE  i = j
<1>1. sent[i].at = sent[j].at
  BY DEF Begins
<1>2. Len(sent) \in Nat /\ sent[i].at \in Nat /\ sent[j].at \in Nat
  BY PacketFacts DEF TypeOK
<1>3. i < j => sent[i].at < sent[j].at
  BY DEF Layout
<1>4. j < i => sent[j].at < sent[i].at
  BY DEF Layout
<1>5. QED
  BY <1>1, <1>2, <1>3, <1>4

-----------------------------------------------------------------------------
\* Every step keeps the invariant.

\* The widths and limits are numbers.
LEMMA WidthsType ==
  /\ PadInc \in {8, 16} /\ FirstLen \in {4, 16} /\ MacLen \in Nat
  /\ MaxPacket \in Nat /\ WordMod \in Nat /\ WordMod > MaxPacket
  /\ Lengths \subseteq Nat /\ Patience \in Nat
  BY FramingAssumption DEF PadInc, FirstLen

\* send_packet's build, followed by the write.
LEMMA SendKeepsInv ==
  ASSUME Inv, NEW n \in Lengths, NEW pad \in PadLengths(n), Send(n, pad)
  PROVE  Inv'
<1> DEFINE L == Len(sent)
           packet == [at |-> encoder.at, ks |-> encoder.ks, pad |-> pad,
                      header |-> PacketLength(n, pad),
                      payload |-> [id |-> L + 1, len |-> n]]
<1>1. n \in Nat /\ pad \in 4 .. 255
  BY PaddingFits, WidthsType
<1>2. /\ encoder.at \in Nat /\ encoder.ks \in Nat /\ L \in Nat /\ sent \in Seq(Packets)
      /\ arrived \in Nat /\ decoder.at \in Nat /\ Len(got) \in Nat
  BY DEF Inv, TypeOK
<1>3. packet \in Packets
  <2>1. PacketLength(n, pad) \in 0 .. (WordMod - 1)
    BY <1>1, WidthsType DEF PacketLength
  <2>2. L + 1 \in Nat /\ pad \in 0 .. 255
    BY <1>1, <1>2
  <2>3. QED
    BY <1>2, <2>1, <2>2 DEF Packets
<1>4. DataLen(packet) = 5 + n + pad /\ DataLen(packet) \in Nat /\ DataLen(packet) > 0
  BY <1>1 DEF DataLen
<1>5. Keystream(DataLen(packet)) \in Nat
  BY <1>4, KeystreamType
<1>6. /\ sent' = Append(sent, packet)
      /\ encoder' = [at |-> encoder.at + DataLen(packet) + MacLen,
                     ks |-> encoder.ks + Keystream(DataLen(packet))]
      /\ UNCHANGED <<arrived, decoder, got, errors>>
  BY DEF Send
<1> HIDE DEF packet
<1>7. /\ Len(sent') = L + 1 /\ sent'[L + 1] = packet
      /\ \A i \in 1 .. L : sent'[i] = sent[i]
  BY <1>2, <1>3, <1>6
<1>8. /\ packet.at = encoder.at /\ packet.ks = encoder.ks /\ packet.pad = pad
      /\ packet.header = PacketLength(n, pad)
      /\ packet.payload.id = L + 1 /\ packet.payload.len = n
  BY DEF packet
<1>9. encoder'.at \in Nat /\ encoder'.ks \in Nat /\ encoder'.at > encoder.at
  <2>1. /\ encoder'.at = encoder.at + DataLen(packet) + MacLen
        /\ encoder'.ks = encoder.ks + Keystream(DataLen(packet))
    BY <1>6
  <2>2. MacLen \in Nat
    BY WidthsType
  <2>3. QED
    BY <1>2, <1>4, <1>5, <2>1, <2>2
<1>10. TypeOK'
  <2>1. sent' \in Seq(Packets)
    BY <1>2, <1>3, <1>6
  <2>2. encoder' \in [at : Nat, ks : Nat]
    BY <1>6, <1>9
  <2>3. QED
    BY <1>6, <2>1, <2>2 DEF Inv, TypeOK
<1>11. \A j \in 1 .. (L + 1) : StartAt(j)' = StartAt(j) /\ StartKs(j)' = StartKs(j)
  BY <1>2, <1>7, <1>8 DEF StartAt, StartKs
<1>12. StartAt(L + 2)' = encoder'.at /\ StartKs(L + 2)' = encoder'.ks
  BY <1>2, <1>7 DEF StartAt, StartKs
<1>13. Layout'
  <2>1. StartAt(1)' = 0 /\ StartKs(1)' = 0
    BY <1>2, <1>11 DEF Inv, Layout
  <2>2. ASSUME NEW i \in 1 .. (L + 1)
        PROVE  /\ sent'[i].payload.id = i
               /\ sent'[i].pad \in PadLengths(sent'[i].payload.len)
               /\ sent'[i].header = PacketLength(sent'[i].payload.len, sent'[i].pad)
               /\ StartAt(i + 1)' = sent'[i].at + DataLen(sent'[i]) + MacLen
               /\ StartKs(i + 1)' = sent'[i].ks + Keystream(DataLen(sent'[i]))
               /\ sent'[i].at < encoder'.at
    <3>1. CASE i \in 1 .. L
      <4>1. i + 1 \in 1 .. (L + 1) /\ sent'[i] = sent[i]
        BY <1>2, <1>7, <3>1
      <4>2. StartAt(i + 1)' = StartAt(i + 1) /\ StartKs(i + 1)' = StartKs(i + 1)
        BY <1>11, <4>1
      <4>3. sent[i].at \in Nat
        BY <3>1, PacketFacts DEF Inv
      <4>4. sent[i].at < encoder.at
        BY <3>1 DEF Inv, Layout
      <4>5. sent[i].at < encoder'.at
        BY <1>2, <1>9, <4>3, <4>4
      <4>6. QED
        BY <3>1, <4>1, <4>2, <4>5 DEF Inv, Layout
    <3>2. CASE i = L + 1
      <4>1. i + 1 = L + 2 /\ sent'[i] = packet
        BY <1>2, <1>7, <3>2
      <4>2. /\ encoder'.at = encoder.at + DataLen(packet) + MacLen
            /\ encoder'.ks = encoder.ks + Keystream(DataLen(packet))
        BY <1>6
      <4>3. /\ StartAt(i + 1)' = packet.at + DataLen(packet) + MacLen
            /\ StartKs(i + 1)' = packet.ks + Keystream(DataLen(packet))
        BY <1>2, <1>7, <1>8, <4>1, <4>2 DEF StartAt, StartKs
      <4>4. /\ packet.payload.id = i /\ packet.pad \in PadLengths(packet.payload.len)
            /\ packet.header = PacketLength(packet.payload.len, packet.pad)
            /\ packet.at < encoder'.at
        BY <1>8, <1>9, <3>2
      <4>5. QED
        BY <4>1, <4>3, <4>4
    <3>3. i \in 1 .. L \/ i = L + 1
      BY <1>2
    <3>4. QED
      BY <3>1, <3>2, <3>3
  <2>3. ASSUME NEW i \in 1 .. (L + 1), NEW j \in 1 .. (L + 1), i < j
        PROVE  sent'[i].at < sent'[j].at
    <3>1. i \in 1 .. L /\ sent'[i] = sent[i]
      BY <1>2, <1>7, <2>3
    <3>2. CASE j = L + 1
      BY <1>7, <1>8, <3>1, <3>2 DEF Inv, Layout
    <3>3. CASE j \in 1 .. L
      BY <1>7, <2>3, <3>1, <3>3 DEF Inv, Layout
    <3>4. QED
      BY <1>2, <3>2, <3>3
  <2>4. QED
    BY <1>7, <2>1, <2>2, <2>3 DEF Layout
<1>14. Causal'
  BY <1>2, <1>6, <1>9 DEF Inv, Causal
<1>15. Len(got) + 1 <= L => sent'[Len(got) + 1] = sent[Len(got) + 1]
  BY <1>2, <1>7
<1>16. InStep'
  <2> SUFFICES ASSUME errors' = 0 PROVE InStep'
    BY DEF InStep
  <2> DEFINE k == Len(got) + 1
  <2>1. errors = 0 /\ got' = got /\ decoder' = decoder
    BY <1>6
  <2>2. k \in 1 .. (L + 1)
    BY <1>2, <2>1 DEF Inv, InStep
  <2>3. StartAt(k)' = StartAt(k) /\ StartKs(k)' = StartKs(k)
    BY <1>2, <1>7, <1>8, <2>1, <2>2 DEF StartAt, StartKs
  <2>4. decoder.header # NoHeader =>
          /\ k \in 1 .. L /\ Begins(k, FirstLen)
          /\ decoder.header = sent[k].header /\ SizeOk(decoder.header)
    BY <1>2, <2>1, <2>2 DEF Inv, InStep
  <2>5. decoder.header # NoHeader =>
          /\ k \in 1 .. L /\ Begins(k, FirstLen)'
          /\ decoder.header = sent'[k].header /\ SizeOk(decoder.header)
    BY <1>15, <2>1, <2>4 DEF Begins
  <2>6. decoder.header = NoHeader => decoder.at = StartAt(k)' /\ decoder.ks = StartKs(k)'
    BY <2>1, <2>3 DEF Inv, InStep
  <2>7. QED
    BY <1>2, <1>7, <2>1, <2>2, <2>5, <2>6 DEF InStep
<1>17. Returned' /\ Tested'
  BY <1>2, <1>6, <1>7 DEF Inv, Returned, Tested
<1>18. FailsOnlyOnSize' /\ Passed'
  BY <1>2, <1>6, <1>7, <1>15 DEF Inv, FailsOnlyOnSize, Passed
<1>19. QED
  BY <1>10, <1>13, <1>14, <1>16, <1>17, <1>18 DEF Inv

\* The stream gives more of what was written.
LEMMA ArriveKeepsInv ==
  ASSUME Inv, Arrive
  PROVE  Inv'
<1>1. PICK to \in {encoder.at} \cup {sent[i].at + c : i \in DOMAIN sent, c \in Cuts} :
        arrived < to /\ to <= encoder.at /\ arrived' = to
  BY DEF Arrive
<1>2. UNCHANGED <<encoder, sent, decoder, got, errors>>
  BY DEF Arrive
<1>3. to \in Nat
  <2>1. CASE to = encoder.at
    BY <2>1 DEF Inv, TypeOK
  <2>2. ASSUME NEW i \in DOMAIN sent, NEW c \in Cuts PROVE sent[i].at + c \in Nat
    <3>1. sent[i].at \in Nat /\ c \in Nat
      BY FramingAssumption, PacketFacts DEF Inv, TypeOK
    <3>2. QED
      BY <3>1
  <2>3. QED
    BY <1>1, <2>1, <2>2
<1>4. TypeOK'
  BY <1>1, <1>2, <1>3 DEF Inv, TypeOK
<1>5. Causal'
  BY <1>1, <1>2, <1>3 DEF Inv, TypeOK, Causal
<1>6. UNCHANGED <<Layout, InStep, Returned, Tested, FailsOnlyOnSize, Passed>>
  BY <1>2 DEF Layout, InStep, Returned, Tested, FailsOnlyOnSize, Passed, StartAt, StartKs,
       Begins, SizeOk
<1>7. QED
  BY <1>4, <1>5, <1>6 DEF Inv

\* A read that times out.
LEMMA TimeoutKeepsInv ==
  ASSUME Inv, Timeout
  PROVE  Inv'
<1>1. /\ Timeouts /\ UNCHANGED <<encoder, sent, arrived, got>>
      /\ decoder' = [decoder EXCEPT !.at = arrived, !.header = NoHeader]
      /\ errors' = errors + 1 /\ errors' \in Nat /\ errors' > 0
  BY DEF Timeout, Inv, TypeOK
<1>2. /\ decoder' \in [at : Nat, ks : Nat, header : 0 .. MaxPacket]
      /\ decoder'.at = arrived /\ decoder'.header = NoHeader
  <2>1. arrived \in Nat /\ decoder.ks \in Nat /\ NoHeader \in 0 .. MaxPacket
    BY WidthsType DEF Inv, TypeOK, NoHeader
  <2>2. decoder' = [at |-> arrived, ks |-> decoder.ks, header |-> NoHeader]
    BY <1>1 DEF Inv, TypeOK
  <2>3. QED
    BY <2>1, <2>2
<1>3. TypeOK'
  BY <1>1, <1>2 DEF Inv, TypeOK
<1>4. Layout' /\ Returned'
  BY <1>1 DEF Inv, Layout, Returned, StartAt, StartKs
<1>5. Causal'
  BY <1>1, <1>2, <1>3 DEF Inv, Causal, TypeOK
<1>6. InStep' /\ Tested' /\ FailsOnlyOnSize' /\ Passed'
  BY <1>1, <1>2 DEF InStep, Tested, FailsOnlyOnSize, Passed
<1>7. QED
  BY <1>3, <1>4, <1>5, <1>6 DEF Inv

\* In step and between packets: what is read is the length of packet k.
LEMMA NextHeader ==
  ASSUME Inv, errors = 0, decoder.header = NoHeader, Readable
  PROVE  /\ Len(got) + 1 \in 1 .. Len(sent)
         /\ Begins(Len(got) + 1, 0)
         /\ Headers = {sent[Len(got) + 1].header}
<1> DEFINE k == Len(got) + 1
<1>1. Len(got) \in Nat /\ Len(sent) \in Nat /\ encoder.at \in Nat /\ arrived \in Nat
  BY DEF Inv, TypeOK
<1>2. decoder.at \in Nat /\ decoder.ks \in Nat
  BY DEF Inv, TypeOK
<1>3. k <= Len(sent) + 1 /\ decoder.at = StartAt(k) /\ decoder.ks = StartKs(k)
  BY DEF Inv, InStep
<1>4. decoder.at + FirstLen <= arrived /\ arrived <= encoder.at
  BY DEF Inv, Readable, Wanted, Causal
<1>5. k # Len(sent) + 1
  BY <1>1, <1>2, <1>3, <1>4, WidthsType DEF StartAt
<1>6. k \in 1 .. Len(sent)
  BY <1>1, <1>3, <1>5
<1>7. Keystream(0) = 0
  BY DEF Keystream
<1>8. Begins(k, 0)
  <2>1. sent[k].at = decoder.at /\ sent[k].ks = decoder.ks
    BY <1>1, <1>3, <1>6 DEF StartAt, StartKs
  <2>2. QED
    BY <1>2, <1>7, <2>1 DEF Begins
<1>9. DOMAIN sent = 1 .. Len(sent)
  BY DEF Inv, TypeOK
<1>10. {i \in DOMAIN sent : Begins(i, 0)} = {k}
  <2>1. ASSUME NEW i \in 1 .. Len(sent), Begins(i, 0) PROVE i = k
    <3>1. TypeOK /\ Layout /\ 0 \in Nat
      BY DEF Inv
    <3> HIDE DEF k
    <3>2. QED
      BY <1>6, <1>8, <2>1, <3>1, OneBegins
  <2>2. QED
    BY <1>6, <1>8, <1>9, <2>1
<1>11. Headers = {sent[k].header}
  BY <1>10 DEF Headers
<1>12. QED
  BY <1>6, <1>8, <1>11

\* decode_from reads and tests a length.
LEMMA DecodeFirstKeepsInv ==
  ASSUME Inv, DecodeFirst
  PROVE  Inv'
<1> DEFINE k == Len(got) + 1
<1>1. PICK h \in Headers :
        /\ decoder' = [at |-> decoder.at + FirstLen,
                       ks |-> decoder.ks + Keystream(FirstLen),
                       header |-> IF SizeOk(h) THEN h ELSE NoHeader]
        /\ errors' = IF SizeOk(h) THEN errors ELSE errors + 1
  BY DEF DecodeFirst
<1>2. /\ UNCHANGED <<encoder, sent, arrived, got>>
      /\ Running /\ decoder.header = NoHeader /\ Readable
  BY DEF DecodeFirst
<1>3. /\ decoder.at \in Nat /\ decoder.ks \in Nat /\ errors \in Nat
      /\ Len(got) \in Nat /\ Len(sent) \in Nat /\ arrived \in Nat
      /\ Keystream(FirstLen) \in Nat
  <2>1. Keystream(FirstLen) \in Nat
    BY KeystreamType, WidthsType
  <2>2. QED
    BY <2>1 DEF Inv, TypeOK
<1>4. h \in 0 .. (WordMod - 1)
  <2>1. Noise \subseteq 0 .. (WordMod - 1)
    BY FramingAssumption
  <2>2. DOMAIN sent = 1 .. Len(sent) /\ TypeOK /\ Layout
    BY DEF Inv, TypeOK
  <2>3. \A i \in 1 .. Len(sent) : sent[i].header \in 0 .. (WordMod - 1)
    BY <2>2, PacketFacts
  <2>4. QED
    BY <2>1, <2>2, <2>3 DEF Headers
<1>5. /\ decoder'.at = decoder.at + FirstLen
      /\ decoder'.ks = decoder.ks + Keystream(FirstLen)
      /\ decoder'.header = IF SizeOk(h) THEN h ELSE NoHeader
  BY <1>1
<1>6. SizeOk(h) => h \in 0 .. MaxPacket /\ h # NoHeader
  BY <1>4, WidthsType DEF SizeOk, NoHeader
<1>7. TypeOK'
  <2>1. decoder'.at \in Nat /\ decoder'.ks \in Nat /\ errors' \in Nat
    BY <1>1, <1>3, <1>5, WidthsType
  <2>2. decoder'.header \in 0 .. MaxPacket
    BY <1>5, <1>6, WidthsType DEF NoHeader
  <2>3. decoder' \in [at : Nat, ks : Nat, header : 0 .. MaxPacket]
    BY <1>1, <1>5, <2>1, <2>2
  <2>4. QED
    BY <1>2, <2>1, <2>3 DEF Inv, TypeOK
<1>8. Layout' /\ Returned'
  BY <1>2 DEF Inv, Layout, Returned, StartAt, StartKs
<1>9. Causal'
  BY <1>2, <1>5 DEF Inv, Causal, Readable, Wanted
<1>10. Tested'
  BY <1>5 DEF Tested, SizeOk
<1>11. ASSUME errors = 0
       PROVE  k \in 1 .. Len(sent) /\ Begins(k, 0) /\ h = sent[k].header
  BY <1>2, <1>11, NextHeader
<1>12. InStep'
  <2> SUFFICES ASSUME errors' = 0 PROVE InStep'
    BY DEF InStep
  <2>1. errors = 0 /\ SizeOk(h)
    BY <1>1, <1>3
  <2>2. k \in 1 .. Len(sent) /\ Begins(k, 0) /\ h = sent[k].header
    BY <1>11, <2>1
  <2>3. decoder'.header = h /\ h # NoHeader /\ SizeOk(decoder'.header)
    BY <1>5, <1>6, <2>1
  <2>4. sent[k].at = decoder.at /\ sent[k].ks = decoder.ks
    BY <1>3, <2>2 DEF Begins, Keystream
  <2>5. sent'[k].at = decoder'.at - FirstLen /\ sent'[k].ks = decoder'.ks - Keystream(FirstLen)
    BY <1>2, <1>3, <1>5, <2>4, WidthsType
  <2>6. QED
    BY <1>2, <1>3, <2>2, <2>3, <2>5 DEF InStep, Begins, SizeOk
<1>13. FailsOnlyOnSize'
  <2> SUFFICES ASSUME errors' > 0, ~Timeouts
               PROVE  k <= Len(sent) /\ sent[k].payload.len > SafeLen
    BY <1>2 DEF FailsOnlyOnSize
  <2>1. CASE errors > 0
    BY <1>3, <2>1 DEF Inv, FailsOnlyOnSize
  <2>2. CASE errors = 0
    <3>1. ~SizeOk(h)
      BY <1>1, <2>2
    <3>2. k \in 1 .. Len(sent) /\ h = sent[k].header
      BY <1>11, <2>2
    <3>3. ~(sent[k].payload.len <= SafeLen) /\ sent[k].payload.len \in Nat
      BY <3>1, <3>2, PacketFacts DEF Inv
    <3>4. QED
      BY <1>3, <3>2, <3>3, WidthsType DEF SafeLen
  <2>3. QED
    BY <1>3, <2>1, <2>2
<1>14. Passed'
  <2> SUFFICES ASSUME errors' > 0, ~Timeouts
               PROVE  /\ decoder'.at >= sent[k].at + FirstLen
                      /\ decoder'.header # NoHeader => decoder'.at > sent[k].at + FirstLen
    BY <1>2 DEF Passed
  <2>1. CASE errors > 0
    <3>1. decoder.at >= sent[k].at + FirstLen
      BY <2>1 DEF Inv, Passed
    <3>2. k \in 1 .. Len(sent)
      BY <1>3, <2>1 DEF Inv, FailsOnlyOnSize
    <3>3. sent[k].at \in Nat
      BY <3>2, PacketFacts DEF Inv
    <3>4. decoder'.at = decoder.at + FirstLen
      BY <1>5
    <3>5. decoder'.at > sent[k].at + FirstLen
      BY <1>3, <3>1, <3>3, <3>4, WidthsType
    <3>6. QED
      BY <1>3, <3>3, <3>4, <3>5, WidthsType
  <2>2. CASE errors = 0
    <3>1. k \in 1 .. Len(sent) /\ Begins(k, 0)
      BY <1>11, <2>2
    <3>2. sent[k].at = decoder.at
      BY <1>3, <3>1 DEF Begins
    <3>3. decoder'.header = NoHeader
      BY <1>1, <1>5, <2>2
    <3>4. QED
      BY <1>3, <1>5, <3>2, <3>3, WidthsType
  <2>3. QED
    BY <1>3, <2>1, <2>2
<1>15. QED
  BY <1>7, <1>8, <1>9, <1>10, <1>12, <1>13, <1>14 DEF Inv

\* The lengths of a packet's parts, from its length field h and back.
LEMMA PayloadFromLength ==
  ASSUME NEW n \in Nat, NEW h \in Nat, NEW pad \in 4 .. 255, 5 + n + pad = 4 + h
  PROVE  n = h - pad - 1 /\ h - pad - 1 >= 0
  OBVIOUS

\* What is left to be read of a packet whose first bytes were read.
LEMMA RestFromLength ==
  ASSUME NEW h \in Nat, NEW f \in Nat, NEW m \in Nat, f <= 4 + h
  PROVE  /\ 4 + h - f + m \in Nat /\ 4 + h - f \in Nat
         /\ 4 + h - f + m - m = 4 + h - f
  OBVIOUS

\* First bytes, rest and mac are one packet.
LEMMA NextStart ==
  ASSUME NEW s \in Nat, NEW h \in Nat, NEW f \in Nat, NEW m \in Nat
  PROVE  (s + f) + (4 + h - f + m) = s + (4 + h) + m
  OBVIOUS

\* The packet whose mac verifies is the one that is next, and what get_payload
\* cuts out of it is the payload that was sent.
LEMMA VerifiedIsNext ==
  ASSUME Inv, Running, decoder.header # NoHeader, NEW i \in DOMAIN sent, Authentic(i)
  PROVE  /\ i = Len(got) + 1 /\ i \in 1 .. Len(sent)
         /\ DataLen(sent[i]) = 4 + decoder.header
         /\ sent[i].payload = [id |-> i, len |-> PayloadLen(decoder.header, sent[i].pad)]
<1> DEFINE k == Len(got) + 1
           h == decoder.header
<1>1. i \in 1 .. Len(sent) /\ h \in Nat /\ Len(got) \in Nat /\ Len(sent) \in Nat
  BY DEF Inv, TypeOK
<1>2. /\ sent[i].payload.len \in Nat /\ sent[i].pad \in 4 .. 255
      /\ sent[i].payload.len \in Lengths
      /\ sent[i].payload.len + 256 < WordMod => DataLen(sent[i]) = 4 + sent[i].header
  BY <1>1, PacketFacts DEF Inv
<1>4. i = k /\ DataLen(sent[i]) = 4 + h
  <2>1. CASE Kind = "Traditional"
    BY <2>1 DEF Authentic
  <2>2. CASE Kind = "Naked"
    <3>1. errors = 0
      BY <2>2, FramingAssumption DEF Running, Inv, TypeOK
    <3>2. k <= Len(sent) /\ Begins(k, FirstLen) /\ h = sent[k].header
      BY <3>1 DEF Inv, InStep
    <3>3. Begins(i, FirstLen)
      BY DEF Authentic
    <3>4. i = k
      <4>1. k \in 1 .. Len(sent) /\ FirstLen \in Nat /\ TypeOK /\ Layout
        BY <1>1, <3>2, WidthsType DEF Inv
      <4> HIDE DEF k
      <4>2. QED
        BY <1>1, <3>2, <3>3, <4>1, OneBegins
    <3>5. sent[i].payload.len + 256 < WordMod
      BY <1>2, <2>2, FramingAssumption
    <3>6. QED
      BY <1>2, <3>2, <3>4, <3>5
  <2>3. QED
    BY <2>1, <2>2, FramingAssumption
<1>5. sent[i].payload.len = PayloadLen(h, sent[i].pad)
  <2>1. DataLen(sent[i]) = 5 + sent[i].payload.len + sent[i].pad
    BY DEF DataLen
  <2>2. 5 + sent[i].payload.len + sent[i].pad = 4 + h
    BY <1>4, <2>1
  <2>3. h \in Nat /\ sent[i].payload.len \in Nat /\ sent[i].pad \in 4 .. 255
    BY <1>1, <1>2
  <2>4. sent[i].payload.len = h - sent[i].pad - 1
    <3> HIDE DEF h
    <3>1. QED
      BY <2>2, <2>3, PayloadFromLength
  <2>5. QED
    BY <2>4 DEF PayloadLen
<1>6. sent[i].payload = [id |-> i, len |-> sent[i].payload.len]
  <2>1. sent[i].payload \in [id : Nat, len : Lengths] /\ sent[i].payload.id = i
    <3>1. sent[i] \in Packets
      BY <1>1 DEF Inv, TypeOK
    <3>2. QED
      BY <1>1, <3>1 DEF Packets, Inv, Layout
  <2>2. QED
    BY <2>1
<1>7. QED
  BY <1>1, <1>4, <1>5, <1>6

\* The first length that is not followed by a valid packet is that of one too
\* large.
LEMMA RefusedIsLarge ==
  ASSUME Inv, errors = 0, decoder.header # NoHeader,
         \A i \in DOMAIN sent :
           ~(Authentic(i) /\ PayloadOk(4 + decoder.header, decoder.header, sent[i].pad))
  PROVE  sent[Len(got) + 1].payload.len > SafeLen
<1> DEFINE k == Len(got) + 1
           h == decoder.header
<1>1. k \in 1 .. Len(sent) /\ Begins(k, FirstLen) /\ h = sent[k].header
  BY DEF Inv, InStep, TypeOK
<1>2. k \in DOMAIN sent /\ TypeOK /\ Layout
  BY <1>1 DEF Inv, TypeOK
<1> HIDE DEF k
<1>3. /\ sent[k].payload.len \in Nat /\ sent[k].pad \in 4 .. 255
      /\ sent[k].payload.len <= SafeLen => DataLen(sent[k]) = 4 + sent[k].header
  BY <1>1, <1>2, PacketFacts
<1>4. ASSUME sent[k].payload.len <= SafeLen PROVE FALSE
  <2>1. DataLen(sent[k]) = 4 + h
    BY <1>1, <1>3, <1>4
  <2>2. Authentic(k)
    BY <1>1, <2>1 DEF Authentic, k
  <2>3. 4 + h = 5 + sent[k].payload.len + sent[k].pad
    BY <2>1 DEF DataLen
  <2>4. h \in Nat
    BY <1>2 DEF TypeOK
  <2>5. PayloadOk(4 + h, h, sent[k].pad)
    <3>1. sent[k].payload.len = h - sent[k].pad - 1 /\ h - sent[k].pad - 1 >= 0
      BY <1>3, <2>3, <2>4, PayloadFromLength
    <3>2. 4 + h = 5 + (h - sent[k].pad - 1) + sent[k].pad
      BY <2>3, <3>1
    <3>3. QED
      BY <1>3, <3>1, <3>2 DEF PayloadOk, PayloadLen
  <2>6. QED
    BY <1>2, <2>2, <2>5
<1>5. SafeLen \in Int
  BY WidthsType DEF SafeLen
<1>6. QED
  BY <1>3, <1>4, <1>5 DEF k

\* What decode_from does with the rest of a packet, in terms of the next packet.
LEMMA DecodeRestCases ==
  ASSUME Inv, DecodeRest
  PROVE  LET k == Len(got) + 1
         IN  \/ /\ k \in 1 .. Len(sent) /\ Authentic(k)
                /\ DataLen(sent[k]) = 4 + decoder.header
                /\ got' = Append(got, sent[k].payload) /\ errors' = errors
             \/ /\ got' = got /\ errors' = errors + 1
                /\ errors = 0 => sent[k].payload.len > SafeLen
<1> DEFINE k == Len(got) + 1
           h == decoder.header
           ok == {i \in DOMAIN sent : Authentic(i) /\ PayloadOk(4 + h, h, sent[i].pad)}
           one == CHOOSE i \in ok : TRUE
<1>1. /\ Running /\ h # NoHeader
      /\ got' = IF ok = {} THEN got
                ELSE Append(got, [id |-> one, len |-> PayloadLen(h, sent[one].pad)])
      /\ errors' = IF ok = {} THEN errors + 1 ELSE errors
  BY DEF DecodeRest
<1>2. CASE ok = {}
  <2>1. errors = 0 => sent[k].payload.len > SafeLen
    BY <1>1, <1>2, RefusedIsLarge
  <2>2. QED
    BY <1>1, <1>2, <2>1
<1>3. CASE ok # {}
  <2>1. one \in ok
    BY <1>3
  <2>2. one \in DOMAIN sent /\ Authentic(one)
    BY <2>1
  <2> HIDE DEF one
  <2>3. /\ one = k /\ one \in 1 .. Len(sent) /\ DataLen(sent[one]) = 4 + h
        /\ sent[one].payload = [id |-> one, len |-> PayloadLen(h, sent[one].pad)]
    BY <1>1, <2>2, VerifiedIsNext
  <2>4. got' = Append(got, sent[one].payload) /\ errors' = errors
    BY <1>1, <1>3, <2>3
  <2>5. QED
    BY <2>2, <2>3, <2>4
<1>4. QED
  BY <1>2, <1>3

\* decode_from reads the rest of a packet.
LEMMA DecodeRestKeepsInv ==
  ASSUME Inv, DecodeRest
  PROVE  Inv'
<1> DEFINE k == Len(got) + 1
           h == decoder.header
<1>1. /\ UNCHANGED <<encoder, sent, arrived>>
      /\ Running /\ h # NoHeader /\ Readable
      /\ decoder' = [at |-> decoder.at + Wanted,
                     ks |-> decoder.ks + Keystream(Wanted - MacLen),
                     header |-> NoHeader]
  BY DEF DecodeRest
<1>2. /\ decoder.at \in Nat /\ decoder.ks \in Nat /\ h \in 0 .. MaxPacket /\ errors \in Nat
      /\ Len(got) \in Nat /\ Len(sent) \in Nat /\ arrived \in Nat
      /\ got \in Seq([id : Nat, len : Nat])
  BY DEF Inv, TypeOK
<1>3. FirstLen <= 4 + h
  BY <1>1 DEF Inv, Tested, SizeOk
<1>4. Wanted = 4 + h - FirstLen + MacLen
  BY <1>1 DEF Wanted
<1>5. /\ Wanted \in Nat /\ Wanted - MacLen \in Nat /\ Keystream(Wanted - MacLen) \in Nat
      /\ Wanted - MacLen = 4 + h - FirstLen
  <2>1. h \in Nat /\ FirstLen \in Nat /\ MacLen \in Nat
    BY <1>2, WidthsType
  <2>2. Wanted \in Nat /\ Wanted - MacLen \in Nat /\ Wanted - MacLen = 4 + h - FirstLen
    BY <1>3, <1>4, <2>1, RestFromLength
  <2>3. QED
    BY <2>2, KeystreamType
<1>6. /\ decoder'.at = decoder.at + Wanted /\ decoder'.header = NoHeader
      /\ decoder'.ks = decoder.ks + Keystream(Wanted - MacLen)
  BY <1>1
<1>7. decoder' \in [at : Nat, ks : Nat, header : 0 .. MaxPacket]
  <2>1. decoder'.at \in Nat /\ decoder'.ks \in Nat /\ decoder'.header \in 0 .. MaxPacket
    BY <1>2, <1>5, <1>6, WidthsType DEF NoHeader
  <2>2. QED
    BY <1>1, <2>1
<1>8. Layout'
  BY <1>1 DEF Inv, Layout, StartAt, StartKs
<1>9. Causal'
  BY <1>1, <1>6 DEF Inv, Causal, Readable
<1>10. Tested'
  BY <1>6 DEF Tested
<1>11. CASE /\ k \in 1 .. Len(sent) /\ Authentic(k) /\ DataLen(sent[k]) = 4 + h
            /\ got' = Append(got, sent[k].payload) /\ errors' = errors
  <2>1. sent[k].payload \in [id : Nat, len : Nat]
    <3>1. sent[k] \in Packets
      BY <1>11 DEF Inv, TypeOK
    <3>2. QED
      BY <3>1, WidthsType DEF Packets
  <2>2. got' \in Seq([id : Nat, len : Nat]) /\ Len(got') = k
    BY <1>2, <1>11, <2>1
  <2>3. TypeOK'
    BY <1>1, <1>7, <1>11, <2>2 DEF Inv, TypeOK
  <2>4. Returned'
    <3>1. \A i \in 1 .. k : got'[i] = IF i = k THEN sent[k].payload ELSE got[i]
      BY <1>2, <1>11, <2>1
    <3>2. \A i \in 1 .. k : got'[i] = sent[i].payload
      BY <1>2, <3>1 DEF Inv, Returned
    <3>3. QED
      BY <1>1, <1>11, <2>2, <3>2 DEF Returned
  <2>5. sent[k].at = decoder.at - FirstLen /\ sent[k].ks = decoder.ks - Keystream(FirstLen)
    BY <1>11 DEF Authentic, Begins
  <2>6. /\ StartAt(k + 1) = sent[k].at + DataLen(sent[k]) + MacLen
        /\ StartKs(k + 1) = sent[k].ks + Keystream(DataLen(sent[k]))
    BY <1>11 DEF Inv, Layout
  <2>7. decoder'.at = StartAt(k + 1)
    <3>1. sent[k].at \in Nat
      BY <1>11, PacketFacts DEF Inv
    <3>2. decoder.at = sent[k].at + FirstLen
      BY <1>2, <2>5, <3>1, WidthsType
    <3>3. decoder.at + (4 + h - FirstLen + MacLen) = sent[k].at + (4 + h) + MacLen
      <4>1. h \in Nat /\ FirstLen \in Nat /\ MacLen \in Nat
        BY <1>2, WidthsType
      <4> DEFINE s == sent[k].at
      <4>2. s \in Nat
        BY <3>1
      <4> HIDE DEF h, s
      <4>3. \A f, m \in Nat : (s + f) + (4 + h - f + m) = s + (4 + h) + m
        BY <4>1, <4>2, SMT
      <4>4. (s + FirstLen) + (4 + h - FirstLen + MacLen) = s + (4 + h) + MacLen
        BY <4>1, <4>3, Zenon
      <4>5. QED
        BY <3>2, <4>4, Zenon DEF s
    <3>4. QED
      BY <1>4, <1>6, <1>11, <2>6, <3>3
  <2>8. decoder'.ks = StartKs(k + 1)
    <3>1. sent[k].ks \in Nat
      BY <1>11, PacketFacts DEF Inv
    <3>2. Keystream(DataLen(sent[k])) = Keystream(FirstLen) + Keystream(4 + h - FirstLen)
      BY <1>2, <1>11, WidthsType DEF Keystream
    <3>3. /\ Keystream(FirstLen) \in Nat /\ Keystream(4 + h - FirstLen) \in Nat
          /\ Keystream(Wanted - MacLen) = Keystream(4 + h - FirstLen)
      <4>1. Keystream(FirstLen) \in Nat
        BY KeystreamType, WidthsType
      <4>2. QED
        BY <1>4, <1>5, <4>1
    <3>4. QED
      BY <1>2, <1>6, <2>5, <2>6, <3>1, <3>2, <3>3
  <2>9. InStep'
    <3>2. Len(got') + 1 <= Len(sent') + 1
      BY <1>1, <1>2, <1>11, <2>2
    <3>3. QED
      BY <1>1, <1>6, <2>2, <2>7, <2>8, <3>2 DEF InStep, StartAt, StartKs
  <2>10. FailsOnlyOnSize' /\ Passed'
    <3>1. ASSUME errors > 0, ~Timeouts PROVE FALSE
      <4>1. decoder.at > sent[k].at + FirstLen
        BY <1>1, <3>1 DEF Inv, Passed
      <4>2. sent[k].at \in Nat
        BY <1>11, PacketFacts DEF Inv
      <4>3. QED
        BY <1>2, <2>5, <4>1, <4>2, WidthsType
    <3>2. QED
      BY <1>11, <3>1 DEF FailsOnlyOnSize, Passed
  <2>11. QED
    BY <1>8, <1>9, <1>10, <2>3, <2>4, <2>9, <2>10 DEF Inv
<1>12. CASE /\ got' = got /\ errors' = errors + 1
            /\ errors = 0 => sent[k].payload.len > SafeLen
  <2>1. errors' \in Nat /\ errors' > 0
    BY <1>2, <1>12
  <2>2. TypeOK' /\ Returned' /\ InStep'
    BY <1>1, <1>7, <1>12, <2>1 DEF Inv, TypeOK, Returned, InStep
  <2>3. ASSUME errors = 0
        PROVE  k \in 1 .. Len(sent) /\ sent[k].at = decoder.at - FirstLen
    BY <1>1, <1>2, <2>3 DEF Inv, InStep, Begins
  <2>4. FailsOnlyOnSize'
    BY <1>1, <1>2, <1>12, <2>3 DEF Inv, FailsOnlyOnSize
  <2>5. Passed'
    <3> SUFFICES ASSUME ~Timeouts PROVE decoder'.at >= sent[k].at + FirstLen
      BY <1>1, <1>6, <1>12 DEF Passed
    <3>1. k \in 1 .. Len(sent)
      BY <1>2, <2>3 DEF Inv, FailsOnlyOnSize
    <3>2. sent[k].at \in Nat
      BY <3>1, PacketFacts DEF Inv
    <3>3. decoder.at >= sent[k].at + FirstLen
      <4>1. CASE errors = 0
        BY <1>2, <2>3, <3>2, <4>1, WidthsType
      <4>2. CASE errors > 0
        BY <4>2 DEF Inv, Passed
      <4>3. QED
        BY <1>2, <4>1, <4>2
    <3>4. decoder'.at >= decoder.at
      BY <1>2, <1>5, <1>6
    <3>5. decoder'.at \in Nat
      BY <1>7
    <3>6. QED
      BY <1>2, <3>2, <3>3, <3>4, <3>5, WidthsType
  <2>6. QED
    BY <1>8, <1>9, <1>10, <2>2, <2>4, <2>5 DEF Inv
<1>13. QED
  BY <1>11, <1>12, DecodeRestCases

\* A stuttering step keeps Inv.
LEMMA StutterKeepsInv == ASSUME Inv, UNCHANGED vars PROVE Inv'
  BY DEF vars, Inv, TypeOK, Layout, Causal, InStep, Returned, Tested, FailsOnlyOnSize, Passed,
         StartAt, StartKs, Begins

-----------------------------------------------------------------------------
\* The inductive invariant holds in every state.
LEMMA InvHolds == Spec => []Inv
<1>1. Inv /\ [Next]_vars => Inv'
  <2> SUFFICES ASSUME Inv, [Next]_vars PROVE Inv'
    OBVIOUS
  <2>1. CASE \E n \in Lengths : \E pad \in PadLengths(n) : Send(n, pad)
    BY <2>1, SendKeepsInv
  <2>2. CASE Arrive
    BY <2>2, ArriveKeepsInv
  <2>3. CASE DecodeFirst
    BY <2>3, DecodeFirstKeepsInv
  <2>4. CASE DecodeRest
    BY <2>4, DecodeRestKeepsInv
  <2>5. CASE Timeout
    BY <2>5, TimeoutKeepsInv
  <2>6. CASE UNCHANGED vars
    BY <2>6, StutterKeepsInv
  <2>7. QED
    BY <2>1, <2>2, <2>3, <2>4, <2>5, <2>6 DEF Next
<1>2. QED
  BY InitInv, <1>1, PTL DEF Spec

\* The variables keep their types; in particular a length decode_from accepts is
\* at most MaxPacket, however many bytes of noise it reads.
THEOREM TypeCorrect == Spec => []TypeOK
<1>1. Inv => TypeOK
  BY DEF Inv
<1>2. QED
  BY InvHolds, <1>1, PTL

\* Every packet build makes can be enciphered and taken apart again.
THEOREM BlocksAreWholeHolds == Spec => []BlocksAreWhole
<1>1. ASSUME Inv PROVE BlocksAreWhole
  <2>1. DOMAIN sent = 1 .. Len(sent) /\ TypeOK /\ Layout
    BY <1>1 DEF Inv, TypeOK
  <2>2. ASSUME NEW i \in 1 .. Len(sent)
        PROVE  /\ sent[i].pad >= 4 /\ DataLen(sent[i]) % PadInc = 0
               /\ DataLen(sent[i]) >= FirstLen
    <3>1. sent[i].pad \in 4 .. 255
      BY <2>1, PacketFacts
    <3>2. sent[i].pad >= 4
      <4>1. \A pad \in 4 .. 255 : pad >= 4
        OBVIOUS
      <4>2. QED
        BY <3>1, <4>1, Zenon
    <3>3. DataLen(sent[i]) % PadInc = 0 /\ DataLen(sent[i]) >= FirstLen
      BY <2>1, PacketFacts
    <3>4. QED
      BY <3>2, <3>3
  <2>3. QED
    BY <2>1, <2>2 DEF BlocksAreWhole
<1>2. QED
  BY InvHolds, <1>1, PTL

\* decode_from refuses nothing but packets too large for any padding, and what
\* follows them.
THEOREM FailsOnlyOnSizeHolds == Spec => []FailsOnlyOnSize
<1>1. Inv => FailsOnlyOnSize
  BY DEF Inv
<1>2. QED
  BY InvHolds, <1>1, PTL

-----------------------------------------------------------------------------
\* The payloads sent, as the queue's `in'.
Payloads == [i \in DOMAIN sent |-> sent[i].payload]

\* The initial states are the empty queue.
LEMMA InitIsEmptyQueue == Init => Queue!Init
  <1> SUFFICES ASSUME Init PROVE Payloads = <<>> /\ got = <<>>
    BY DEF Queue!Init, Payloads
  <1>1. sent = <<>> /\ got = <<>>
    BY DEF Init
  <1>2. QED
    BY <1>1 DEF Payloads

\* send_packet puts a payload in.
LEMMA SendIsPut ==
  ASSUME Inv, NEW n \in Lengths, NEW pad \in PadLengths(n), Send(n, pad)
  PROVE  Queue!Put
<1> DEFINE packet == [at |-> encoder.at, ks |-> encoder.ks, pad |-> pad,
                      header |-> PacketLength(n, pad),
                      payload |-> [id |-> Len(sent) + 1, len |-> n]]
<1>1. sent' = Append(sent, packet) /\ got' = got
  BY DEF Send
<1>2. packet.payload = [id |-> Len(sent) + 1, len |-> n]
  OBVIOUS
<1> HIDE DEF packet
<1>3. /\ Len(sent) \in Nat /\ DOMAIN sent = 1 .. Len(sent) /\ sent \in Seq(Packets)
  BY DEF Inv, TypeOK
<1>4. /\ DOMAIN sent' = 1 .. (Len(sent) + 1) /\ sent'[Len(sent) + 1] = packet
      /\ \A i \in 1 .. Len(sent) : sent'[i] = sent[i]
  BY <1>1, <1>3
<1>5. Len(Payloads) = Len(sent)
  BY <1>3 DEF Payloads
<1>6. Payloads' = Append(Payloads, packet.payload)
  <2>1. Payloads' = [i \in 1 .. (Len(sent) + 1) |->
                      IF i = Len(sent) + 1 THEN packet.payload ELSE sent[i].payload]
    BY <1>3, <1>4 DEF Payloads
  <2>2. Append(Payloads, packet.payload) =
          [i \in 1 .. (Len(sent) + 1) |->
             IF i = Len(sent) + 1 THEN packet.payload ELSE sent[i].payload]
    BY <1>3, <1>5 DEF Payloads
  <2>3. QED
    BY <2>1, <2>2
<1>7. QED
  BY <1>1, <1>2, <1>5, <1>6 DEF Queue!Put, Queue!Payload, Payloads

\* A payload read_packet returns is the one that is next.
LEMMA DecodeRestIsTake ==
  ASSUME Inv, DecodeRest
  PROVE  Queue!Take \/ UNCHANGED Queue!queue
<1>1. sent' = sent
  BY DEF DecodeRest
<1>2. DOMAIN sent = 1 .. Len(sent) /\ Len(sent) \in Nat /\ Len(got) \in Nat
  BY DEF Inv, TypeOK
<1>3. Payloads' = Payloads
  BY <1>1 DEF Payloads
<1>4. CASE got' = got
  BY <1>3, <1>4 DEF Queue!queue, Payloads
<1>5. CASE Len(got) + 1 \in 1 .. Len(sent) /\ got' = Append(got, sent[Len(got) + 1].payload)
  <2>1. Len(Payloads) = Len(sent) /\ Payloads[Len(got) + 1] = sent[Len(got) + 1].payload
    BY <1>2, <1>5 DEF Payloads
  <2>2. QED
    BY <1>2, <1>3, <1>5, <2>1 DEF Queue!Take, Payloads
<1>6. QED
  BY <1>4, <1>5, DecodeRestCases

\* Steps that return no payload do nothing to the queue.
LEMMA OthersAreIdle ==
  ASSUME Arrive \/ DecodeFirst \/ Timeout \/ UNCHANGED vars
  PROVE  UNCHANGED Queue!queue
<1>1. sent' = sent /\ got' = got
  BY DEF Arrive, DecodeFirst, Timeout, vars
<1>2. QED
  BY <1>1 DEF Queue!queue

\* The packets of one direction implement a queue: payloads come out whole, in
\* order, none twice and none left out, whatever the decoder took for a length
\* and wherever its reads timed out.
THEOREM QueueImplemented == Spec => ImplementsQueue
<1>1. Init => Queue!Init
  BY InitIsEmptyQueue
<1>2. Inv /\ [Next]_vars => [Queue!Next]_(Queue!queue)
  <2> SUFFICES ASSUME Inv, [Next]_vars PROVE Queue!Next \/ UNCHANGED Queue!queue
    OBVIOUS
  <2>1. CASE \E n \in Lengths : \E pad \in PadLengths(n) : Send(n, pad)
    BY <2>1, SendIsPut DEF Queue!Next
  <2>2. CASE DecodeRest
    BY <2>2, DecodeRestIsTake DEF Queue!Next
  <2>3. CASE Arrive \/ DecodeFirst \/ Timeout \/ UNCHANGED vars
    BY <2>3, OthersAreIdle
  <2>4. QED
    BY <2>1, <2>2, <2>3 DEF Next
<1>3. QED
  BY <1>1, <1>2, InvHolds, PTL DEF Spec, ImplementsQueue, Queue!Spec
=============================================================================
