---------------------------- MODULE PacketLayer ----------------------------
(***************************************************************************)
(* The binary packet layer (crypto.rs) as the transport sees it: a codec   *)
(* is a BinaryPacketEncoder or BinaryPacketDecoder, a unit is what one     *)
(* write puts on the wire.  Bytes are abstracted to what decides whether a *)
(* unit decodes: the key it was sealed with, the place in the keystream    *)
(* (pos counts the packets enciphered or deciphered so far), the sequence  *)
(* number the mac covers, and whether the unit arrived complete and        *)
(* undamaged.                                                              *)
(***************************************************************************)
EXTENDS Naturals

\* The Naked variant of either enum.
NoKey == [dir |-> "none"]
Naked == [key |-> NoKey, pos |-> 0, aligned |-> TRUE]

\* The Traditional variant, fresh from derive_keys.
Traditional(key) == [key |-> key, pos |-> 0, aligned |-> TRUE]

\* build: pad, mac over seq || plaintext, encipher.  A naked packet carries
\* neither a keystream position nor a sequence number.
Build(encoder, seq, msg) ==
  [form |-> "whole", key |-> encoder.key, pos |-> encoder.pos,
   seq |-> IF encoder.key = NoKey THEN 0 ELSE seq, msg |-> msg]

\* The codec after it has processed one packet: the CTR keystream moves on,
\* a naked codec has no state.
Advance(codec) ==
  IF codec.key = NoKey THEN codec ELSE [codec EXCEPT !.pos = @ + 1]

\* The decoder's keystream is where the unit's was when it was enciphered.
Tracks(decoder, unit) ==
  /\ decoder.aligned
  /\ unit.key = decoder.key
  /\ unit.pos = decoder.pos

\* Mutant: the mac does not cover the sequence number.
DecodesUnnumbered(decoder, seq, unit) == unit.form = "whole" /\ Tracks(decoder, unit)

\* decode_from returns Ok: framing, mac and (re-computed) sequence number agree.
Decodes(decoder, seq, unit) ==
  /\ unit.form = "whole"
  /\ Tracks(decoder, unit)
  /\ decoder.key # NoKey => unit.seq = seq

\* decode_from returns Err: the decoders it may leave behind.  decipher runs
\* before verify_mac, so a unit whose length field survived has moved the
\* keystream past itself; otherwise framing and keystream are lost for good.
AfterError(decoder, unit) ==
  LET lost == [decoder EXCEPT !.aligned = FALSE]
  IN  CASE Tracks(decoder, unit) /\ unit.form = "whole"   -> {Advance(decoder)}
        [] Tracks(decoder, unit) /\ unit.form = "damaged" -> {Advance(decoder), lost}
        [] OTHER -> {lost}
=============================================================================
