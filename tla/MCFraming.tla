----------------------------- MODULE MCFraming -----------------------------
(***************************************************************************)
(* Lengths for TLC: every remainder modulo the block size, or the limits   *)
(* of packet_length, or a length that does not fit its field.              *)
(***************************************************************************)
EXTENDS Framing

\* Every remainder modulo 16, the largest safe payload and the next, the
\* largest that can ever be accepted and the next, and one that wraps.
Limits == (0 .. 15) \cup {34744, 34745, 34995, 34996, 65543}
\* With padding two to sixteen blocks.
OneBlock == {11}
=============================================================================
