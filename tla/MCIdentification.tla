-------------------------- MODULE MCIdentification --------------------------
(***************************************************************************)
(* Identification strings for TLC: every text up to a length that exceeds  *)
(* the limit on lines.                                                     *)
(***************************************************************************)
EXTENDS Identification

MCIds == UNION {[1 .. n -> Chars] : n \in 0 .. (MaxLine + 1)}
=============================================================================
