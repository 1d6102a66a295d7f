--------------------------- MODULE KeyDerivation ---------------------------
(***************************************************************************)
(* derive_keys (pkg/mod.rs): six strings are derived from the shared       *)
(* secret K, the exchange hash H and the session id, block by block, and   *)
(* cut into the ivs and keys of the codecs.  A block is what was hashed    *)
(* behind K and H for it, so two blocks are equal exactly when all that    *)
(* went into them is.                                                      *)
(***************************************************************************)
EXTENDS Naturals, Sequences

CONSTANTS
  HashLens,     \* hash_len of the key exchange methods, 32 and 64 in the program
  IvLen,        \* iv_len of every cipher
  CipherKeyLen, \* CipherKeyLen[cipher]: key_len in negotiation.rs
  CipherSlice,  \* CipherSlice[cipher]: what make_cipher takes of the key
  MacKeyLen,    \* MacKeyLen[mac]: key_len in negotiation.rs
  MacSlice      \* MacSlice[mac]: what make_mac takes of the key

Ciphers == DOMAIN CipherKeyLen
Macs == DOMAIN MacKeyLen

ASSUME DerivationAssumption ==
  /\ HashLens \subseteq Nat \ {0, 1}
  /\ IvLen \in Nat
  /\ CipherKeyLen \in [Ciphers -> Nat] /\ CipherSlice \in [Ciphers -> Nat]
  /\ MacKeyLen \in [Macs -> Nat] /\ MacSlice \in [Macs -> Nat]

VARIABLES
  hashLen,   \* of the method negotiated
  enc,       \* enc[dir]: the cipher negotiated
  mac,       \* mac[dir]: the mac negotiated
  derived,   \* the strings so far, in the order of their letters
  out,       \* the blocks of the next string
  codecs     \* "none", "Ok" or "panic": of the four codecs at the end

vars == <<hashLen, enc, mac, derived, out, codecs>>
negotiated == <<hashLen, enc, mac>>

Directions == {"c2s", "s2c"}
Letters == <<"A", "B", "C", "D", "E", "F">>
Letter == Letters[Len(derived) + 1]

\* Mutant: the length of the client's direction serves both.
RequestedOneDirection(letter) ==
  CASE letter \in {"A", "B"} -> IvLen
    [] letter \in {"C", "D"} -> CipherKeyLen[enc["c2s"]]
    [] letter \in {"E", "F"} -> MacKeyLen[mac["c2s"]]
\* How long a string derive_keys asks for.
Requested(letter) ==
  CASE letter \in {"A", "B"} -> IvLen
    [] letter = "C" -> CipherKeyLen[enc["c2s"]]
    [] letter = "D" -> CipherKeyLen[enc["s2c"]]
    [] letter = "E" -> MacKeyLen[mac["c2s"]]
    [] letter = "F" -> MacKeyLen[mac["s2c"]]

Block(letter, before) == [letter |-> letter, before |-> before]

\* Mutant: the letter is not hashed.
FirstBlockUnlettered ==
  /\ Len(derived) < Len(Letters) /\ out = <<>>
  /\ out' = <<Block("none", <<>>)>>
  /\ UNCHANGED <<negotiated, derived, codecs>>
\* K, H, the letter, and the session id, which is as long as H is.
FirstBlock ==
  /\ Len(derived) < Len(Letters) /\ out = <<>>
  /\ out' = <<Block(Letter, <<>>)>>
  /\ UNCHANGED <<negotiated, derived, codecs>>

\* K, H, and all the blocks before.
NextBlock(blocks) == Block("none", blocks)

MoreBlocks ==
  /\ out # <<>> /\ Len(out) * hashLen < Requested(Letter)
  /\ out' = Append(out, NextBlock(out))
  /\ UNCHANGED <<negotiated, derived, codecs>>

\* out is cut to the length that was asked for.
Truncate ==
  /\ out # <<>> /\ Len(out) * hashLen >= Requested(Letter)
  /\ derived' = Append(derived, [blocks |-> out, len |-> Requested(Letter)])
  /\ out' = <<>>
  /\ UNCHANGED <<negotiated, codecs>>

\* What make_cipher and make_mac slice from each string, for both ends alike.
Sliced(k) ==
  LET dir == IF k % 2 = 1 THEN "c2s" ELSE "s2c"
  IN  CASE k \in {1, 2} -> 16
        [] k \in {3, 4} -> CipherSlice[enc[dir]]
        [] k \in {5, 6} -> MacSlice[mac[dir]]

\* A slice past the end panics.
MakeCodecs ==
  /\ codecs = "none" /\ Len(derived) = Len(Letters)
  /\ codecs' = IF \A k \in 1 .. Len(Letters) : Sliced(k) <= derived[k].len THEN "Ok" ELSE "panic"
  /\ UNCHANGED <<negotiated, derived, out>>

Init ==
  /\ hashLen \in HashLens
  /\ enc \in [Directions -> Ciphers] /\ mac \in [Directions -> Macs]
  /\ derived = <<>> /\ out = <<>> /\ codecs = "none"

Next == FirstBlock \/ MoreBlocks \/ Truncate \/ MakeCodecs

Spec == Init /\ [][Next]_vars

-----------------------------------------------------------------------------
\* Whatever was negotiated for either direction, the strings are as long as
\* the codecs take, all of each string is used, and there are no more blocks
\* than that needs (derive_keys, make_cipher, make_mac, and the lengths of
\* negotiation.rs, which are written down twice).
KeysFit ==
  /\ codecs # "panic"
  /\ \A k \in 1 .. Len(derived) :
       /\ Sliced(k) = derived[k].len
       /\ Len(derived[k].blocks) * hashLen \in derived[k].len .. (derived[k].len + hashLen - 1)

\* The length of what is hashed behind K and H.
InputLen(block) == IF block.before = <<>> THEN 1 + hashLen ELSE Len(block.before) * hashLen

\* No block of key material occurs twice, in one string or in two: the inputs
\* of the hash differ, and not only as the lists they are but as the bytes they
\* are written one behind the other, since a letter with a session id is never
\* as long as any number of blocks (derive_key_with_hash).
NoBlockTwice ==
  \A j, k \in 1 .. Len(derived) :
    \A a \in 1 .. Len(derived[j].blocks), b \in 1 .. Len(derived[k].blocks) :
      LET x == derived[j].blocks[a]  y == derived[k].blocks[b]
      IN  <<j, a>> # <<k, b>> => x # y /\ (a # b => InputLen(x) # InputLen(y))
=============================================================================
