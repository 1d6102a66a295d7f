----------------------------- MODULE KeyProofs -----------------------------
(***************************************************************************)
(* Key material.  KeyDerivation: none is used twice and every key is as    *)
(* long as its codec takes, for every hash length and every length of ivs  *)
(* and keys.  SecretKey: the exponent the keys begin with is uniform, for  *)
(* every order and every width of a byte.                                  *)
(***************************************************************************)
EXTENDS KeyDerivation, SecretKey, ArithmeticProofs

\* A sequence, whatever its elements are.
IsSeq(s) == s \in Seq({s[k] : k \in DOMAIN s})

\* The blocks of the string with this letter: the first is the letter's, and
\* every other is made of all before it.
IsChain(blocks, letter) ==
  /\ IsSeq(blocks) /\ blocks # <<>>
  /\ blocks[1] = Block(letter, <<>>)
  /\ \A a \in 2 .. Len(blocks) :
       /\ blocks[a].letter = "none"
       /\ blocks[a].before # <<>> /\ Len(blocks[a].before) = a - 1
       /\ blocks[a].before[1] = Block(letter, <<>>)

\* Inductive: every string is such a chain, the one that is being made too.
ChainInv ==
  /\ hashLen \in HashLens
  /\ enc \in [Directions -> Ciphers] /\ mac \in [Directions -> Macs]
  /\ IsSeq(derived) /\ IsSeq(out)
  /\ Len(derived) <= Len(Letters)
  /\ out # <<>> => Len(derived) < Len(Letters) /\ IsChain(out, Letter)
  /\ \A k \in 1 .. Len(derived) : IsChain(derived[k].blocks, Letters[k])

\* Inductive with ChainInv: a string has the length asked for with its letter
\* and as many blocks as that takes; the codecs found all strings long enough.
SizesInv ==
  /\ out # <<>> => (Len(out) - 1) * hashLen < Requested(Letter)
  /\ \A k \in 1 .. Len(derived) :
       /\ derived[k].len = Requested(Letters[k])
       /\ (Len(derived[k].blocks) - 1) * hashLen < derived[k].len
       /\ Len(derived[k].blocks) * hashLen >= derived[k].len
  /\ codecs \in {"none", "Ok"}

-----------------------------------------------------------------------------
\* Sequences and lengths.

\* What Append does to a sequence of anything.
LEMMA Appended ==
  ASSUME NEW s, IsSeq(s), NEW e
  PROVE  /\ IsSeq(Append(s, e)) /\ Append(s, e) # <<>>
         /\ Len(s) \in Nat /\ Len(Append(s, e)) = Len(s) + 1
         /\ Append(s, e)[Len(s) + 1] = e
         /\ \A k \in 1 .. Len(s) : Append(s, e)[k] = s[k]
<1> DEFINE V == {s[k] : k \in DOMAIN s} \cup {e}
<1>1. s \in Seq(V) /\ e \in V
  BY DEF IsSeq
<1> HIDE DEF V
<1> DEFINE t == Append(s, e)
<1>2. /\ t \in Seq(V) /\ t # <<>>
      /\ Len(s) \in Nat /\ Len(t) = Len(s) + 1
      /\ t[Len(s) + 1] = e
      /\ \A k \in 1 .. Len(s) : t[k] = s[k]
  BY <1>1
<1> HIDE DEF t
<1>3. t \in Seq({t[k] : k \in DOMAIN t})
  BY <1>2
<1> QED
  BY <1>2, <1>3 DEF t, IsSeq

\* The empty sequence.
LEMMA EmptySequence == IsSeq(<<>>) /\ Len(<<>>) = 0
BY DEF IsSeq

\* A sequence that is not empty has a positive length.
LEMMA NotEmpty ==
  ASSUME NEW s, IsSeq(s)
  PROVE  Len(s) \in Nat /\ (s # <<>> => Len(s) > 0)
<1> DEFINE V == {s[k] : k \in DOMAIN s}
<1>1. s \in Seq(V)
  BY DEF IsSeq
<1> HIDE DEF V
<1> QED
  BY <1>1

\* Different numbers of blocks have different lengths.
LEMMA LengthsDiffer ==
  ASSUME NEW h \in Nat \ {0}, NEW m \in Nat, NEW n \in Nat, m * h = n * h
  PROVE  m = n
<1>1. h * m + 0 = h * n + 0
  OBVIOUS
<1>2. m \in Int /\ n \in Int /\ 0 \in 0 .. (h - 1)
  OBVIOUS
<1> QED
  BY ONLY <1>1, <1>2, RemainderUnique, h \in Nat \ {0}

\* And a letter with a session id is never as long as any number of blocks.
LEMMA LetterDiffers ==
  ASSUME NEW h \in Nat \ {0, 1}, NEW m \in Nat
  PROVE  m * h # 1 + h
<1> SUFFICES ASSUME m * h = 1 + h
             PROVE  FALSE
  OBVIOUS
<1>1. h * m + 0 = h * 1 + 1
  OBVIOUS
<1>2. h \in Nat \ {0} /\ m \in Int /\ 1 \in Int /\ 0 \in 0 .. (h - 1) /\ 1 \in 0 .. (h - 1)
  OBVIOUS
<1>3. 0 = 1
  BY ONLY <1>1, <1>2, RemainderUnique
<1> QED
  BY <1>3

\* There are six strings to derive.
LEMMA SixLetters == Len(Letters) = 6
BY DEF Letters

\* The letters differ, and none of them is "none".
LEMMA LettersDiffer ==
  ASSUME NEW j \in 1 .. Len(Letters), NEW k \in 1 .. Len(Letters), Letters[j] = Letters[k]
  PROVE  j = k
BY DEF Letters

-----------------------------------------------------------------------------
\* The chains.

\* ChainInv holds initially.
LEMMA ChainsInitially == Init => ChainInv
<1> SUFFICES ASSUME Init
             PROVE  ChainInv
  OBVIOUS
<1> QED
  BY EmptySequence, SixLetters DEF Init, ChainInv

\* Hashing the first block keeps ChainInv.
LEMMA FirstBlockChains ==
  ASSUME ChainInv, FirstBlock
  PROVE  ChainInv'
<1>1. /\ out' = <<Block(Letter, <<>>)>> /\ Len(derived) < Len(Letters)
      /\ derived' = derived /\ hashLen' = hashLen /\ enc' = enc /\ mac' = mac
      /\ Letter' = Letter
  BY DEF FirstBlock, negotiated, Letter
<1> DEFINE first == Block(Letter, <<>>)
<1> HIDE DEF first
<1>2. out' = <<first>> /\ out' # <<>> /\ Len(out') = 1 /\ out'[1] = first /\ DOMAIN out' = 1 .. 1
  BY <1>1 DEF first
<1>3. IsSeq(out')
  BY <1>2 DEF IsSeq
<1>4. IsChain(out', Letter')
  BY <1>1, <1>2, <1>3 DEF IsChain, first
<1> QED
  BY <1>1, <1>3, <1>4 DEF ChainInv

\* Hashing a further block keeps ChainInv.
LEMMA MoreBlocksChains ==
  ASSUME ChainInv, MoreBlocks
  PROVE  ChainInv'
<1> DEFINE e == NextBlock(out)
<1>1. /\ out # <<>> /\ out' = Append(out, e)
      /\ derived' = derived /\ hashLen' = hashLen /\ enc' = enc /\ mac' = mac
      /\ Letter' = Letter
  BY DEF MoreBlocks, negotiated, Letter
<1>2. e.letter = "none" /\ e.before = out
  BY DEF NextBlock, Block
<1> HIDE DEF e
<1>3. IsSeq(out) /\ IsChain(out, Letter) /\ Len(derived) < Len(Letters)
  BY <1>1 DEF ChainInv
<1>4. /\ IsSeq(out') /\ out' # <<>> /\ Len(out) \in Nat /\ Len(out') = Len(out) + 1
      /\ out'[Len(out) + 1] = e
      /\ \A k \in 1 .. Len(out) : out'[k] = out[k]
  BY <1>1, <1>3, Appended
<1>5. Len(out) > 0
  BY <1>1, <1>3, NotEmpty
<1>6. out'[1] = Block(Letter, <<>>)
  BY <1>3, <1>4, <1>5 DEF IsChain
<1>7. ASSUME NEW a \in 2 .. Len(out')
      PROVE  /\ out'[a].letter = "none"
             /\ out'[a].before # <<>> /\ Len(out'[a].before) = a - 1
             /\ out'[a].before[1] = Block(Letter, <<>>)
  <2>1. CASE a = Len(out) + 1
    BY <1>1, <1>2, <1>3, <1>4, <2>1 DEF IsChain
  <2>2. CASE a # Len(out) + 1
    <3>1. a \in 2 .. Len(out) /\ a \in 1 .. Len(out)
      BY <1>4, <2>2
    <3> QED
      BY <1>3, <1>4, <3>1 DEF IsChain
  <2> QED
    BY <2>1, <2>2
<1>8. IsChain(out', Letter')
  BY <1>1, <1>4, <1>6, <1>7 DEF IsChain
<1> QED
  BY <1>1, <1>3, <1>4, <1>8 DEF ChainInv

\* What Truncate appends.
LEMMA Truncated ==
  ASSUME ChainInv, Truncate
  PROVE  /\ out # <<>> /\ out' = <<>> /\ hashLen' = hashLen /\ enc' = enc /\ mac' = mac
         /\ codecs' = codecs
         /\ IsSeq(derived') /\ Len(derived) \in Nat /\ Len(derived') = Len(derived) + 1
         /\ Len(derived) + 1 <= Len(Letters)
         /\ derived'[Len(derived) + 1].blocks = out
         /\ derived'[Len(derived) + 1].len = Requested(Letter)
         /\ \A k \in 1 .. Len(derived) : derived'[k] = derived[k]
<1> DEFINE e == [blocks |-> out, len |-> Requested(Letter)]
<1>1. /\ out # <<>> /\ out' = <<>> /\ derived' = Append(derived, e) /\ codecs' = codecs
      /\ hashLen' = hashLen /\ enc' = enc /\ mac' = mac
  BY DEF Truncate, negotiated
<1>2. e.blocks = out /\ e.len = Requested(Letter)
  OBVIOUS
<1> HIDE DEF e
<1>3. IsSeq(derived) /\ Len(derived) < Len(Letters)
  BY <1>1 DEF ChainInv
<1>4. /\ IsSeq(derived') /\ Len(derived) \in Nat /\ Len(derived') = Len(derived) + 1
      /\ derived'[Len(derived) + 1] = e
      /\ \A k \in 1 .. Len(derived) : derived'[k] = derived[k]
  BY <1>1, <1>3, Appended
<1> QED
  BY <1>1, <1>2, <1>3, <1>4, SixLetters

\* Cutting the string to its length keeps ChainInv.
LEMMA TruncateChains ==
  ASSUME ChainInv, Truncate
  PROVE  ChainInv'
<1>1. IsChain(out, Letters[Len(derived) + 1])
  BY Truncated DEF ChainInv, Letter
<1>2. ASSUME NEW k \in 1 .. Len(derived')
      PROVE  IsChain(derived'[k].blocks, Letters[k])
  <2>1. CASE k = Len(derived) + 1
    BY <1>1, <2>1, Truncated
  <2>2. CASE k # Len(derived) + 1
    <3>1. k \in 1 .. Len(derived)
      BY <2>2, Truncated
    <3> QED
      BY <3>1, Truncated DEF ChainInv
  <2> QED
    BY <2>1, <2>2
<1>3. IsSeq(out') /\ Len(derived') <= Len(Letters)
  BY Truncated, EmptySequence
<1> QED
  BY <1>2, <1>3, Truncated DEF ChainInv

\* Every step keeps ChainInv.
LEMMA ChainsInductive ==
  ASSUME ChainInv, [Next]_vars
  PROVE  ChainInv'
<1>1. CASE MakeCodecs
  BY <1>1 DEF MakeCodecs, negotiated, ChainInv, Letter
<1>2. CASE UNCHANGED vars
  BY <1>2 DEF vars, ChainInv, Letter
<1> QED
  BY <1>1, <1>2, FirstBlockChains, MoreBlocksChains, TruncateChains DEF Next

\* A block of a chain: its letter, or what was hashed before it, and how much
\* that is.
LEMMA BlockOfChain ==
  ASSUME NEW s, NEW l, IsChain(s, l), NEW a \in 1 .. Len(s)
  PROVE  /\ a = 1 => /\ s[a].before = <<>> /\ s[a].letter = l
                     /\ InputLen(s[a]) = 1 + hashLen
         /\ a # 1 => /\ a - 1 \in Nat /\ s[a].before # <<>>
                     /\ s[a].before[1].letter = l
                     /\ InputLen(s[a]) = (a - 1) * hashLen
<1>1. Len(s) \in Nat
  BY NotEmpty DEF IsChain
<1>2. CASE a = 1
  <2>1. s[a].before = <<>> /\ s[a].letter = l
    BY <1>2 DEF IsChain, Block
  <2> QED
    BY <1>2, <2>1 DEF InputLen
<1>3. CASE a # 1
  <2>1. a \in 2 .. Len(s) /\ a - 1 \in Nat
    BY <1>1, <1>3
  <2>2. /\ s[a].before # <<>> /\ Len(s[a].before) = a - 1
        /\ s[a].before[1] = Block(l, <<>>)
    BY <2>1 DEF IsChain
  <2>3. Block(l, <<>>).letter = l
    BY DEF Block
  <2>4. InputLen(s[a]) = (a - 1) * hashLen
    BY <2>2 DEF InputLen
  <2> QED
    BY <1>3, <2>1, <2>2, <2>3, <2>4
<1> QED
  BY <1>2, <1>3

\* The inputs of two blocks of one string or of two differ: as lists, and if
\* they are not at the same place in length.
LEMMA BlocksDiffer ==
  ASSUME hashLen \in Nat \ {0, 1},
         NEW s, NEW t, NEW l, NEW m, IsChain(s, l), IsChain(t, m),
         NEW a \in 1 .. Len(s), NEW b \in 1 .. Len(t)
  PROVE  /\ a # b => s[a] # t[b] /\ InputLen(s[a]) # InputLen(t[b])
         /\ l # m => s[a] # t[b]
<1>1. /\ a = 1 => s[a].before = <<>> /\ s[a].letter = l /\ InputLen(s[a]) = 1 + hashLen
      /\ a # 1 => /\ a - 1 \in Nat /\ s[a].before # <<>>
                  /\ s[a].before[1].letter = l
                  /\ InputLen(s[a]) = (a - 1) * hashLen
  BY BlockOfChain
<1>2. /\ b = 1 => t[b].before = <<>> /\ t[b].letter = m /\ InputLen(t[b]) = 1 + hashLen
      /\ b # 1 => /\ b - 1 \in Nat /\ t[b].before # <<>>
                  /\ t[b].before[1].letter = m
                  /\ InputLen(t[b]) = (b - 1) * hashLen
  BY BlockOfChain
<1>3. ASSUME a # b
      PROVE  InputLen(s[a]) # InputLen(t[b])
  <2>1. CASE a = 1
    <3>1. b # 1 /\ b - 1 \in Nat
      BY <1>2, <1>3, <2>1
    <3>2. (b - 1) * hashLen # 1 + hashLen
      BY <3>1, LetterDiffers
    <3> QED
      BY <1>1, <1>2, <2>1, <3>1, <3>2
  <2>2. CASE b = 1
    <3>1. a # 1 /\ a - 1 \in Nat
      BY <1>1, <1>3, <2>2
    <3>2. (a - 1) * hashLen # 1 + hashLen
      BY <3>1, LetterDiffers
    <3> QED
      BY <1>1, <1>2, <2>2, <3>1, <3>2
  <2>3. CASE a # 1 /\ b # 1
    <3>1. a - 1 \in Nat /\ b - 1 \in Nat /\ a - 1 # b - 1
      BY <1>1, <1>2, <1>3, <2>3
    <3>2. (a - 1) * hashLen # (b - 1) * hashLen
      BY <3>1, LengthsDiffer
    <3> QED
      BY <1>1, <1>2, <2>3, <3>2
  <2> QED
    BY <2>1, <2>2, <2>3
<1>4. ASSUME l # m
      PROVE  s[a] # t[b]
  BY <1>1, <1>2, <1>4
<1> QED
  BY <1>3, <1>4

\* No block of key material occurs twice, whatever was negotiated: neither the
\* lists that are hashed nor the bytes they are written as agree
\* (derive_key_with_hash in pkg/mod.rs).
THEOREM NoKeyTwice == Spec => []NoBlockTwice
<1>1. ASSUME ChainInv
      PROVE  NoBlockTwice
  <2> SUFFICES ASSUME NEW j \in 1 .. Len(derived), NEW k \in 1 .. Len(derived),
                      NEW a \in 1 .. Len(derived[j].blocks), NEW b \in 1 .. Len(derived[k].blocks),
                      <<j, a>> # <<k, b>>
               PROVE  /\ derived[j].blocks[a] # derived[k].blocks[b]
                      /\ a # b => InputLen(derived[j].blocks[a]) # InputLen(derived[k].blocks[b])
    BY DEF NoBlockTwice
  <2>1. hashLen \in Nat \ {0, 1}
    BY <1>1, DerivationAssumption DEF ChainInv
  <2>2. IsChain(derived[j].blocks, Letters[j]) /\ IsChain(derived[k].blocks, Letters[k])
    BY <1>1 DEF ChainInv
  <2>3. j # k => Letters[j] # Letters[k]
    <3>1. Len(derived) \in Nat /\ Len(derived) <= Len(Letters)
      BY <1>1, NotEmpty DEF ChainInv
    <3>2. j \in 1 .. Len(Letters) /\ k \in 1 .. Len(Letters)
      BY <3>1, SixLetters
    <3> QED
      BY <3>2, LettersDiffer
  <2>4. a # b \/ j # k
    OBVIOUS
  <2> QED
    BY <2>1, <2>2, <2>3, <2>4, BlocksDiffer
<1> QED
  BY <1>1, ChainsInitially, ChainsInductive, PTL DEF Spec

-----------------------------------------------------------------------------
\* The lengths.

\* What the code's tables say: make_cipher and make_mac take of a key as much as
\* negotiation.rs says it has, and of an iv its 16 bytes.
TablesAgree ==
  /\ IvLen = 16
  /\ CipherSlice = CipherKeyLen /\ MacSlice = MacKeyLen
  /\ \A cipher \in Ciphers : CipherKeyLen[cipher] > 0
  /\ \A m \in Macs : MacKeyLen[m] > 0

\* So of every string what is asked for is what is taken, and not nothing.
LEMMA TakenIsAsked ==
  ASSUME TablesAgree, ChainInv, NEW k \in 1 .. Len(Letters)
  PROVE  /\ Requested(Letters[k]) \in Nat \ {0}
         /\ Sliced(k) = Requested(Letters[k])
<1>1. /\ enc["c2s"] \in Ciphers /\ enc["s2c"] \in Ciphers
      /\ mac["c2s"] \in Macs /\ mac["s2c"] \in Macs
  BY DEF ChainInv, Directions
<1>2. /\ \A cipher \in Ciphers : /\ CipherKeyLen[cipher] \in Nat \ {0}
                                 /\ CipherSlice[cipher] = CipherKeyLen[cipher]
      /\ \A m \in Macs : MacKeyLen[m] \in Nat \ {0} /\ MacSlice[m] = MacKeyLen[m]
  BY DerivationAssumption DEF TablesAgree
<1>3. IvLen = 16
  BY DEF TablesAgree
<1>4. CASE k = 1
  <2>1. Letters[k] = "A"
    BY <1>4 DEF Letters
  <2> QED
    BY <1>3, <1>4, <2>1 DEF Requested, Sliced
<1>5. CASE k = 2
  <2>1. Letters[k] = "B"
    BY <1>5 DEF Letters
  <2> QED
    BY <1>3, <1>5, <2>1 DEF Requested, Sliced
<1>6. CASE k = 3
  <2>1. Letters[k] = "C" /\ k % 2 = 1
    BY <1>6 DEF Letters
  <2> QED
    BY <1>1, <1>2, <1>6, <2>1 DEF Requested, Sliced
<1>7. CASE k = 4
  <2>1. Letters[k] = "D" /\ k % 2 = 0
    BY <1>7 DEF Letters
  <2> QED
    BY <1>1, <1>2, <1>7, <2>1 DEF Requested, Sliced
<1>8. CASE k = 5
  <2>1. Letters[k] = "E" /\ k % 2 = 1
    BY <1>8 DEF Letters
  <2> QED
    BY <1>1, <1>2, <1>8, <2>1 DEF Requested, Sliced
<1>9. CASE k = 6
  <2>1. Letters[k] = "F" /\ k % 2 = 0
    BY <1>9 DEF Letters
  <2> QED
    BY <1>1, <1>2, <1>9, <2>1 DEF Requested, Sliced
<1> QED
  BY <1>4, <1>5, <1>6, <1>7, <1>8, <1>9, SixLetters

\* SizesInv holds initially.
LEMMA SizesInitially ==
  ASSUME Init
  PROVE  SizesInv
<1>1. out = <<>> /\ derived = <<>> /\ codecs = "none"
  BY DEF Init
<1> QED
  BY <1>1 DEF SizesInv

\* Hashing the first block keeps SizesInv.
LEMMA FirstBlockSizes ==
  ASSUME TablesAgree, ChainInv, SizesInv, FirstBlock
  PROVE  SizesInv'
<1>1. /\ out' = <<Block(Letter, <<>>)>> /\ Len(derived) < Len(Letters)
      /\ derived' = derived /\ hashLen' = hashLen /\ codecs' = codecs
      /\ Letter' = Letter /\ \A l : Requested(l)' = Requested(l)
  BY DEF FirstBlock, negotiated, Letter, Requested
<1>2. Len(out') = 1
  BY <1>1
<1>3. Len(derived) \in Nat /\ hashLen \in Nat
  BY NotEmpty, DerivationAssumption DEF ChainInv
<1>4. Len(derived) + 1 \in 1 .. Len(Letters)
  BY <1>1, <1>3, SixLetters
<1>5. Requested(Letter) \in Nat \ {0}
  BY <1>4, TakenIsAsked DEF Letter
<1>6. (1 - 1) * hashLen < Requested(Letter)
  BY <1>3, <1>5
<1> QED
  BY <1>1, <1>2, <1>6 DEF SizesInv

\* Hashing a further block keeps SizesInv.
LEMMA MoreBlocksSizes ==
  ASSUME ChainInv, SizesInv, MoreBlocks
  PROVE  SizesInv'
<1>1. /\ out' = Append(out, NextBlock(out)) /\ Len(out) * hashLen < Requested(Letter)
      /\ derived' = derived /\ hashLen' = hashLen /\ codecs' = codecs
      /\ Letter' = Letter /\ \A l : Requested(l)' = Requested(l)
  BY DEF MoreBlocks, negotiated, Letter, Requested
<1>2. Len(out) \in Nat /\ Len(out') = Len(out) + 1
  BY <1>1, Appended DEF ChainInv
<1>3. Len(out') - 1 = Len(out)
  BY <1>2
<1> QED
  BY <1>1, <1>3 DEF SizesInv

\* Cutting the string to its length keeps SizesInv.
LEMMA TruncateSizes ==
  ASSUME ChainInv, SizesInv, Truncate
  PROVE  SizesInv'
<1>1. /\ Len(out) * hashLen >= Requested(Letter) /\ \A l : Requested(l)' = Requested(l)
  BY DEF Truncate, negotiated, Requested
<1>2. (Len(out) - 1) * hashLen < Requested(Letter)
  BY Truncated DEF SizesInv
<1>3. ASSUME NEW k \in 1 .. Len(derived')
      PROVE  /\ derived'[k].len = Requested(Letters[k])'
             /\ (Len(derived'[k].blocks) - 1) * hashLen' < derived'[k].len
             /\ Len(derived'[k].blocks) * hashLen' >= derived'[k].len
  <2>1. CASE k = Len(derived) + 1
    <3>1. derived'[k].blocks = out /\ derived'[k].len = Requested(Letter) /\ Letter = Letters[k]
      BY <2>1, Truncated DEF Letter
    <3>2. hashLen' = hashLen
      BY Truncated
    <3> QED
      BY <1>1, <1>2, <3>1, <3>2
  <2>2. CASE k # Len(derived) + 1
    <3>1. k \in 1 .. Len(derived) /\ derived'[k] = derived[k] /\ hashLen' = hashLen
      BY <2>2, Truncated
    <3> QED
      BY <1>1, <3>1 DEF SizesInv
  <2> QED
    BY <2>1, <2>2
<1>4. out' = <<>> /\ codecs' = codecs
  BY Truncated
<1> QED
  BY <1>3, <1>4 DEF SizesInv

\* The codecs find every string long enough.
LEMMA MakeCodecsSizes ==
  ASSUME TablesAgree, ChainInv, SizesInv, MakeCodecs
  PROVE  SizesInv'
<1>1. /\ derived' = derived /\ hashLen' = hashLen /\ out' = out
      /\ Letter' = Letter /\ \A l : Requested(l)' = Requested(l)
      /\ Len(derived) = Len(Letters)
  BY DEF MakeCodecs, negotiated, Letter, Requested
<1>2. ASSUME NEW k \in 1 .. Len(Letters)
      PROVE  Sliced(k) <= derived[k].len
  <2>1. Requested(Letters[k]) \in Nat /\ Sliced(k) = Requested(Letters[k])
    BY TakenIsAsked
  <2>2. derived[k].len = Requested(Letters[k])
    BY <1>1 DEF SizesInv
  <2> QED
    BY <2>1, <2>2
<1>3. codecs' = "Ok"
  BY <1>2 DEF MakeCodecs
<1> QED
  BY <1>1, <1>3 DEF SizesInv

\* Every step keeps SizesInv.
LEMMA SizesInductive ==
  ASSUME TablesAgree, ChainInv, SizesInv, [Next]_vars
  PROVE  SizesInv'
<1>1. CASE UNCHANGED vars
  <2>1. /\ derived' = derived /\ hashLen' = hashLen /\ out' = out /\ codecs' = codecs
        /\ Letter' = Letter /\ \A l : Requested(l)' = Requested(l)
    BY <1>1 DEF vars, Letter, Requested
  <2> QED
    BY <2>1 DEF SizesInv
<1> QED
  BY <1>1, FirstBlockSizes, MoreBlocksSizes, TruncateSizes, MakeCodecsSizes DEF Next

\* What is left over of the last block is less than a block.
LEMMA LessThanABlock ==
  ASSUME NEW n \in Nat, NEW h \in Nat, NEW r \in Nat, (n - 1) * h < r, n * h >= r
  PROVE  n * h \in r .. (r + h - 1)
<1>1. (n - 1) * h = n * h - h
  OBVIOUS
<1>2. n * h \in Nat
  OBVIOUS
<1> DEFINE all == n * h
<1>3. all \in Nat /\ all - h < r /\ all >= r
  BY <1>1, <1>2
<1> HIDE DEF all
<1>4. all \in r .. (r + h - 1)
  BY <1>3
<1> QED
  BY <1>4 DEF all

\* The strings are as long as the codecs take, all of each is used, no codec
\* panics, and no block is hashed that is not needed, whatever was negotiated
\* for either direction and whatever the hash (derive_keys, make_cipher and
\* make_mac in pkg/mod.rs, with the tables of negotiation.rs).
THEOREM KeysFitTheirCodecs ==
  ASSUME TablesAgree
  PROVE  Spec => []KeysFit
<1>1. ASSUME ChainInv, SizesInv
      PROVE  KeysFit
  <2>1. codecs # "panic"
    BY <1>1 DEF SizesInv
  <2>2. ASSUME NEW k \in 1 .. Len(derived)
        PROVE  /\ Sliced(k) = derived[k].len
               /\ Len(derived[k].blocks) * hashLen
                    \in derived[k].len .. (derived[k].len + hashLen - 1)
    <3>1. k \in 1 .. Len(Letters)
      <4>1. Len(derived) \in Nat /\ Len(derived) <= Len(Letters)
        BY <1>1, NotEmpty DEF ChainInv
      <4> QED
        BY <4>1, SixLetters
    <3>2. /\ Requested(Letters[k]) \in Nat
          /\ Sliced(k) = Requested(Letters[k])
      BY <1>1, <3>1, TakenIsAsked
    <3>3. /\ derived[k].len = Requested(Letters[k])
          /\ (Len(derived[k].blocks) - 1) * hashLen < derived[k].len
          /\ Len(derived[k].blocks) * hashLen >= derived[k].len
      BY <1>1 DEF SizesInv
    <3>4. Len(derived[k].blocks) \in Nat
      <4>1. IsChain(derived[k].blocks, Letters[k])
        BY <1>1 DEF ChainInv
      <4> QED
        BY <4>1, NotEmpty DEF IsChain
    <3>5. hashLen \in Nat
      BY <1>1, DerivationAssumption DEF ChainInv
    <3>6. derived[k].len \in Nat
      BY <3>2, <3>3
    <3> QED
      BY <3>2, <3>3, <3>4, <3>5, <3>6, LessThanABlock
  <2> QED
    BY <2>1, <2>2 DEF KeysFit
<1>2. Init => ChainInv /\ SizesInv
  BY ChainsInitially, SizesInitially
<1>3. ChainInv /\ SizesInv /\ [Next]_vars => ChainInv' /\ SizesInv'
  BY ChainsInductive, SizesInductive
<1> QED
  BY <1>1, <1>2, <1>3, PTL DEF Spec
-----------------------------------------------------------------------------
\* The secret exponent (generate_secret_key).

\* What the loop keeps: it returns nothing but secrets in range.
SecretInv ==
  /\ q \in Orders /\ x \in Nat
  /\ x # 0 => x \in 2 .. (q - 1)

\* The order has qbits bits, and the bytes that are filled have as many and
\* the excess: n of the first byte's and all w of the others.
LEMMA BitsAndBytes ==
  ASSUME q \in Orders,
         NEW w, w = (qbytes - 1) * ByteBits,
         NEW e, e = ExcessBits, NEW n, n = ByteBits - e
  PROVE  /\ q \in Nat /\ q >= 4
         /\ w \in Nat /\ e \in Nat /\ n \in Nat
         /\ 2^(n + w - 1) <= q /\ q < 2^(n + w) /\ n + w - 1 \in Nat
<1> DEFINE b == qbits
           y == qbytes
           bb == ByteBits
<1>1. q \in Nat /\ q >= 4 /\ bb \in Nat \ {0}
  BY SecretAssumption
<1>2. b \in 1 .. q /\ 2^(b - 1) <= q /\ q < 2^b
  <2>1. \E k \in 1 .. q : 2^(k - 1) <= q /\ q < 2^k
    <3>1. q \in Nat \ {0}
      BY <1>1
    <3> QED
      BY ONLY <3>1, BitsExist
  <2>2. b = CHOOSE k \in 1 .. q : 2^(k - 1) <= q /\ q < 2^k
    BY DEF qbits, BitsFor
  <2> HIDE DEF b
  <2> QED
    BY <2>1, <2>2
<1>3. y = (b + bb - 1) \div bb
  BY DEF qbytes
<1>4. e = y * bb - b
  BY DEF ExcessBits
<1>5. w = (y - 1) * bb
  OBVIOUS
<1> HIDE DEF b, y, bb
<1> DEFINE k == b + bb - 1
           r == k % bb
<1>6. k \in Nat
  BY <1>1, <1>2
<1>7. k = bb * y + r /\ r \in 0 .. (bb - 1) /\ y \in Nat
  <2>1. y = k \div bb
    BY <1>3
  <2> HIDE DEF k
  <2> QED
    BY <1>1, <1>6, <2>1
<1> DEFINE p == bb * y
<1>8. p \in Nat /\ y * bb = p /\ (y - 1) * bb = p - bb
  BY <1>1, <1>7
<1>9. b + bb - 1 = p + r /\ r \in 0 .. (bb - 1)
  BY <1>7
<1> HIDE DEF p, r, k
<1>10. e = p - b /\ w = p - bb
  BY <1>4, <1>5, <1>8
<1>11. p >= b /\ p - bb <= b - 1 /\ b \in Nat \ {0}
  BY <1>1, <1>2, <1>8, <1>9
<1>12. p >= bb
  <2>1. y # 0
    BY <1>1, <1>8, <1>11
  <2>2. y - 1 \in Nat
    BY <1>7, <2>1
  <2>3. (y - 1) * bb \in Nat
    BY <1>1, <2>2
  <2> QED
    BY <1>1, <1>8, <2>3
<1>13. w \in Nat /\ e \in Nat /\ n \in Nat /\ n + w = b
  BY <1>1, <1>8, <1>10, <1>11, <1>12 DEF bb
<1>14. n + w - 1 = b - 1 /\ b - 1 \in Nat
  BY <1>11, <1>13
<1> QED
  BY <1>1, <1>2, <1>13, <1>14

\* Of every set of numbers with that many bits each is drawn as often.
LEMMA DrawnAlike ==
  ASSUME q \in Orders,
         NEW w, w = (qbytes - 1) * ByteBits,
         NEW e, e = ExcessBits, NEW n, n = ByteBits - e,
         NEW T \in SUBSET (0 .. (2^(n + w) - 1))
  PROVE  Cardinality({d \in Draws : Number(d) \in T}) = Cardinality(T) * 2^e
<1>1. w \in Nat /\ e \in Nat /\ n \in Nat
  BY BitsAndBytes
<1>2. 2^w \in Nat \ {0} /\ 2^e \in Nat \ {0} /\ 2^n \in Nat \ {0}
  BY <1>1, TwoToThe
<1>3. 2^ByteBits = 2^n * 2^e
  <2>1. ByteBits = n + e
    BY <1>1, SecretAssumption
  <2> QED
    BY <1>1, <2>1, TwoToTheSum
<1>4. 2^(n + w) = 2^n * 2^w
  BY <1>1, TwoToTheSum
<1>5. Below = 2^w
  BY DEF Below
<1>6. Draws = (0 .. (2^ByteBits - 1)) \X (0 .. (2^w - 1))
  BY <1>5 DEF Draws
<1>7. \A d : Number(d) = (d[1] \div 2^e) * 2^w + d[2]
  BY <1>5 DEF Number
<1>8. {d \in Draws : Number(d) \in T} = DrawsInto(T, 2^e, 2^w, 2^n)
  BY <1>3, <1>6, <1>7 DEF DrawsInto
<1>9. T \in SUBSET (0 .. (2^n * 2^w - 1))
  BY <1>4
<1>10. Cardinality(DrawsInto(T, 2^e, 2^w, 2^n)) = Cardinality(T) * 2^e
  BY ONLY <1>2, <1>9, EachValueAlike
<1> QED
  BY <1>8, <1>10

\* What is drawn is a number.
LEMMA NumberType ==
  ASSUME q \in Orders, NEW d \in Draws
  PROVE  Number(d) \in Nat
<1> DEFINE w == (qbytes - 1) * ByteBits
           e == ExcessBits
           n == ByteBits - e
<1>1. w \in Nat /\ e \in Nat
  BY BitsAndBytes
<1>2. 2^w \in Nat \ {0} /\ 2^e \in Nat \ {0}
  BY <1>1, TwoToThe
<1>3. Below = 2^w
  BY DEF Below
<1>4. d[1] \in Nat /\ d[2] \in Nat
  <2>1. Draws \subseteq Nat \X Nat
    BY DEF Draws
  <2> QED
    BY <2>1
<1>5. Number(d) = (d[1] \div 2^e) * 2^w + d[2]
  BY <1>3 DEF Number
<1> DEFINE h == d[1] \div 2^e
<1>6. h \in Nat
  BY <1>2, <1>4
<1> HIDE DEF w, e, h
<1>7. h * 2^w \in Nat
  BY <1>2, <1>6
<1> QED
  BY <1>4, <1>5, <1>7 DEF h

\* SecretInv holds initially.
LEMMA SecretInitially ==
  ASSUME SecretInit
  PROVE  SecretInv
BY DEF SecretInit, SecretInv

\* Drawing keeps SecretInv.
LEMMA SecretInductive ==
  ASSUME SecretInv, [Draw]_secretVars
  PROVE  SecretInv'
<1>1. CASE Draw
  <2>1. PICK d \in Draws :
          x' = IF InRange(Number(d)) THEN Number(d) ELSE 0
    BY <1>1 DEF Draw
  <2>2. q' = q
    BY <1>1 DEF Draw
  <2>3. Number(d) \in Nat /\ q \in Nat
    BY NumberType, SecretAssumption DEF SecretInv
  <2> DEFINE k == Number(d)
  <2>4. x' = IF 2 <= k /\ k < q THEN k ELSE 0
    BY <2>1 DEF InRange
  <2> HIDE DEF k
  <2>5. k \in Nat
    BY <2>3 DEF k
  <2> QED
    BY <2>2, <2>3, <2>4, <2>5 DEF SecretInv
<1>2. CASE UNCHANGED secretVars
  BY <1>2 DEF SecretInv, secretVars
<1> QED
  BY <1>1, <1>2

\* Every secret exponent is as likely as any other (generate_secret_key: the
\* shift of the first byte, the range that is tested), for every order and
\* every width of a byte.
THEOREM SecretsUniform == SecretSpec => []SecretsAreUniform
<1>1. ASSUME SecretInv
      PROVE  SecretsAreUniform
  <2> DEFINE w == (qbytes - 1) * ByteBits
             e == ExcessBits
             n == ByteBits - e
             top == 2^(n + w)
  <2>1. q \in Orders
    BY <1>1 DEF SecretInv
  <2>2. q \in Nat /\ q >= 4 /\ q < top /\ n + w \in Nat
    BY <2>1, BitsAndBytes
  <2>3. top \in Nat
    BY <2>2, TwoToThe
  <2>4. ASSUME NEW k \in 2 .. (q - 1)
        PROVE  Chance(k) = 1 * 2^e
    <3>1. {k} \in SUBSET (0 .. (top - 1))
      BY <2>2, <2>3
    <3> HIDE DEF w, e, n
    <3>2. Cardinality({d \in Draws : Number(d) \in {k}}) = Cardinality({k}) * 2^e
      BY <2>1, <3>1, DrawnAlike DEF w, e, n
    <3>3. Cardinality({k}) = 1
      BY FS_Singleton
    <3>4. Chance(k) = Cardinality({d \in Draws : Number(d) \in {k}})
      <4>1. {d \in Draws : Number(d) = k} =
              {d \in Draws : Number(d) \in {k}}
        OBVIOUS
      <4>2. Chance(k) = Cardinality({d \in Draws : Number(d) = k})
        BY DEF Chance
      <4> QED
        BY ONLY <4>1, <4>2
    <3> QED
      BY ONLY <3>2, <3>3, <3>4
  <2> HIDE DEF w, e, n, top
  <2>5. x # 0 => x \in 2 .. (q - 1)
    BY <1>1 DEF SecretInv
  <2>6. 2 \in 2 .. (q - 1)
    BY <2>2
  <2>7. x # 0 => Chance(x) = Chance(2)
    BY <2>4, <2>5, <2>6
  <2> QED
    BY <2>5, <2>7 DEF SecretsAreUniform
<1> QED
  BY <1>1, SecretInitially, SecretInductive, PTL DEF SecretSpec

\* Each turn of generate_secret_key's loop has a chance of one in four at least,
\* for every order and every width of a byte.
THEOREM LoopHasAChance == SecretSpec => []LoopEnds
<1>1. ASSUME SecretInv
      PROVE  LoopEnds
  <2> DEFINE w == (qbytes - 1) * ByteBits
             e == ExcessBits
             n == ByteBits - e
             top == 2^(n + w)
             T == 2 .. (q - 1)
             all == 0 .. (top - 1)
             hits == {d \in Draws : InRange(Number(d))}
  <2>1. q \in Orders
    BY <1>1 DEF SecretInv
  <2>2. /\ q \in Nat /\ q >= 4 /\ q < top /\ n + w \in Nat
        /\ 2^(n + w - 1) <= q /\ n + w - 1 \in Nat
        /\ w \in Nat /\ e \in Nat /\ n \in Nat
    BY <2>1, BitsAndBytes
  <2>3. top \in Nat /\ top <= 2 * q
    <3>1. (n + w - 1) + 1 = n + w
      BY <2>2
    <3>2. top = 2 * 2^(n + w - 1) /\ 2^(n + w - 1) \in Nat
      BY <2>2, <3>1, TwoToThe
    <3> QED
      BY <2>2, <3>2
  <2>4. 2^e \in Nat \ {0}
    BY <2>2, TwoToThe
  <2> HIDE DEF w, e, n, top
  <2>5. Cardinality(T) = q - 2
    <3>1. 2 \in Int /\ q - 1 \in Int /\ ~(2 > q - 1) /\ (q - 1) - 2 + 1 = q - 2
      BY <2>2
    <3> QED
      BY <3>1, FS_Interval
  <2>6. Cardinality(all) = top
    <3>1. 0 \in Int /\ top - 1 \in Int /\ ~(0 > top - 1) /\ (top - 1) - 0 + 1 = top
      BY <2>2, <2>3
    <3> QED
      BY <3>1, FS_Interval
  <2>7. T \in SUBSET all /\ all \in SUBSET all
    BY <2>2, <2>3
  <2>8. hits = {d \in Draws : Number(d) \in T}
    <3>1. \A d \in Draws : Number(d) \in Nat
      BY <2>1, NumberType
    <3>2. \A k \in Nat : InRange(k) <=> k \in T
      BY <2>2 DEF InRange
    <3> HIDE DEF T
    <3> QED
      BY <3>1, <3>2
  <2> HIDE DEF T, all, hits
  <2>9. Cardinality(hits) = (q - 2) * 2^e
    <3>1. Cardinality({d \in Draws : Number(d) \in T}) = Cardinality(T) * 2^e
      BY <2>1, <2>7, DrawnAlike DEF w, e, n, all, top
    <3> QED
      BY <2>5, <2>8, <3>1
  <2>10. Cardinality(Draws) = top * 2^e
    <3>1. Draws = (0 .. (2^ByteBits - 1)) \X (0 .. (2^w - 1))
      BY DEF Draws, Below, w
    <3>2. ByteBits = n + e /\ ByteBits \in Nat
      BY <2>2, SecretAssumption DEF n
    <3>3. \A k \in Nat : 2^k \in Nat \ {0} /\ IsFiniteSet(0 .. (2^k - 1))
                         /\ Cardinality(0 .. (2^k - 1)) = 2^k
      <4> TAKE k \in Nat
      <4>1. 2^k \in Nat \ {0}
        BY TwoToThe
      <4> DEFINE p == 2^k
      <4>2. p \in Nat \ {0}
        BY <4>1
      <4> HIDE DEF p
      <4>3. 0 \in Int /\ p - 1 \in Int /\ ~(0 > p - 1) /\ (p - 1) - 0 + 1 = p
        BY <4>2
      <4>4. IsFiniteSet(0 .. (p - 1)) /\ Cardinality(0 .. (p - 1)) = p
        BY <4>3, FS_Interval
      <4> QED
        BY <4>1, <4>4 DEF p
    <3>4. Cardinality(Draws) = 2^ByteBits * 2^w
      <4> DEFINE first == 0 .. (2^ByteBits - 1)
                 rest == 0 .. (2^w - 1)
      <4>1. IsFiniteSet(first) /\ Cardinality(first) = 2^ByteBits
        BY <3>2, <3>3
      <4>2. IsFiniteSet(rest) /\ Cardinality(rest) = 2^w
        BY <2>2, <3>3
      <4>3. Draws = first \X rest
        BY <3>1
      <4> HIDE DEF first, rest
      <4>4. Cardinality(first \X rest) = Cardinality(first) * Cardinality(rest)
        BY ONLY <4>1, <4>2, FS_Product
      <4> QED
        BY ONLY <4>1, <4>2, <4>3, <4>4
    <3>5. 2^ByteBits = 2^n * 2^e /\ top = 2^n * 2^w
      BY <2>2, <3>2, TwoToTheSum DEF top
    <3>6. 2^n \in Nat /\ 2^w \in Nat /\ 2^e \in Nat
      BY <2>2, TwoToThe
    <3>7. \A a, b, c \in Nat : (a * b) * c = (a * c) * b
      OBVIOUS
    <3> QED
      BY <3>4, <3>5, <3>6, <3>7
  <2>11. 4 * (q - 2) >= top
    BY <2>2, <2>3
  <2>12. 4 * ((q - 2) * 2^e) >= top * 2^e
    <3> DEFINE k == 2^e
               a == q - 2
    <3>1. k \in Nat /\ a \in Nat /\ 4 * a >= top
      BY <2>2, <2>4, <2>11
    <3> HIDE DEF k, a
    <3>2. (4 * a - top) * k >= 0
      BY <2>3, <3>1
    <3>3. (4 * a - top) * k = 4 * (a * k) - top * k
      BY <2>3, <3>1
    <3>4. a * k \in Nat /\ top * k \in Nat
      BY <2>3, <3>1
    <3>5. 4 * (a * k) >= top * k
      BY <3>2, <3>3, <3>4
    <3> QED
      BY <3>5 DEF k, a
  <2>13. 4 * Cardinality(hits) >= Cardinality(Draws)
    BY ONLY <2>9, <2>10, <2>12
  <2> QED
    BY ONLY <2>13 DEF LoopEnds, hits
<1> QED
  BY <1>1, SecretInitially, SecretInductive, PTL DEF SecretSpec
=============================================================================
