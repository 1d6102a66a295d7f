----------------------------- MODULE SecretKey -----------------------------
(***************************************************************************)
(* generate_secret_key (kex/dh.rs): a secret exponent is drawn by filling  *)
(* as many bytes as the group order q has at random, shifting the excess   *)
(* bits out of the first, and drawing again while the number is not in     *)
(* 2 .. q - 1.                                                             *)
(***************************************************************************)
EXTENDS Integers, FiniteSets

CONSTANTS
  ByteBits, \* 8 in the program
  Orders    \* the group orders q

ASSUME SecretAssumption ==
  /\ ByteBits \in Nat \ {0}
  /\ Orders \subseteq Nat \ (0 .. 3)

VARIABLES
  q,     \* the group's order
  drawn, \* the number last drawn
  x      \* the secret returned, or 0

secretVars == <<q, drawn, x>>

BitsFor(n) == CHOOSE b \in 1 .. n : 2 ^ (b - 1) <= n /\ n < 2 ^ b
qbits == BitsFor(q)
qbytes == (qbits + ByteBits - 1) \div ByteBits

\* Mutant: nothing is shifted out.
ExcessBitsNone == 0
ExcessBits == qbytes * ByteBits - qbits

\* What is drawn is uniform: the bytes below the first as they are, and the
\* first without its lowest excess bits.
Below == 2 ^ ((qbytes - 1) * ByteBits)
Draws == (0 .. (2 ^ ByteBits - 1)) \X (0 .. (Below - 1))
Number(draw) == (draw[1] \div 2 ^ ExcessBits) * Below + draw[2]

\* Mutant: the order itself is taken, and 0 as well as 1 refused.
InRangeInclusive(n) == 2 <= n /\ n <= q
InRange(n) == 2 <= n /\ n < q

Draw ==
  /\ x = 0
  /\ \E draw \in Draws :
       /\ drawn' = Number(draw)
       /\ x' = IF InRange(Number(draw)) THEN Number(draw) ELSE 0
  /\ UNCHANGED q

SecretInit == q \in Orders /\ drawn = 0 /\ x = 0

SecretSpec == SecretInit /\ [][Draw]_secretVars

-----------------------------------------------------------------------------
Chance(n) == Cardinality({draw \in Draws : Number(draw) = n})

\* Every secret in 2 .. q - 1 is as likely as any other, and nothing else is
\* returned: the shift is by whole bits and keeps the draw uniform.
SecretsAreUniform ==
  /\ x # 0 => x \in 2 .. (q - 1)
  /\ x # 0 => Chance(x) = Chance(2)

\* The loop has a chance of at least one in four each time, for every order:
\* no order makes it draw for long.
LoopEnds ==
  4 * Cardinality({draw \in Draws : InRange(Number(draw))}) >= Cardinality(Draws)
=============================================================================
