-------------------------- MODULE ArithmeticProofs --------------------------
(***************************************************************************)
(* Facts about numbers that the other proofs need: remainders, recursion   *)
(* on the natural numbers, sums, powers modulo a number, powers of two,    *)
(* and how many numbers of two digits there are.                           *)
(*                                                                         *)
(* The library's induction rules take the induction hypothesis as an       *)
(* operator, which no installed prover can instantiate.  Here induction is *)
(* over a set (SetInduction), from the strict subset ordering of finite    *)
(* sets being well founded (LeastNatural); that a recursive definition     *)
(* defines a function follows from it (RecursionExists).                   *)
(***************************************************************************)
EXTENDS Integers, FiniteSets, FunctionTheorems, FiniteSetTheorems,
        WellFoundedInduction, TLAPS

-----------------------------------------------------------------------------
\* Induction.

\* Every set of natural numbers has a least one.
LEMMA LeastNatural ==
  ASSUME NEW T \in SUBSET Nat, T # {}
  PROVE  \E n \in T : \A m \in T : n <= m
<1> DEFINE below == {0 .. n : n \in T}
           R == StrictSubsetOrdering(Nat)
<1>1. IsWellFoundedOn(R, FiniteSubsetsOf(Nat))
  BY FS_StrictSubsetOrderingWellFounded
<1>2. below \subseteq FiniteSubsetsOf(Nat)
  <2>1. \A n \in Nat : IsFiniteSet(0 .. n) /\ 0 .. n \in SUBSET Nat
    BY FS_Interval
  <2> QED
    BY <2>1 DEF FiniteSubsetsOf
<1>3. below # {}
  OBVIOUS
<1> HIDE DEF R
<1>4. PICK x \in below : \A y \in below : ~ (<<y, x>> \in R)
  BY <1>1, <1>2, <1>3, WFMin
<1>5. PICK n \in T : x = 0 .. n
  BY <1>4
<1> SUFFICES ASSUME NEW m \in T, ~(n <= m)
             PROVE  FALSE
  BY <1>5
<1>6. 0 .. m \subseteq 0 .. n /\ 0 .. m # 0 .. n
  OBVIOUS
<1>7. <<0 .. m, 0 .. n>> \in R
  BY <1>6 DEF R, StrictSubsetOrdering
<1> QED
  BY <1>4, <1>5, <1>7

\* A set with 0 and the successors of its elements has every natural number.
LEMMA SetInduction ==
  ASSUME NEW S, 0 \in S, \A n \in Nat : n \in S => n + 1 \in S
  PROVE  \A n \in Nat : n \in S
<1> DEFINE T == {n \in Nat : n \notin S}
<1> SUFFICES ASSUME T # {}
             PROVE  FALSE
  OBVIOUS
<1>1. PICK n \in T : \A m \in T : n <= m
  BY LeastNatural
<1>2. n # 0 /\ n - 1 \in Nat /\ n - 1 \notin T
  BY <1>1
<1> QED
  BY <1>2

-----------------------------------------------------------------------------
\* Remainders.

\* Division leaves a remainder.
LEMMA Remainder ==
  ASSUME NEW m \in Nat \ {0}, NEW k \in Nat
  PROVE  \E x \in Nat : k = m * x + (k % m) /\ k % m \in 0 .. (m - 1)
<1>1. k = m * (k \div m) + (k % m) /\ k % m \in 0 .. (m - 1) /\ k \div m \in Nat
  OBVIOUS
<1> QED
  BY <1>1

\* Quotient and remainder are determined.
LEMMA RemainderUnique ==
  ASSUME NEW m \in Nat \ {0}, NEW x \in Int, NEW y \in Int,
         NEW r \in 0 .. (m - 1), NEW s \in 0 .. (m - 1), m * x + r = m * y + s
  PROVE  x = y /\ r = s
<1>1. m * (x - y) = s - r
  OBVIOUS
<1>2. x - y >= 1 => m * (x - y) >= m
  OBVIOUS
<1>3. x - y <= -1 => m * (x - y) <= -m
  OBVIOUS
<1>4. x = y
  BY <1>1, <1>2, <1>3
<1> QED
  BY <1>4

\* So what remains of a number is its remainder.
LEMMA RemainderIs ==
  ASSUME NEW m \in Nat \ {0}, NEW x \in Nat, NEW r \in 0 .. (m - 1), NEW k \in Nat,
         k = m * x + r
  PROVE  k % m = r
<1> DEFINE s == k % m
<1>1. PICK y \in Nat : k = m * y + s /\ s \in 0 .. (m - 1)
  BY Remainder
<1>2. s \in 0 .. (m - 1) /\ m * x + r = m * y + s
  BY <1>1
<1> HIDE DEF s
<1>3. r = s
  BY <1>2, RemainderUnique
<1> QED
  BY <1>3 DEF s

\* Adding before or after the division leaves the same.
LEMMA RemainderOfSum ==
  ASSUME NEW m \in Nat \ {0}, NEW k \in Nat, NEW j \in Nat
  PROVE  ((k % m) + j) % m = (k + j) % m
<1> DEFINE wrapped == (k % m) + j
           r == wrapped % m
           sum == k + j
<1>1. PICK x \in Nat : k = m * x + (k % m) /\ k % m \in 0 .. (m - 1)
  BY Remainder
<1>2. wrapped \in Nat /\ k = m * x + wrapped - j
  BY <1>1
<1> HIDE DEF wrapped
<1>3. PICK y \in Nat : wrapped = m * y + r /\ r \in 0 .. (m - 1)
  BY <1>2, Remainder
<1> HIDE DEF r
<1> DEFINE z == x + y
<1>4. m * z = m * x + m * y /\ z \in Nat /\ sum \in Nat
  OBVIOUS
<1> HIDE DEF z
<1>5. sum = m * z + r
  BY <1>2, <1>3, <1>4
<1> HIDE DEF sum
<1>6. sum % m = r
  BY <1>3, <1>4, <1>5, RemainderIs
<1> QED
  BY <1>6 DEF sum, r, wrapped

\* Numbers less than m apart leave different remainders.
LEMMA RemaindersDiffer ==
  ASSUME NEW m \in Nat \ {0}, NEW k \in Nat,
         NEW a \in 0 .. (m - 1), NEW b \in 0 .. (m - 1), (k + a) % m = (k + b) % m
  PROVE  a = b
<1> DEFINE ka == k + a
           kb == k + b
           s == ka % m
<1>1. ka \in Nat /\ kb \in Nat /\ ka % m = kb % m /\ ka - kb = a - b
  OBVIOUS
<1> HIDE DEF ka, kb
<1>2. PICK x \in Nat : ka = m * x + (ka % m) /\ ka % m \in 0 .. (m - 1)
  BY <1>1, Remainder
<1>3. PICK y \in Nat : kb = m * y + (kb % m)
  BY <1>1, Remainder
<1>4. s \in 0 .. (m - 1) /\ ka = m * x + s /\ kb = m * y + s
  BY <1>1, <1>2, <1>3
<1> HIDE DEF s
<1>5. m * x + b = m * y + a
  BY <1>1, <1>4
<1> QED
  BY <1>5, RemainderUnique

\* Reducing a factor first leaves the same.
LEMMA RemainderOfProduct ==
  ASSUME NEW m \in Nat \ {0}, NEW u \in Nat, NEW v \in Nat
  PROVE  ((u % m) * v) % m = (u * v) % m
<1> DEFINE r == u % m
           reduced == r * v
           s == reduced % m
           product == u * v
<1>1. PICK q \in Nat : u = m * q + r /\ r \in 0 .. (m - 1)
  BY Remainder
<1>2. r \in Nat /\ u = m * q + r
  BY <1>1
<1> HIDE DEF r
<1>3. reduced \in Nat
  BY <1>2
<1>4. product = (m * q) * v + reduced
  BY <1>2
<1>5. (m * q) * v = m * (q * v)
  OBVIOUS
<1> HIDE DEF reduced
<1>6. PICK z \in Nat : reduced = m * z + s /\ s \in 0 .. (m - 1)
  BY <1>3, Remainder
<1> HIDE DEF s
<1> DEFINE w == q * v
           t == w + z
<1>7. w \in Nat /\ product = m * w + (m * z + s)
  BY <1>4, <1>5, <1>6
<1> HIDE DEF w, product
<1>8. t \in Nat /\ m * t = m * w + m * z
  BY <1>7
<1> HIDE DEF t
<1>9. product = m * t + s /\ product \in Nat
  BY <1>6, <1>7, <1>8
<1>10. product % m = s
  BY <1>6, <1>8, <1>9, RemainderIs
<1> QED
  BY <1>10 DEF product, s, reduced, r

-----------------------------------------------------------------------------
\* Recursion.

\* f is the beginning, up to n, of the sequence that starts with a and goes on
\* with step.
StartsAs(V, a, step, n, f) ==
  /\ f \in [0 .. n -> V] /\ f[0] = a
  /\ \A h \in 0 .. (n - 1) : f[h + 1] = step[f[h]]

\* It has beginnings of every length.
LEMMA BeginningsExist ==
  ASSUME NEW V, NEW a \in V, NEW step \in [V -> V]
  PROVE  \A n \in Nat : \E f : StartsAs(V, a, step, n, f)
<1> DEFINE S == {n \in Nat : \E f : StartsAs(V, a, step, n, f)}
<1>1. 0 \in S
  <2>1. StartsAs(V, a, step, 0, [h \in 0 .. 0 |-> a])
    BY DEF StartsAs
  <2> QED
    BY <2>1
<1>2. ASSUME NEW n \in Nat, n \in S
      PROVE  n + 1 \in S
  <2>1. PICK f : StartsAs(V, a, step, n, f)
    BY <1>2
  <2> DEFINE g == [h \in 0 .. (n + 1) |-> IF h <= n THEN f[h] ELSE step[f[n]]]
  <2>2. g \in [0 .. (n + 1) -> V] /\ g[0] = a
    BY <2>1 DEF StartsAs
  <2>3. \A h \in 0 .. ((n + 1) - 1) : g[h + 1] = step[g[h]]
    BY <2>1 DEF StartsAs
  <2> QED
    BY <2>2, <2>3 DEF StartsAs
<1> HIDE DEF S
<1>3. \A n \in Nat : n \in S
  BY <1>1, <1>2, SetInduction
<1> QED
  BY <1>3 DEF S

\* They agree as far as they go.
LEMMA BeginningsAgree ==
  ASSUME NEW V, NEW a, NEW step
  PROVE  \A n \in Nat : \A k, l \in Nat : \A f, g :
           n <= k /\ n <= l /\ StartsAs(V, a, step, k, f) /\ StartsAs(V, a, step, l, g)
             => f[n] = g[n]
<1> DEFINE S == {n \in Nat : \A k, l \in Nat : \A f, g :
                   n <= k /\ n <= l /\ StartsAs(V, a, step, k, f) /\ StartsAs(V, a, step, l, g)
                     => f[n] = g[n]}
<1>1. 0 \in S
  BY DEF StartsAs
<1>2. ASSUME NEW n \in Nat, n \in S
      PROVE  n + 1 \in S
  <2> SUFFICES ASSUME NEW k \in Nat, NEW l \in Nat, NEW f, NEW g, n + 1 <= k, n + 1 <= l,
                      StartsAs(V, a, step, k, f), StartsAs(V, a, step, l, g)
               PROVE  f[n + 1] = g[n + 1]
    OBVIOUS
  <2>1. f[n] = g[n]
    BY <1>2
  <2>2. n \in 0 .. (k - 1) /\ n \in 0 .. (l - 1)
    OBVIOUS
  <2> QED
    BY <2>1, <2>2 DEF StartsAs
<1> HIDE DEF S
<1>3. \A n \in Nat : n \in S
  BY <1>1, <1>2, SetInduction
<1> QED
  BY <1>3 DEF S

\* So the sequence exists.
LEMMA RecursionExists ==
  ASSUME NEW V, NEW a \in V, NEW step \in [V -> V]
  PROVE  \E f \in [Nat -> V] : f[0] = a /\ \A n \in Nat : f[n + 1] = step[f[n]]
<1> DEFINE B(n) == CHOOSE f : StartsAs(V, a, step, n, f)
           f == [n \in Nat |-> B(n)[n]]
<1>1. \A n \in Nat : StartsAs(V, a, step, n, B(n))
  BY BeginningsExist
<1> HIDE DEF B
<1>2. f \in [Nat -> V] /\ f[0] = a
  BY <1>1 DEF StartsAs
<1>3. ASSUME NEW n \in Nat
      PROVE  f[n + 1] = step[f[n]]
  <2>1. B(n + 1)[n + 1] = step[B(n + 1)[n]]
    BY <1>1 DEF StartsAs
  <2>2. B(n + 1)[n] = B(n)[n]
    BY <1>1, BeginningsAgree
  <2> QED
    BY <2>1, <2>2
<1> QED
  BY <1>2, <1>3

\* f is the partial sums of a finite list of sizes, defined each from the one before.
AreSums(f, size, n) ==
  \A k \in 1 .. (n + 1) : f[k] = IF k = 1 THEN 0 ELSE f[k - 1] + size[k - 1]

\* They exist.
LEMMA SumsExist ==
  ASSUME NEW n \in Nat, NEW size
  PROVE  size \in [1 .. n -> Nat] => \E f \in [1 .. (n + 1) -> Nat] : AreSums(f, size, n)
<1> DEFINE V == [at : Nat, sum : Nat]
           a == [at |-> 0, sum |-> 0]
           Plus(v) == IF size[v.at + 1] \in Nat THEN size[v.at + 1] ELSE 0
           step == [v \in V |-> [at |-> v.at + 1, sum |-> v.sum + Plus(v)]]
<1>1. a \in V /\ step \in [V -> V]
  OBVIOUS
<1> HIDE DEF V, a, step
<1>2. \E g \in [Nat -> V] : g[0] = a /\ \A k \in Nat : g[k + 1] = step[g[k]]
  BY <1>1, RecursionExists
<1> HAVE size \in [1 .. n -> Nat]
<1>3. \A v \in V : /\ v.at \in Nat /\ v.sum \in Nat
                   /\ step[v].at = v.at + 1
                   /\ step[v].sum = v.sum + Plus(v)
  BY DEF V, step
<1>4. PICK g \in [Nat -> V] : g[0] = a /\ \A k \in Nat : g[k + 1] = step[g[k]]
  BY <1>2
<1>5. g[0].at = 0 /\ g[0].sum = 0
  BY <1>4 DEF a
<1>6. \A k \in Nat : g[k].at = k
  <2> DEFINE S == {k \in Nat : g[k].at = k}
  <2>1. 0 \in S
    BY <1>5
  <2>2. ASSUME NEW k \in Nat, k \in S
        PROVE  k + 1 \in S
    <3>1. g[k] \in V /\ g[k + 1] = step[g[k]]
      BY <1>4
    <3>2. g[k + 1].at = g[k].at + 1
      BY <1>3, <3>1
    <3> QED
      BY <2>2, <3>2
  <2> HIDE DEF S
  <2>3. \A k \in Nat : k \in S
    BY <2>1, <2>2, SetInduction
  <2> QED
    BY <2>3 DEF S
<1> DEFINE f == [k \in 1 .. (n + 1) |-> g[k - 1].sum]
<1>7. f \in [1 .. (n + 1) -> Nat]
  <2>1. \A k \in Nat : g[k].sum \in Nat
    BY <1>3, <1>4
  <2>2. \A k \in 1 .. (n + 1) : k - 1 \in Nat
    OBVIOUS
  <2> QED
    BY <2>1, <2>2
<1>8. ASSUME NEW k \in 1 .. (n + 1)
      PROVE  f[k] = IF k = 1 THEN 0 ELSE f[k - 1] + size[k - 1]
  <2>1. CASE k = 1
    BY <1>5, <2>1
  <2>2. CASE k # 1
    <3> DEFINE j == k - 2
    <3>1. j \in Nat /\ j + 1 = k - 1 /\ j + 1 \in 1 .. n /\ k - 1 \in 1 .. (n + 1)
          /\ (k - 1) - 1 = j
      BY <2>2
    <3>2. f[k] = g[j + 1].sum /\ f[k - 1] = g[j].sum
      BY <3>1
    <3> HIDE DEF j, f
    <3>3. g[j] \in V /\ g[j].at = j /\ g[j + 1] = step[g[j]]
      BY <1>4, <1>6, <3>1
    <3>4. g[j + 1].sum = g[j].sum + Plus(g[j])
      BY <1>3, <3>3
    <3>5. Plus(g[j]) = size[j + 1]
      BY <3>1, <3>3
    <3> QED
      BY <2>2, <3>1, <3>2, <3>4, <3>5
  <2> QED
    BY <2>1, <2>2
<1>9. AreSums(f, size, n)
  BY <1>8 DEF AreSums
<1> HIDE DEF f
<1> QED
  BY <1>7, <1>9

\* And they grow.
LEMMA SumsGrow ==
  ASSUME NEW n \in Nat, NEW f \in [1 .. (n + 1) -> Nat],
         \A k \in 1 .. n : f[k] <= f[k + 1]
  PROVE  \A k \in 1 .. (n + 1) : f[k] <= f[n + 1]
<1> DEFINE S == {d \in Nat : \A k \in 1 .. (n + 1) : k + d = n + 1 => f[k] <= f[n + 1]}
<1>1. 0 \in S
  OBVIOUS
<1>2. ASSUME NEW d \in Nat, d \in S
      PROVE  d + 1 \in S
  <2> SUFFICES ASSUME NEW k \in 1 .. (n + 1), k + (d + 1) = n + 1
               PROVE  f[k] <= f[n + 1]
    OBVIOUS
  <2>1. k \in 1 .. n /\ k + 1 \in 1 .. (n + 1) /\ (k + 1) + d = n + 1
    OBVIOUS
  <2>2. f[k] <= f[k + 1] /\ f[k + 1] <= f[n + 1]
    BY <1>2, <2>1
  <2>3. f[k] \in Nat /\ f[k + 1] \in Nat /\ f[n + 1] \in Nat
    BY <2>1
  <2> QED
    BY <2>2, <2>3
<1> HIDE DEF S
<1>3. \A d \in Nat : d \in S
  BY <1>1, <1>2, SetInduction
<1>4. ASSUME NEW k \in 1 .. (n + 1)
      PROVE  f[k] <= f[n + 1]
  <2>1. (n + 1) - k \in Nat /\ k + ((n + 1) - k) = n + 1
    OBVIOUS
  <2> QED
    BY <1>3, <2>1 DEF S
<1> QED
  BY <1>4

-----------------------------------------------------------------------------
\* Powers.

\* The powers of base modulo modulus, each from the one before.
Powers(base, modulus) ==
  LET power[n \in Nat] == IF n = 0 THEN 1 % modulus ELSE (base * power[n - 1]) % modulus
  IN  power

\* There are such numbers.
LEMMA PowersDefined ==
  ASSUME NEW base \in Nat, NEW modulus \in Nat \ {0}
  PROVE  /\ Powers(base, modulus) \in [Nat -> 0 .. (modulus - 1)]
         /\ Powers(base, modulus)[0] = 1 % modulus
         /\ \A n \in Nat : Powers(base, modulus)[n + 1] =
                           (base * Powers(base, modulus)[n]) % modulus
<1> DEFINE V == 0 .. (modulus - 1)
           step == [v \in V |-> (base * v) % modulus]
           Body(g) == [n \in Nat |-> IF n = 0 THEN 1 % modulus ELSE (base * g[n - 1]) % modulus]
           P == Powers(base, modulus)
<1>1. \A k \in Nat : k % modulus \in V
  BY Remainder
<1>2. 1 % modulus \in V /\ step \in [V -> V]
  <2>1. \A v \in V : base * v \in Nat
    OBVIOUS
  <2> HIDE DEF V
  <2> QED
    BY <1>1, <2>1
<1>3. \A v \in V : step[v] = (base * v) % modulus
  OBVIOUS
<1> HIDE DEF V, step
<1>4. PICK f \in [Nat -> V] : f[0] = 1 % modulus /\ \A n \in Nat : f[n + 1] = step[f[n]]
  <2> DEFINE a == 1 % modulus
  <2>1. a \in V /\ step \in [V -> V]
    BY <1>2
  <2> HIDE DEF a
  <2>2. \E f \in [Nat -> V] : f[0] = a /\ \A n \in Nat : f[n + 1] = step[f[n]]
    BY <2>1, RecursionExists
  <2> QED
    BY <2>2 DEF a
<1>5. f = Body(f)
  <2>1. \A n \in Nat : f[n] = IF n = 0 THEN 1 % modulus ELSE (base * f[n - 1]) % modulus
    <3> SUFFICES ASSUME NEW n \in Nat, n # 0
                 PROVE  f[n] = (base * f[n - 1]) % modulus
      BY <1>4
    <3>1. n - 1 \in Nat /\ n = (n - 1) + 1
      OBVIOUS
    <3>2. f[(n - 1) + 1] = step[f[n - 1]] /\ f[n - 1] \in V
      BY <1>4, <3>1
    <3> QED
      BY <1>3, <3>1, <3>2
  <2> QED
    BY <1>4, <2>1
<1>6. P = Body(P)
  BY <1>5 DEF Powers
<1> HIDE DEF P
<1>7. P[0] = 1 % modulus
  BY <1>6
<1>8. \A n \in Nat : P[n + 1] = (base * P[n]) % modulus
  <2> TAKE n \in Nat
  <2>1. n + 1 \in Nat /\ n + 1 # 0 /\ (n + 1) - 1 = n
    OBVIOUS
  <2> QED
    BY <1>6, <2>1
<1>9. \A n \in Nat : P[n] \in V
  <2> DEFINE S == {n \in Nat : P[n] \in V}
  <2>1. 0 \in S
    BY <1>2, <1>7
  <2>2. ASSUME NEW n \in Nat, n \in S
        PROVE  n + 1 \in S
    <3>1. P[n] \in V
      BY <2>2
    <3>2. base * P[n] \in Nat
      BY <3>1 DEF V
    <3> QED
      BY <1>1, <1>8, <3>2
  <2> HIDE DEF S
  <2>3. \A n \in Nat : n \in S
    BY <2>1, <2>2, SetInduction
  <2> QED
    BY <2>3 DEF S
<1>10. P \in [Nat -> V]
  BY <1>6, <1>9
<1> QED
  BY <1>7, <1>8, <1>10 DEF P, V

\* A power is the product of its parts.
LEMMA PowerOfSum ==
  ASSUME NEW base \in Nat, NEW modulus \in Nat \ {0}, NEW h \in Nat, NEW j \in Nat
  PROVE  Powers(base, modulus)[h + j] =
           (Powers(base, modulus)[h] * Powers(base, modulus)[j]) % modulus
<1> DEFINE P == Powers(base, modulus)
           S == {n \in Nat : P[n + j] = (P[n] * P[j]) % modulus}
<1>1. /\ \A n \in Nat : P[n] \in 0 .. (modulus - 1)
      /\ P[0] = 1 % modulus
      /\ \A n \in Nat : P[n + 1] = (base * P[n]) % modulus
  BY PowersDefined
<1>2. \A n \in Nat : P[n] \in Nat
  BY <1>1
<1> HIDE DEF P
<1>3. 0 \in S
  <2> DEFINE v == P[j]
  <2>1. v \in Nat /\ v \in 0 .. (modulus - 1)
    BY <1>1, <1>2
  <2> HIDE DEF v
  <2>2. v % modulus = v
    <3>1. v = modulus * 0 + v
      BY <2>1
    <3> QED
      BY <2>1, <3>1, RemainderIs
  <2>3. ((1 % modulus) * v) % modulus = (1 * v) % modulus
    BY <2>1, RemainderOfProduct
  <2>4. 1 * v = v
    BY <2>1
  <2>5. (P[0] * v) % modulus = v
    BY <1>1, <2>2, <2>3, <2>4
  <2>6. 0 + j = j
    OBVIOUS
  <2> QED
    BY <2>5, <2>6 DEF v
<1>4. ASSUME NEW n \in Nat, n \in S
      PROVE  n + 1 \in S
  <2> DEFINE u == P[n]
             v == P[j]
  <2>1. u \in Nat /\ v \in Nat /\ P[n + j] = (u * v) % modulus
    BY <1>2, <1>4
  <2>2. n + j \in Nat /\ (n + 1) + j = (n + j) + 1
    OBVIOUS
  <2>3. P[(n + 1) + j] = (base * ((u * v) % modulus)) % modulus
    BY <1>1, <2>1, <2>2
  <2>4. P[n + 1] = (base * u) % modulus
    BY <1>1
  <2> HIDE DEF u, v
  <2>5. (base * ((u * v) % modulus)) % modulus = ((u * v) * base) % modulus
    <3> DEFINE w == u * v
               r == w % modulus
    <3>1. w \in Nat /\ r \in Nat
      BY <2>1
    <3>2. (r * base) % modulus = (w * base) % modulus
      BY <3>1, RemainderOfProduct DEF r
    <3> HIDE DEF r
    <3>3. base * r = r * base
      BY <3>1
    <3> QED
      BY <3>2, <3>3 DEF r
  <2>6. (((base * u) % modulus) * v) % modulus = ((base * u) * v) % modulus
    <3> DEFINE w == base * u
    <3>1. w \in Nat
      BY <2>1
    <3> HIDE DEF w
    <3>2. ((w % modulus) * v) % modulus = (w * v) % modulus
      BY <2>1, <3>1, RemainderOfProduct
    <3> QED
      BY <3>2 DEF w
  <2>7. (u * v) * base = (base * u) * v
    BY <2>1
  <2>8. P[(n + 1) + j] = (P[n + 1] * v) % modulus
    BY <2>3, <2>4, <2>5, <2>6, <2>7
  <2> QED
    BY <2>8 DEF v
<1> HIDE DEF S
<1>5. \A n \in Nat : n \in S
  BY <1>3, <1>4, SetInduction
<1> QED
  BY <1>5 DEF S, P

\* A power of a power is one power.
LEMMA PowerOfPower ==
  ASSUME NEW base \in Nat, NEW modulus \in Nat \ {0}, NEW h \in Nat, NEW k \in Nat
  PROVE  Powers(Powers(base, modulus)[h], modulus)[k] = Powers(base, modulus)[h * k]
<1> DEFINE P == Powers(base, modulus)
           b == P[h]
           Q == Powers(b, modulus)
           S == {n \in Nat : Q[n] = P[h * n]}
<1>1. P[0] = 1 % modulus /\ b \in Nat
  <2>1. P \in [Nat -> 0 .. (modulus - 1)] /\ P[0] = 1 % modulus
    BY PowersDefined
  <2> HIDE DEF P
  <2> QED
    BY <2>1
<1>2. \A j \in Nat : P[h + j] = (b * P[j]) % modulus
  BY PowerOfSum
<1> HIDE DEF P, b
<1>3. Q[0] = 1 % modulus /\ \A n \in Nat : Q[n + 1] = (b * Q[n]) % modulus
  BY <1>1, PowersDefined
<1> HIDE DEF Q
<1>4. 0 \in S
  <2>1. h * 0 = 0
    OBVIOUS
  <2> QED
    BY <1>1, <1>3, <2>1
<1>5. ASSUME NEW n \in Nat, n \in S
      PROVE  n + 1 \in S
  <2>1. h * n \in Nat /\ h * (n + 1) = h + h * n
    OBVIOUS
  <2>2. Q[n] = P[h * n]
    BY <1>5
  <2>3. Q[n + 1] = (b * P[h * n]) % modulus
    BY <1>3, <2>2
  <2>4. P[h + h * n] = (b * P[h * n]) % modulus
    BY <1>2, <2>1
  <2> QED
    BY <2>1, <2>3, <2>4
<1> HIDE DEF S
<1>6. \A n \in Nat : n \in S
  BY <1>4, <1>5, SetInduction
<1> QED
  BY <1>6 DEF S, Q, b, P

\* So powers of powers commute.
THEOREM PowersCommute ==
  ASSUME NEW base \in Nat, NEW modulus \in Nat \ {0}, NEW h \in Nat, NEW k \in Nat
  PROVE  Powers(Powers(base, modulus)[h], modulus)[k] =
           Powers(Powers(base, modulus)[k], modulus)[h]
<1>1. h * k = k * h
  OBVIOUS
<1> QED
  BY <1>1, PowerOfPower
-----------------------------------------------------------------------------
\* Powers of two.

\* A set with one more element has twice as many subsets.
LEMMA SubsetsDouble ==
  ASSUME NEW S, IsFiniteSet(S), NEW y, y \notin S
  PROVE  Cardinality(SUBSET (S \cup {y})) = 2 * Cardinality(SUBSET S)
<1> DEFINE With == {T \cup {y} : T \in SUBSET S}
           f == [T \in SUBSET S |-> T \cup {y}]
<1>1. IsFiniteSet(SUBSET S)
  BY FS_SUBSET
<1>2. f \in [SUBSET S -> With]
  OBVIOUS
<1>3. \A a, b \in SUBSET S : f[a] = f[b] => a = b
  OBVIOUS
<1>4. \A t \in With : \E s \in SUBSET S : f[s] = t
  OBVIOUS
<1> HIDE DEF f
<1>5. f \in Bijection(SUBSET S, With)
  BY <1>2, <1>3, <1>4, Fun_IsBij
<1>6. ExistsBijection(SUBSET S, With)
  BY <1>5 DEF ExistsBijection
<1> HIDE DEF With
<1>7. IsFiniteSet(With) /\ Cardinality(With) = Cardinality(SUBSET S)
  BY <1>1, <1>6, FS_Bijection
<1>8. (SUBSET S) \cap With = {}
  BY DEF With
<1>9. SUBSET (S \cup {y}) = (SUBSET S) \cup With
  <2>1. ASSUME NEW T \in SUBSET (S \cup {y}), y \in T
        PROVE  T \in With
    <3>1. T \ {y} \in SUBSET S /\ T = (T \ {y}) \cup {y}
      BY <2>1
    <3> QED
      BY <3>1 DEF With
  <2>2. ASSUME NEW T \in SUBSET (S \cup {y}), y \notin T
        PROVE  T \in SUBSET S
    BY <2>2
  <2>3. ASSUME NEW T \in With
        PROVE  T \in SUBSET (S \cup {y})
    BY DEF With
  <2> QED
    BY <2>1, <2>2, <2>3
<1>10. Cardinality((SUBSET S) \cup With) =
         Cardinality(SUBSET S) + Cardinality(With) - Cardinality((SUBSET S) \cap With)
  BY <1>1, <1>7, FS_Union
<1>11. Cardinality((SUBSET S) \cap With) = 0
  BY <1>8, FS_EmptySet
<1>12. Cardinality(SUBSET S) \in Nat
  BY <1>1, FS_CardinalityType
<1>13. Cardinality(SUBSET (S \cup {y})) = Cardinality(SUBSET S) + Cardinality(SUBSET S) - 0
  <2>1. Cardinality(SUBSET (S \cup {y})) = Cardinality((SUBSET S) \cup With)
    BY <1>9
  <2> QED
    BY ONLY <1>7, <1>10, <1>11, <2>1
<1> QED
  BY ONLY <1>12, <1>13

\* So 2^n, of which the provers know no more than that it counts the subsets of
\* n elements, doubles with every step.
LEMMA TwoToThe ==
  /\ 2^0 = 1
  /\ \A n \in Nat : 2^n \in Nat \ {0} /\ 2^(n + 1) = 2 * 2^n
<1>1. 2^0 = 1
  OBVIOUS
<1>2. \A n \in Nat : IsFiniteSet(1 .. n) /\ Cardinality(1 .. n) = n
  <2> TAKE n \in Nat
  <2>1. IsFiniteSet(1 .. n) /\ Cardinality(1 .. n) = IF 1 > n THEN 0 ELSE n - 1 + 1
    BY FS_Interval
  <2> QED
    BY <2>1
<1>3. \A n \in Nat : Cardinality(SUBSET (1 .. n)) = 2^n /\ 2^n \in Nat
  <2> TAKE n \in Nat
  <2>1. IsFiniteSet(SUBSET (1 .. n)) /\ Cardinality(SUBSET (1 .. n)) = 2^Cardinality(1 .. n)
    BY <1>2, FS_SUBSET
  <2> QED
    BY <1>2, <2>1, FS_CardinalityType
<1>4. \A n \in Nat : 2^(n + 1) = 2 * 2^n
  <2> TAKE n \in Nat
  <2>1. 1 .. (n + 1) = (1 .. n) \cup {n + 1} /\ n + 1 \notin 1 .. n /\ n + 1 \in Nat
    OBVIOUS
  <2>2. Cardinality(SUBSET (1 .. (n + 1))) = 2 * Cardinality(SUBSET (1 .. n))
    BY <1>2, <2>1, SubsetsDouble
  <2> QED
    BY <1>3, <2>1, <2>2
<1> DEFINE S == {n \in Nat : 2^n # 0}
<1>5. 0 \in S
  BY <1>1
<1>6. \A n \in Nat : n \in S => n + 1 \in S
  BY <1>3, <1>4
<1> HIDE DEF S
<1>7. \A n \in Nat : n \in S
  BY <1>5, <1>6, SetInduction
<1> QED
  BY <1>1, <1>3, <1>4, <1>7 DEF S

\* 2^(m + n) is a product.
LEMMA TwoToTheSum ==
  ASSUME NEW m \in Nat, NEW n \in Nat
  PROVE  2^(m + n) = 2^m * 2^n
<1> DEFINE S == {k \in Nat : 2^(m + k) = 2^m * 2^k}
<1>1. 0 \in S
  BY TwoToThe
<1>2. ASSUME NEW k \in Nat, k \in S
      PROVE  k + 1 \in S
  <2>1. m + (k + 1) = (m + k) + 1 /\ m + k \in Nat
    OBVIOUS
  <2>2. 2^(m + (k + 1)) = 2 * 2^(m + k)
    BY <2>1, TwoToThe
  <2>3. 2^(k + 1) = 2 * 2^k
    BY TwoToThe
  <2>4. 2^(m + k) = 2^m * 2^k
    BY <1>2
  <2>5. 2^m \in Nat /\ 2^k \in Nat
    BY TwoToThe
  <2>6. \A a, b \in Nat : 2 * (a * b) = a * (2 * b)
    OBVIOUS
  <2>7. 2^(m + (k + 1)) = 2^m * 2^(k + 1)
    BY <2>2, <2>3, <2>4, <2>5, <2>6
  <2> QED
    BY <2>7
<1> HIDE DEF S
<1>3. \A k \in Nat : k \in S
  BY <1>1, <1>2, SetInduction
<1> QED
  BY <1>3 DEF S

\* n has a number of bits.
LEMMA BitsExist ==
  ASSUME NEW n \in Nat \ {0}
  PROVE  \E b \in 1 .. n : 2^(b - 1) <= n /\ n < 2^b
<1> DEFINE S == {k \in Nat : k < 2^k}
           T == {k \in Nat : n < 2^k}
<1>1. 0 \in S
  BY TwoToThe
<1>2. \A k \in Nat : k \in S => k + 1 \in S
  BY TwoToThe
<1> HIDE DEF S
<1>3. \A k \in Nat : k \in S
  BY <1>1, <1>2, SetInduction
<1>4. n \in T
  BY <1>3 DEF S
<1> HIDE DEF T
<1>5. PICK b \in T : \A m \in T : b <= m
  BY <1>4, LeastNatural DEF T
<1>6. b \in Nat /\ n < 2^b /\ b <= n
  BY <1>4, <1>5 DEF T
<1>7. b # 0
  <2> SUFFICES ASSUME b = 0
               PROVE  FALSE
    OBVIOUS
  <2>1. 2^b = 1
    BY TwoToThe
  <2> QED
    BY <1>6, <2>1
<1>8. b - 1 \in Nat /\ b - 1 \notin T
  BY <1>5, <1>6, <1>7
<1>9. 2^(b - 1) <= n
  BY <1>8, TwoToThe DEF T
<1> QED
  BY <1>6, <1>7, <1>9
-----------------------------------------------------------------------------
\* Numbers of two digits.

\* Quotient and remainder of a number that is given by them.
LEMMA DigitsOf ==
  ASSUME NEW m \in Nat \ {0}, NEW h \in Nat, NEW l \in 0 .. (m - 1), NEW k, k = m * h + l
  PROVE  k \in Nat /\ k \div m = h /\ k % m = l
<1>1. k \in Nat
  OBVIOUS
<1>2. k = m * (k \div m) + (k % m) /\ k % m \in 0 .. (m - 1) /\ k \div m \in Nat
  BY <1>1
<1> DEFINE a == k \div m
           b == k % m
<1>3. a \in Int /\ b \in 0 .. (m - 1) /\ m * a + b = m * h + l
  BY <1>2
<1> HIDE DEF a, b
<1>4. a = h /\ b = l
  BY <1>3, RemainderUnique
<1> QED
  BY <1>1, <1>4 DEF a, b

\* Which numbers have such digits.
LEMMA DigitsFit ==
  ASSUME NEW m \in Nat \ {0}, NEW n \in Nat \ {0}, NEW h \in Nat, NEW l \in 0 .. (m - 1)
  PROVE  m * h + l \in 0 .. (n * m - 1) <=> h \in 0 .. (n - 1)
<1>1. h <= n - 1 => m * h <= m * (n - 1)
  <2>1. m * ((n - 1) - h) = m * (n - 1) - m * h
    OBVIOUS
  <2>2. ASSUME h <= n - 1
        PROVE  m * ((n - 1) - h) >= 0
    BY <2>2
  <2>3. m * h \in Nat /\ m * (n - 1) \in Nat
    OBVIOUS
  <2> QED
    BY <2>1, <2>2, <2>3
<1>2. h >= n => m * h >= m * n
  <2>1. m * (h - n) = m * h - m * n
    OBVIOUS
  <2>2. ASSUME h >= n
        PROVE  m * (h - n) >= 0
    BY <2>2
  <2>3. m * h \in Nat /\ m * n \in Nat
    OBVIOUS
  <2> QED
    BY <2>1, <2>2, <2>3
<1>3. m * (n - 1) = m * n - m /\ n * m = m * n
  OBVIOUS
<1>4. m * h \in Nat /\ m * n \in Nat
  OBVIOUS
<1> DEFINE mh == m * h
           mn == m * n
<1>5. /\ h <= n - 1 => mh <= mn - m
      /\ h >= n => mh >= mn
      /\ mh \in Nat /\ mn \in Nat /\ n * m = mn
  BY <1>1, <1>2, <1>3, <1>4
<1> HIDE DEF mh, mn
<1>6. mh + l \in 0 .. (mn - 1) <=> h \in 0 .. (n - 1)
  BY <1>5
<1> QED
  BY <1>5, <1>6 DEF mh

\* The pairs of digits that make a number in T when the first is divided by e.
DrawsInto(T, e, m, n) ==
  {d \in (0 .. (n * e - 1)) \X (0 .. (m - 1)) : (d[1] \div e) * m + d[2] \in T}

\* Each number is made of e pairs, so a set of them of e times as many.
LEMMA EachValueAlike ==
  ASSUME NEW e \in Nat \ {0}, NEW m \in Nat \ {0}, NEW n \in Nat \ {0},
         NEW T \in SUBSET (0 .. (n * m - 1))
  PROVE  Cardinality(DrawsInto(T, e, m, n)) = Cardinality(T) * e
<1> DEFINE D == DrawsInto(T, e, m, n)
           P == T \X (0 .. (e - 1))
           g == [t \in P |-> <<e * (t[1] \div m) + t[2], t[1] % m>>]
<1>1. \A v \in T : /\ v \in Nat /\ v \div m \in 0 .. (n - 1) /\ v % m \in 0 .. (m - 1)
                   /\ v = m * (v \div m) + (v % m)
  <2> TAKE v \in T
  <2>1. v \in 0 .. (n * m - 1) /\ v \in Nat
    OBVIOUS
  <2>2. v = m * (v \div m) + (v % m) /\ v % m \in 0 .. (m - 1) /\ v \div m \in Nat
    BY <2>1
  <2>3. v \div m \in 0 .. (n - 1)
    BY <2>1, <2>2, DigitsFit
  <2> QED
    BY <2>1, <2>2, <2>3
<1>2. ASSUME NEW h \in 0 .. (n - 1), NEW r \in 0 .. (e - 1)
      PROVE  /\ e * h + r \in 0 .. (n * e - 1)
             /\ (e * h + r) \div e = h /\ (e * h + r) % e = r
  <2>1. h \in Nat
    OBVIOUS
  <2> QED
    BY <2>1, DigitsOf, DigitsFit
<1>3. ASSUME NEW v \in T, NEW r \in 0 .. (e - 1)
      PROVE  /\ <<v, r>> \in P /\ g[<<v, r>>] = <<e * (v \div m) + r, v % m>>
             /\ g[<<v, r>>] \in D
  <2> DEFINE h == v \div m
             l == v % m
  <2>1. <<v, r>> \in P /\ g[<<v, r>>] = <<e * h + r, l>>
    OBVIOUS
  <2>2. h \in 0 .. (n - 1) /\ l \in 0 .. (m - 1) /\ v = m * h + l
    BY <1>1
  <2> HIDE DEF h, l, P, g
  <2>3. e * h + r \in 0 .. (n * e - 1) /\ (e * h + r) \div e = h
    BY <1>2, <2>2
  <2>4. h * m + l = v
    BY <2>2
  <2> DEFINE a == e * h + r
  <2>5. a \in 0 .. (n * e - 1) /\ a \div e = h
    BY <2>3
  <2> HIDE DEF a
  <2>6. <<a, l>> \in D
    BY <2>2, <2>4, <2>5 DEF DrawsInto
  <2> QED
    BY <2>1, <2>6 DEF a, h, l
<1>4. g \in [P -> D]
  <2>1. \A t \in P : \E v \in T, r \in 0 .. (e - 1) : t = <<v, r>>
    <3> TAKE t \in P
    <3>1. t[1] \in T /\ t[2] \in 0 .. (e - 1) /\ t = <<t[1], t[2]>>
      OBVIOUS
    <3> QED
      BY <3>1
  <2>2. \A t \in P : g[t] \in D
    BY <1>3, <2>1
  <2>3. g = [t \in P |-> g[t]]
    OBVIOUS
  <2> HIDE DEF g, P, D
  <2> QED
    BY <2>2, <2>3
<1>5. ASSUME NEW v \in T, NEW r \in 0 .. (e - 1), NEW w \in T, NEW s \in 0 .. (e - 1),
             g[<<v, r>>] = g[<<w, s>>]
      PROVE  v = w /\ r = s
  <2> DEFINE h == v \div m
             j == w \div m
  <2>1. h \in 0 .. (n - 1) /\ v = m * h + (v % m) /\ j \in 0 .. (n - 1) /\ w = m * j + (w % m)
    BY <1>1
  <2>2. e * h + r = e * j + s /\ v % m = w % m
    BY <1>3, <1>5
  <2> HIDE DEF h, j
  <2>3. h = j /\ r = s
    BY <2>1, <2>2, RemainderUnique
  <2> QED
    BY <2>1, <2>2, <2>3
<1>6. \A d \in D : \E t \in P : g[t] = d
  <2> SUFFICES ASSUME NEW d \in D
               PROVE  \E t \in P : g[t] = d
    OBVIOUS
  <2> DEFINE a == d[1]
             l == d[2]
  <2>1. /\ a \in 0 .. (n * e - 1) /\ l \in 0 .. (m - 1)
        /\ (a \div e) * m + l \in T /\ d = <<a, l>>
    BY DEF DrawsInto
  <2> HIDE DEF a, l
  <2> DEFINE h == a \div e
             r == a % e
             v == h * m + l
  <2>2. a \in Nat
    BY <2>1
  <2>3. a = e * h + r /\ r \in 0 .. (e - 1) /\ h \in Nat
    BY <2>2
  <2>4. v \in T
    BY <2>1
  <2> HIDE DEF h, r
  <2>5. v = m * h + l
    BY <2>3
  <2> HIDE DEF v
  <2>6. v \div m = h /\ v % m = l
    BY <2>1, <2>3, <2>5, DigitsOf
  <2>7. <<v, r>> \in P /\ g[<<v, r>>] = <<e * (v \div m) + r, v % m>>
    BY <1>3, <2>3, <2>4
  <2> HIDE DEF g, P
  <2> QED
    BY <2>1, <2>3, <2>6, <2>7
<1>7. \A s, t \in P : g[s] = g[t] => s = t
  <2>1. \A t \in P : \E v \in T, r \in 0 .. (e - 1) : t = <<v, r>>
    <3> TAKE t \in P
    <3>1. t[1] \in T /\ t[2] \in 0 .. (e - 1) /\ t = <<t[1], t[2]>>
      OBVIOUS
    <3> QED
      BY <3>1
  <2> HIDE DEF g, P
  <2> QED
    BY <1>5, <2>1
<1> HIDE DEF g
<1>8. ExistsBijection(P, D)
  <2> HIDE DEF P, D
  <2>1. g \in Bijection(P, D)
    BY <1>4, <1>6, <1>7, Fun_IsBij
  <2> QED
    BY <2>1 DEF ExistsBijection
<1>9. IsFiniteSet(T)
  <2>1. n * m - 1 \in Int
    OBVIOUS
  <2>2. IsFiniteSet(0 .. (n * m - 1))
    BY <2>1, FS_Interval
  <2> QED
    BY <2>2, FS_Subset
<1>10. IsFiniteSet(0 .. (e - 1)) /\ Cardinality(0 .. (e - 1)) = e
  <2>1. e - 1 \in Int /\ 0 \in Int /\ ~(0 > e - 1) /\ (e - 1) - 0 + 1 = e
    OBVIOUS
  <2> QED
    BY <2>1, FS_Interval
<1>11. IsFiniteSet(P) /\ Cardinality(P) = Cardinality(T) * e
  BY <1>9, <1>10, FS_Product
<1> HIDE DEF P, D
<1>12. Cardinality(D) = Cardinality(P)
  BY <1>8, <1>11, FS_Bijection
<1> QED
  BY <1>11, <1>12 DEF D
=============================================================================
