---------------------------- MODULE KeyExchange ----------------------------
(***************************************************************************)
(* The cryptographic operations of the key exchange, symbolically.         *)
(* Diffie-Hellman is the real arithmetic over small safe primes; hashes,   *)
(* signatures and derived keys are records of everything they depend on,   *)
(* so two of them are equal exactly when all their inputs are.             *)
(***************************************************************************)
EXTENDS Integers, Negotiation

CONSTANTS
  DhPrime,    \* the prime p of each key exchange method, a safe prime
  HostKeys,   \* the host keys a server may be given
  Nobody      \* the signer of a signature that verifies under no key

ASSUME PrimeAssumption == /\ DOMAIN DhPrime = KexNames
                          /\ \A kex \in KexNames : DhPrime[kex] \in Nat \ {0}
ASSUME NobodyAssumption == Nobody \notin HostKeys

-----------------------------------------------------------------------------
\* dh.rs: g = 2, q = (p - 1) / g, a secret is drawn from 2 <= x < q.
Generator == 2
DhOrder(kex) == (DhPrime[kex] - 1) \div Generator
DhSecrets(kex) == 2 .. (DhOrder(kex) - 1)

\* base ^ exponent modulo modulus, as repeated multiplication: a definition by
\* "^" could only be evaluated.
ModPow(base, exponent, modulus) ==
  LET power[n \in Nat] == IF n = 0 THEN 1 % modulus ELSE (base * power[n - 1]) % modulus
  IN  power[exponent]
PublicValue(kex, secret) == ModPow(Generator, secret, DhPrime[kex])
SharedKey(kex, public, secret) == ModPow(public, secret, DhPrime[kex])

\* hash_len: SHA-256 for group 14, SHA-512 for the others.
HashLen(kex) == IF kex = "diffie-hellman-group14-sha256" THEN 32 ELSE 64

\* generate_exchange_hash over the eight fields, in the order they are hashed.
ExchangeHash(kex, v_c, v_s, i_c, i_s, k_s, e, f, k) ==
  [len |-> HashLen(kex), v_c |-> v_c, v_s |-> v_s, i_c |-> i_c, i_s |-> i_s,
   k_s |-> k_s, e |-> e, f |-> f, k |-> k]

\* sign_exchange_hash and verify_exchange_hash_signature (ed25519).
Sign(host_key, hash) == [key |-> host_key, over |-> hash]

\* Mutant: the signature is checked, but not what it is over.
VerifiesSigner(host_key, hash, signature) == signature.key = host_key

Verifies(host_key, hash, signature) == signature = Sign(host_key, hash)

\* Mutant: the letters of one direction serve both.
DerivedKeyOneDirection(dir, negotiated, k, hash) ==
  [dir |-> "c2s", cipher |-> negotiated["enc_c2s"], mac |-> negotiated["mac_c2s"],
   k |-> k, hash |-> hash]

\* derive_keys: letters A, C, E give the client-to-server iv, cipher key and
\* mac key, B, D, F the server-to-client ones; all six from (k, hash), the
\* session id being the hash itself in the first and only key exchange.
DerivedKey(dir, negotiated, k, hash) ==
  [dir |-> dir,
   cipher |-> negotiated[IF dir = "c2s" THEN "enc_c2s" ELSE "enc_s2c"],
   mac    |-> negotiated[IF dir = "c2s" THEN "mac_c2s" ELSE "mac_s2c"],
   k |-> k, hash |-> hash]
=============================================================================
