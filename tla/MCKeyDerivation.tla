-------------------------- MODULE MCKeyDerivation --------------------------
(***************************************************************************)
(* The program's own lengths.                                              *)
(***************************************************************************)
EXTENDS KeyDerivation

Aes == [aes128 |-> 16, aes192 |-> 24, aes256 |-> 32]
Hmac == [sha256 |-> 32, sha512 |-> 64]
=============================================================================
