---------------------------- MODULE MCTransport ----------------------------
(***************************************************************************)
(* Values for TLC: small safe primes (11 has the secrets 2, 3 and 4, 7 has *)
(* only 2), proposals that agree, disagree, or agree on a name no end can  *)
(* parse, and the program's own proposal.                                  *)
(***************************************************************************)
EXTENDS Transport

MCDhPrime ==
  [kex \in KexNames |-> IF kex = "diffie-hellman-group14-sha256" THEN 11 ELSE 7]

ClientLine == "SSH-2.0-mssh_1.0"
OtherLine == "SSH-2.0-other"
OldLine == "SSH-1.99-other"
MCIds == {ClientLine, OtherLine, OldLine}
MCOwnId == [p \in Roles |-> ClientLine]

\* Prefers other ciphers and groups than the default.
Reordered ==
  [DefaultOffer EXCEPT !["kex"] = <<"diffie-hellman-group15-sha512", "diffie-hellman-group14-sha256">>,
                       !["enc_c2s"] = <<"aes256-ctr", "aes128-ctr">>,
                       !["mac_s2c"] = <<"hmac-sha2-512", "hmac-sha2-256">>]
\* No mac in common with the default.
OldMac == [DefaultOffer EXCEPT !["mac_c2s"] = <<"hmac-sha1">>]
\* Two of these agree on a name from_str does not know, before one it does.
Newer == [DefaultOffer EXCEPT !["kex"] = <<"curve25519-sha256", "diffie-hellman-group14-sha256">>]

\* Bounds on send_packet.
NoSends == [p \in Roles |-> 0]
FewSends == [client |-> 2, server |-> 1]
\* Two failed sends, the one they cost the reader, and one it accepts again.
ClientSends == [client |-> 4, server |-> 0]

SameOffers == {DefaultOffer}
SameOwnOffers == [p \in Roles |-> SameOffers]
TwoOffers == {DefaultOffer, Reordered}
TwoOwnOffers == [p \in Roles |-> TwoOffers]
AllOffers == {DefaultOffer, Reordered, OldMac, Newer}
AllOwnOffers == [p \in Roles |-> AllOffers]
=============================================================================
