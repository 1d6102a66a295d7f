---------------------------- MODULE Negotiation ----------------------------
(***************************************************************************)
(* Algorithm negotiation: the KEXINIT proposals (messages.rs), the tables  *)
(* of names the program can parse (negotiation.rs) and the rule that picks *)
(* one name per slot (pkg/mod.rs).  A proposal ("offer") is a function     *)
(* from slots to name lists.  The two language lists and kex_follow are    *)
(* carried by KEXINIT but no code reads them, so they are left out.        *)
(***************************************************************************)
EXTENDS Naturals, Sequences, Functions

Slots == {"kex", "host_key", "enc_c2s", "enc_s2c",
          "mac_c2s", "mac_s2c", "comp_c2s", "comp_s2c"}

KexNames == {"diffie-hellman-group14-sha256", "diffie-hellman-group15-sha512",
             "diffie-hellman-group16-sha512", "diffie-hellman-group17-sha512",
             "diffie-hellman-group18-sha512"}
CipherNames == {"aes128-ctr", "aes192-ctr", "aes256-ctr"}
MacNames == {"hmac-sha2-256", "hmac-sha2-512"}

\* The names each slot's from_str accepts.
Known ==
  [kex     |-> KexNames,    host_key |-> {"ssh-ed25519"},
   enc_c2s |-> CipherNames, enc_s2c  |-> CipherNames,
   mac_c2s |-> MacNames,    mac_s2c  |-> MacNames,
   comp_c2s |-> {"none"},   comp_s2c |-> {"none"}]

\* KexInit::default_transport: what this program proposes in either role.
DefaultOffer ==
  LET ciphers == <<"aes128-ctr", "aes192-ctr", "aes256-ctr">>
      macs    == <<"hmac-sha2-256", "hmac-sha2-512">>
  IN  [kex |-> <<"diffie-hellman-group14-sha256", "diffie-hellman-group15-sha512",
                 "diffie-hellman-group16-sha512", "diffie-hellman-group17-sha512",
                 "diffie-hellman-group18-sha512">>,
       host_key |-> <<"ssh-ed25519">>,
       enc_c2s  |-> ciphers,    enc_s2c  |-> ciphers,
       mac_c2s  |-> macs,       mac_s2c  |-> macs,
       comp_c2s |-> <<"none">>, comp_s2c |-> <<"none">>]

-----------------------------------------------------------------------------
\* select_first_match: the client's list is scanned in order, and the first
\* name the server's list contains anywhere wins.
HasMatch(client, server) == Range(client) \cap Range(server) # {}

FirstMatch(client, server) ==
  LET first == CHOOSE i \in DOMAIN client :
                 /\ client[i] \in Range(server)
                 /\ \A j \in 1 .. (i - 1) : client[j] \notin Range(server)
  IN  client[first]

\* client_negotiate returns Ok: in every slot there is a common name and
\* from_str parses the one selected (a later common name is not tried).
Negotiable(client, server) ==
  \A slot \in Slots : /\ HasMatch(client[slot], server[slot])
                      /\ FirstMatch(client[slot], server[slot]) \in Known[slot]

client_negotiate(client, server) ==
  [slot \in Slots |-> FirstMatch(client[slot], server[slot])]

\* Mutant: the server takes its own list for the client's.
server_negotiateSwapped(client, server) == client_negotiate(server, client)

\* The server runs the same function on the same argument order.
server_negotiate(client, server) == client_negotiate(client, server)

Negotiated == {n \in [Slots -> UNION {Known[slot] : slot \in Slots}] :
                 \A slot \in Slots : n[slot] \in Known[slot]}
=============================================================================
