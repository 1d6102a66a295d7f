--------------------------- MODULE SecureChannel ---------------------------
(***************************************************************************)
(* What a transport promises the owners of its two ends: the server offers *)
(* one session, the client adopts that session or none, and what comes out *)
(* of an open end is a prefix of what went into the other end of the same  *)
(* session.  An end may leave at any time, and an offer may be lost.       *)
(***************************************************************************)
EXTENDS Naturals, Sequences

CONSTANTS
  Sessions, \* the sessions there can be
  None      \* no session

VARIABLES
  phase,   \* phase[p]: "opening", "agreed", "ready" or "left"
  offer,   \* the session the server has offered
  session, \* session[p]: the session p is in
  sent,    \* sent[p]: how many payloads p has sent
  got      \* got[p]: the numbers of the payloads p has received

channel == <<phase, offer, session, sent, got>>

Ends == {"client", "server"}
Other(p) == IF p = "client" THEN "server" ELSE "client"

Init ==
  /\ phase = [p \in Ends |-> "opening"]
  /\ offer = None
  /\ session = [p \in Ends |-> None]
  /\ sent = [p \in Ends |-> 0]
  /\ got = [p \in Ends |-> <<>>]

Enter(p, where, s) == /\ phase' = [phase EXCEPT ![p] = where]
                      /\ session' = [session EXCEPT ![p] = s]

\* The server may fail in the attempt.
Offer ==
  /\ phase["server"] = "opening" /\ offer = None
  /\ offer' \in Sessions
  /\ Enter("server", "agreed", offer') \/ Enter("server", "left", None)
  /\ UNCHANGED <<sent, got>>

Lose == offer' = None /\ UNCHANGED <<phase, session, sent, got>>

Adopt ==
  /\ phase["client"] = "opening" /\ offer # None
  /\ Enter("client", "agreed", offer)
  /\ UNCHANGED <<offer, sent, got>>

\* An end opens once the other has agreed too, or has left.
OpenUp(p) ==
  /\ phase[p] = "agreed" /\ phase[Other(p)] # "opening"
  /\ Enter(p, "ready", session[p])
  /\ UNCHANGED <<offer, sent, got>>

Leave(p) ==
  /\ phase[p] # "left"
  /\ Enter(p, "left", None)
  /\ UNCHANGED <<offer, sent, got>>

Send(p) ==
  /\ phase[p] = "ready"
  /\ sent' = [sent EXCEPT ![p] = @ + 1]
  /\ UNCHANGED <<phase, offer, session, got>>

Deliver(p) ==
  /\ phase[p] = "ready"
  /\ phase[Other(p)] = "left" \/ session[Other(p)] = session[p]
  /\ Len(got[p]) < sent[Other(p)]
  /\ got' = [got EXCEPT ![p] = Append(@, Len(@) + 1)]
  /\ UNCHANGED <<phase, offer, session, sent>>

Next ==
  \/ Offer \/ Lose \/ Adopt
  \/ \E p \in Ends : OpenUp(p) \/ Leave(p) \/ Send(p) \/ Deliver(p)

Spec == Init /\ [][Next]_channel
=============================================================================
