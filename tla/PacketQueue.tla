---------------------------- MODULE PacketQueue ----------------------------
(***************************************************************************)
(* What one direction of an established transport promises its users: a    *)
(* queue.  Payloads come out whole, in the order they went in, none twice  *)
(* and none left out; the queue may stop giving, but never gives wrongly.  *)
(***************************************************************************)
EXTENDS Naturals, Sequences

CONSTANT Lengths \* the payload lengths a user may send

VARIABLES
  in,  \* the payloads given to send_packet
  out  \* the payloads read_packet has returned

queue == <<in, out>>

Payload(id, len) == [id |-> id, len |-> len]

Init == in = <<>> /\ out = <<>>

Put == /\ \E len \in Lengths : in' = Append(in, Payload(Len(in) + 1, len))
       /\ UNCHANGED out

Take == /\ Len(out) < Len(in)
        /\ out' = Append(out, in[Len(out) + 1])
        /\ UNCHANGED in

Next == Put \/ Take

Spec == Init /\ [][Next]_queue
=============================================================================
