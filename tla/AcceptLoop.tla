----------------------------- MODULE AcceptLoop -----------------------------
(***************************************************************************)
(* The server binary (bin/server.rs): one thread that accepts connections  *)
(* and runs the handshake of each to its end before it accepts the next.   *)
(* The handshake is that of Transport, reduced to its four receive calls;  *)
(* clients are honest, or stop speaking, or send what does not parse, or   *)
(* send the KEXINIT whose parsing panics.                                  *)
(***************************************************************************)
EXTENDS Naturals, Sequences

CONSTANTS
  Clients,       \* each connects once
  Silent,        \* those that may stop speaking and still hold the connection
  Faulty,        \* those that may send what a handler refuses
  Crashing,      \* those whose KEXINIT ends before kex_follow
  NoClient,
  Backlog,       \* connections the listener queues
  MaxSetupErrors \* bound: failures of try_clone or of the random number generator

ASSUME AcceptAssumption ==
  /\ Silent \subseteq Clients /\ Faulty \subseteq Clients /\ Crashing \subseteq Clients
  /\ NoClient \notin Clients
  /\ Backlog \in Nat /\ MaxSetupErrors \in Nat

VARIABLES
  up,          \* the process runs
  queue,       \* connections not yet accepted, oldest first
  serving,     \* the connection handle_connection is working on
  connected,   \* connected[c]: c holds its end open
  inbox,       \* inbox[c]: what c has sent and the server not read
  handled,     \* handled[c]: how many of its messages the server has taken
  result,      \* result[c]: what has become of c's connection
  setupErrors  \* how often handle_connection failed before it read anything

vars == <<up, queue, serving, connected, inbox, handled, result, setupErrors>>

\* Identification line, KEXINIT, KEXDH_INIT and NEWKEYS.
Calls == 4
Honest == Clients \ (Silent \cup Faulty \cup Crashing)

-----------------------------------------------------------------------------
\* The clients.

Connect(c) ==
  /\ up /\ Len(queue) < Backlog
  /\ result[c] = "away"
  /\ queue' = Append(queue, c)
  /\ connected' = [connected EXCEPT ![c] = TRUE]
  /\ result' = [result EXCEPT ![c] = "pending"]
  /\ UNCHANGED <<up, serving, inbox, handled, setupErrors>>

\* A client sends its next message when it has the answer to the last; the
\* line needs no answer to anything, and may wait in a queued connection.
Says(c) ==
  {"good"} \cup (IF c \in Faulty THEN {"bad"} ELSE {})
           \cup (IF c \in Crashing /\ handled[c] = 1 THEN {"short"} ELSE {})

Speak(c) ==
  /\ connected[c] /\ inbox[c] = "nothing" /\ handled[c] < Calls
  /\ result[c] = "pending"
  /\ \E what \in Says(c) : inbox' = [inbox EXCEPT ![c] = what]
  /\ UNCHANGED <<up, queue, serving, connected, handled, result, setupErrors>>

\* An honest client leaves after its NEWKEYS, not waiting for them to be read.
HangUp(c) ==
  /\ connected[c]
  /\ c \in Honest => \/ handled[c] = Calls - 1 /\ inbox[c] # "nothing"
                     \/ result[c] # "pending"
  /\ connected' = [connected EXCEPT ![c] = FALSE]
  /\ UNCHANGED <<up, queue, serving, inbox, handled, result, setupErrors>>

-----------------------------------------------------------------------------
\* The server.

\* listener.incoming() yields a stream.
Accept ==
  /\ up /\ serving = NoClient /\ queue # <<>>
  /\ serving' = Head(queue)
  /\ queue' = Tail(queue)
  /\ UNCHANGED <<up, connected, inbox, handled, result, setupErrors>>

\* It yields Err: the oldest connection was aborted while it was queued.  The
\* loop goes on.
AcceptError ==
  /\ up /\ serving = NoClient /\ queue # <<>> /\ ~connected[Head(queue)]
  /\ queue' = Tail(queue)
  /\ result' = [result EXCEPT ![Head(queue)] = "refused"]
  /\ UNCHANGED <<up, serving, connected, inbox, handled, setupErrors>>

\* Mutant: the loop returns the Err of a connection.
ReturnEnds(outcome) ==
  /\ serving' = NoClient
  /\ up' = (outcome # "refused")
  /\ result' = [c \in Clients |-> IF c = serving THEN outcome
                                 ELSE IF outcome = "refused" /\ result[c] = "pending" THEN "lost"
                                 ELSE result[c]]
  /\ UNCHANGED <<queue, connected>>
\* handle_connection returns, and its stream is dropped; an Err is only printed.
Return(outcome) ==
  /\ serving' = NoClient
  /\ result' = [result EXCEPT ![serving] = outcome]
  /\ UNCHANGED <<up, queue, connected>>

\* try_clone or make_temporary_host_key fails.
SetupError ==
  /\ up /\ serving # NoClient /\ handled[serving] = 0
  /\ setupErrors < MaxSetupErrors
  /\ setupErrors' = setupErrors + 1
  /\ Return("refused")
  /\ UNCHANGED <<inbox, handled>>

\* A receive call returns Ok; after the last, handle_connection does.
ReceiveOk ==
  /\ up /\ serving # NoClient /\ inbox[serving] = "good"
  /\ inbox' = [inbox EXCEPT ![serving] = "nothing"]
  /\ handled' = [handled EXCEPT ![serving] = @ + 1]
  /\ IF handled[serving] + 1 = Calls THEN Return("established")
     ELSE UNCHANGED <<up, queue, serving, connected, result>>
  /\ UNCHANGED setupErrors

\* Mutant: a read at the end of the stream is tried again.
ReceiveErrNotAtEnd ==
  /\ up /\ serving # NoClient
  /\ inbox[serving] = "bad"
  /\ Return("refused")
  /\ UNCHANGED <<inbox, handled, setupErrors>>

\* It returns Err: the message is refused, or the client is gone.  It may be
\* gone with a message unread here, if the answer to that cannot be written.
ReceiveErr ==
  /\ up /\ serving # NoClient
  /\ \/ inbox[serving] = "bad"
     \/ ~connected[serving] /\ inbox[serving] = "nothing"
     \/ ~connected[serving] /\ inbox[serving] = "good" /\ handled[serving] < Calls - 1
  /\ Return("refused")
  /\ UNCHANGED <<inbox, handled, setupErrors>>

\* The parser panics, the main thread ends, and with it every connection.
Panic ==
  /\ up /\ serving # NoClient /\ inbox[serving] = "short"
  /\ up' = FALSE
  /\ result' = [c \in Clients |-> IF c = serving THEN "panicked"
                                 ELSE IF result[c] = "pending" THEN "lost"
                                 ELSE result[c]]
  /\ serving' = NoClient
  /\ UNCHANGED <<queue, connected, inbox, handled, setupErrors>>

-----------------------------------------------------------------------------
Init ==
  /\ up = TRUE
  /\ queue = <<>>
  /\ serving = NoClient
  /\ connected = [c \in Clients |-> FALSE]
  /\ inbox = [c \in Clients |-> "nothing"]
  /\ handled = [c \in Clients |-> 0]
  /\ result = [c \in Clients |-> "away"]
  /\ setupErrors = 0

Loop == Accept \/ AcceptError \/ ReceiveOk \/ ReceiveErr \/ Panic

Next ==
  \/ \E c \in Clients : Connect(c) \/ Speak(c) \/ HangUp(c)
  \/ Loop
  \/ SetupError

Spec == Init /\ [][Next]_vars

\* The main thread runs, and an honest client sends what it owes.
Fairness == WF_vars(Loop) /\ \A c \in Honest : WF_vars(Speak(c))

FairSpec == Spec /\ Fairness

-----------------------------------------------------------------------------
TypeOK ==
  /\ up \in BOOLEAN
  /\ queue \in Seq(Clients) /\ Len(queue) <= Backlog
  /\ serving \in Clients \cup {NoClient}
  /\ connected \in [Clients -> BOOLEAN]
  /\ inbox \in [Clients -> {"nothing", "good", "bad", "short"}]
  /\ handled \in [Clients -> 0 .. Calls]
  /\ result \in [Clients -> {"away", "pending", "established", "refused", "panicked", "lost"}]
  /\ setupErrors \in Nat

\* What one connection does is its own affair, a panic excepted: no Err, of
\* accept or of another connection's handshake, costs a client its connection,
\* queued or accepted (main's loop prints errors and goes on).
ErrorsAreContained ==
  \A c \in Clients :
    /\ result[c] = "lost" => \E d \in Crashing : result[d] = "panicked" /\ handled[d] = 1
    /\ c \in Honest /\ result[c] = "refused" => setupErrors > 0

\* The client being served keeps the connection open and says nothing.
Stalled == serving # NoClient /\ connected[serving] /\ inbox[serving] = "nothing"

\* An honest client that has connected is served in the end, unless the process
\* panics or one client stalls for ever: the reads have no timeout, so nothing
\* ends that wait (main, handle_connection).
QueuedAreServed ==
  \/ <>[](Stalled /\ serving \in Silent \cup Faulty \cup Crashing)
  \/ \A c \in Honest : result[c] = "pending" ~> (result[c] # "pending")
=============================================================================
