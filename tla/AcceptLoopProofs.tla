-------------------------- MODULE AcceptLoopProofs -------------------------
(***************************************************************************)
(* ContainmentHolds: ErrorsAreContained, for every set of clients and      *)
(* every length of the listener's queue.                                   *)
(*                                                                         *)
(* The invariant LoopInv says whose connection the loop may end: a queued  *)
(* client is waiting and unheard, the one being served is waiting, and an  *)
(* honest client that has left while it waits has sent all it had to say.  *)
(***************************************************************************)
EXTENDS AcceptLoop, TLAPS

-----------------------------------------------------------------------------
\* The invariant.

QueuedWait ==
  up => /\ \A i \in 1 .. Len(queue) : /\ result[queue[i]] = "pending"
                                      /\ handled[queue[i]] = 0
                                      /\ queue[i] # serving
        /\ \A i, j \in 1 .. Len(queue) : queue[i] = queue[j] => i = j

ServedWaits == serving # NoClient => up /\ result[serving] = "pending"

AwayUnheard == \A c \in Clients : result[c] = "away" => handled[c] = 0

SpokenInTurn ==
  \A c \in Clients :
    /\ inbox[c] # "nothing" => handled[c] < Calls
    /\ inbox[c] = "bad" => c \in Faulty
    /\ inbox[c] = "short" => c \in Crashing /\ handled[c] = 1

HonestStay ==
  \A c \in Honest : (result[c] = "pending" /\ ~connected[c]) =>
    handled[c] = Calls - 1 /\ inbox[c] = "good"

LoopInv ==
  /\ TypeOK /\ QueuedWait /\ ServedWaits /\ AwayUnheard /\ SpokenInTurn /\ HonestStay
  /\ ErrorsAreContained

-----------------------------------------------------------------------------
\* The clients.

\* A connection is queued: its client is in no other place, and unheard.
LEMMA ConnectKeeps ==
  ASSUME LoopInv, NEW c \in Clients, Connect(c)
  PROVE  LoopInv'
<1>1. TypeOK'
  <2>1. queue' \in Seq(Clients) /\ Len(queue') <= Backlog
    <3>1. queue \in Seq(Clients) /\ Len(queue) \in Nat /\ queue' = Append(queue, c)
          /\ Len(queue) < Backlog /\ Backlog \in Nat
      BY AcceptAssumption DEF LoopInv, TypeOK, Connect
    <3>2. Len(queue') = Len(queue) + 1
      BY <3>1
    <3> QED
      BY <3>1, <3>2
  <2>2. /\ connected' \in [Clients -> BOOLEAN]
        /\ result' \in [Clients -> {"away", "pending", "established", "refused", "panicked", "lost"}]
        /\ UNCHANGED <<up, serving, inbox, handled, setupErrors>>
    BY DEF LoopInv, TypeOK, Connect
  <2> QED
    BY <2>1, <2>2 DEF LoopInv, TypeOK
<1>2. QueuedWait'
  <2> SUFFICES ASSUME up
               PROVE  /\ \A i \in 1 .. Len(queue') : /\ result'[queue'[i]] = "pending"
                                                     /\ handled'[queue'[i]] = 0
                                                     /\ queue'[i] # serving'
                      /\ \A i, j \in 1 .. Len(queue') : queue'[i] = queue'[j] => i = j
    BY DEF QueuedWait, Connect
  <2>1. queue \in Seq(Clients) /\ Len(queue) \in Nat
    BY DEF LoopInv, TypeOK
  <2>2. Len(queue') = Len(queue) + 1 /\ queue'[Len(queue) + 1] = c
    BY <2>1 DEF Connect
  <2>3. \A i \in 1 .. Len(queue) : /\ queue'[i] = queue[i] /\ queue[i] \in Clients
                                   /\ queue[i] # c /\ queue[i] # serving
                                   /\ result[queue[i]] = "pending" /\ handled[queue[i]] = 0
    BY <2>1 DEF LoopInv, QueuedWait, Connect
  <2>4. c # serving /\ handled[c] = 0
    BY AcceptAssumption DEF LoopInv, ServedWaits, AwayUnheard, Connect
  <2>5. \A i \in 1 .. Len(queue') : i \in 1 .. Len(queue) \/ i = Len(queue) + 1
    BY <2>1, <2>2
  <2>6. /\ result'[c] = "pending" /\ \A d \in Clients : d # c => result'[d] = result[d]
        /\ UNCHANGED <<serving, handled>>
    BY DEF LoopInv, TypeOK, Connect
  <2>7. ASSUME NEW i \in 1 .. Len(queue')
        PROVE  /\ result'[queue'[i]] = "pending" /\ handled'[queue'[i]] = 0 /\ queue'[i] # serving'
    BY <2>2, <2>3, <2>4, <2>5, <2>6
  <2>8. ASSUME NEW i \in 1 .. Len(queue'), NEW j \in 1 .. Len(queue'), queue'[i] = queue'[j]
        PROVE  i = j
    BY <2>2, <2>3, <2>5, <2>8 DEF LoopInv, QueuedWait
  <2> QED
    BY <2>7, <2>8
<1>3. ServedWaits'
  BY DEF LoopInv, ServedWaits, TypeOK, Connect
<1>4. AwayUnheard'
  BY DEF LoopInv, AwayUnheard, TypeOK, Connect
<1>5. SpokenInTurn'
  BY DEF LoopInv, SpokenInTurn, Connect
<1>6. HonestStay'
  BY DEF LoopInv, HonestStay, TypeOK, Connect
<1>7. ErrorsAreContained'
  <2>1. /\ result[c] = "away" /\ result'[c] = "pending"
        /\ \A d \in Clients : d # c => result'[d] = result[d]
        /\ handled' = handled /\ setupErrors' = setupErrors
    BY DEF LoopInv, TypeOK, Connect
  <2>2. Crashing \subseteq Clients
    BY AcceptAssumption
  <2> SUFFICES ASSUME NEW e \in Clients
               PROVE  /\ result'[e] = "lost" =>
                           \E d \in Crashing : result'[d] = "panicked" /\ handled'[d] = 1
                      /\ e \in Honest /\ result'[e] = "refused" => setupErrors' > 0
    BY DEF ErrorsAreContained
  <2>3. CASE e = c
    BY <2>1, <2>3
  <2>4. CASE e # c
    <3>1. /\ result[e] = "lost" => \E d \in Crashing : result[d] = "panicked" /\ handled[d] = 1
          /\ e \in Honest /\ result[e] = "refused" => setupErrors > 0
      BY DEF LoopInv, ErrorsAreContained
    <3>2. \A d \in Crashing : result[d] = "panicked" => result'[d] = "panicked"
      BY <2>1, <2>2
    <3> QED
      BY <2>1, <2>4, <3>1, <3>2
  <2> QED
    BY <2>3, <2>4
<1> QED
  BY <1>1, <1>2, <1>3, <1>4, <1>5, <1>6, <1>7 DEF LoopInv

\* What a client sends it sends in its turn.
LEMMA SpeakKeeps ==
  ASSUME LoopInv, NEW c \in Clients, Speak(c)
  PROVE  LoopInv'
<1>1. PICK what \in Says(c) : inbox' = [inbox EXCEPT ![c] = what]
  BY DEF Speak
<1>2. /\ what \in {"good", "bad", "short"}
      /\ what = "bad" => c \in Faulty
      /\ what = "short" => c \in Crashing /\ handled[c] = 1
  BY DEF Says
<1>3. TypeOK'
  BY <1>1, <1>2 DEF LoopInv, TypeOK, Speak
<1>4. QueuedWait' /\ ServedWaits' /\ AwayUnheard' /\ ErrorsAreContained'
  BY DEF LoopInv, QueuedWait, ServedWaits, AwayUnheard, ErrorsAreContained, Speak
<1>5. SpokenInTurn'
  BY <1>1, <1>2 DEF LoopInv, SpokenInTurn, TypeOK, Speak
<1>6. HonestStay'
  BY <1>1 DEF LoopInv, HonestStay, TypeOK, Speak, Honest
<1> QED
  BY <1>3, <1>4, <1>5, <1>6 DEF LoopInv

\* An honest client that leaves while it waits has sent its NEWKEYS.
LEMMA HangUpKeeps ==
  ASSUME LoopInv, NEW c \in Clients, HangUp(c)
  PROVE  LoopInv'
<1>1. TypeOK'
  BY DEF LoopInv, TypeOK, HangUp
<1>2. QueuedWait' /\ ServedWaits' /\ AwayUnheard' /\ SpokenInTurn' /\ ErrorsAreContained'
  BY DEF LoopInv, QueuedWait, ServedWaits, AwayUnheard, SpokenInTurn, ErrorsAreContained, HangUp
<1>3. HonestStay'
  <2> SUFFICES ASSUME NEW d \in Honest, result[d] = "pending", ~connected'[d]
               PROVE  handled[d] = Calls - 1 /\ inbox[d] = "good"
    BY DEF HonestStay, HangUp
  <2>1. d \in Clients /\ d \notin Faulty /\ d \notin Crashing
    BY DEF Honest
  <2>2. CASE d # c
    BY <2>1, <2>2 DEF LoopInv, HonestStay, TypeOK, HangUp
  <2>3. CASE d = c
    <3>1. handled[d] = Calls - 1 /\ inbox[d] # "nothing"
      BY <2>3 DEF HangUp
    <3>2. inbox[d] \in {"nothing", "good", "bad", "short"}
      BY <2>1 DEF LoopInv, TypeOK
    <3> QED
      BY <2>1, <3>1, <3>2 DEF LoopInv, SpokenInTurn
  <2> QED
    BY <2>2, <2>3
<1> QED
  BY <1>1, <1>2, <1>3 DEF LoopInv

-----------------------------------------------------------------------------
\* The server.

\* The rest of a queue, and its head.
LEMMA QueueParts ==
  ASSUME LoopInv, queue # <<>>
  PROVE  /\ Head(queue) \in Clients /\ Head(queue) = queue[1] /\ 1 \in 1 .. Len(queue)
         /\ Tail(queue) \in Seq(Clients) /\ Len(Tail(queue)) = Len(queue) - 1
         /\ Len(queue) \in Nat
         /\ \A i \in 1 .. Len(Tail(queue)) : /\ i + 1 \in 1 .. Len(queue)
                                             /\ Tail(queue)[i] = queue[i + 1]
<1>1. queue \in Seq(Clients)
  BY DEF LoopInv, TypeOK
<1> QED
  BY <1>1

\* Without its head it is no longer than the listener allows.
LEMMA ShorterQueue ==
  ASSUME LoopInv, queue # <<>>
  PROVE  Len(Tail(queue)) <= Backlog
<1>1. Len(queue) \in Nat /\ Len(queue) <= Backlog /\ Backlog \in Nat
  BY QueueParts, AcceptAssumption DEF LoopInv, TypeOK
<1> QED
  BY <1>1, QueueParts

\* Accepting moves the oldest connection from the queue to handle_connection.
LEMMA AcceptKeeps ==
  ASSUME LoopInv, Accept
  PROVE  LoopInv'
<1>1. TypeOK'
  <2>1. queue' \in Seq(Clients) /\ Len(queue') <= Backlog /\ serving' \in Clients
    BY ShorterQueue, QueueParts DEF Accept
  <2> QED
    BY <2>1 DEF LoopInv, TypeOK, Accept
<1>2. QueuedWait'
  BY QueueParts DEF LoopInv, QueuedWait, TypeOK, Accept
<1>3. ServedWaits'
  BY QueueParts DEF LoopInv, QueuedWait, ServedWaits, Accept
<1>4. AwayUnheard' /\ SpokenInTurn' /\ HonestStay' /\ ErrorsAreContained'
  BY DEF LoopInv, AwayUnheard, SpokenInTurn, HonestStay, ErrorsAreContained, Accept
<1> QED
  BY <1>1, <1>2, <1>3, <1>4 DEF LoopInv

\* An aborted connection is no honest client's: an honest client in the queue
\* is unheard, so it has not left.
LEMMA AcceptErrorKeeps ==
  ASSUME LoopInv, AcceptError
  PROVE  LoopInv'
<1> DEFINE head == Head(queue)
<1>1. /\ head \in Clients /\ result[head] = "pending" /\ handled[head] = 0
      /\ ~connected[head] /\ up /\ serving = NoClient
  BY QueueParts DEF LoopInv, QueuedWait, AcceptError
<1>2. head \notin Honest
  BY <1>1 DEF LoopInv, HonestStay, Calls
<1>3. /\ queue' = Tail(queue) /\ result' = [result EXCEPT ![head] = "refused"]
      /\ UNCHANGED <<up, serving, connected, inbox, handled, setupErrors>>
  BY DEF AcceptError
<1>4. \A i \in 1 .. Len(Tail(queue)) : /\ i + 1 \in 1 .. Len(queue)
                                       /\ Tail(queue)[i] = queue[i + 1]
                                       /\ queue[i + 1] # head /\ queue[i + 1] \in Clients
  <2> TAKE i \in 1 .. Len(Tail(queue))
  <2>1. /\ i + 1 \in 1 .. Len(queue) /\ Tail(queue)[i] = queue[i + 1]
        /\ 1 \in 1 .. Len(queue) /\ head = queue[1] /\ i \in Nat \ {0}
    BY QueueParts DEF AcceptError
  <2>2. queue[i + 1] # head
    BY <1>1, <2>1 DEF LoopInv, QueuedWait
  <2>3. queue[i + 1] \in Clients
    BY <2>1 DEF LoopInv, TypeOK
  <2> QED
    BY <2>1, <2>2, <2>3
<1>5. TypeOK'
  <2>1. queue' \in Seq(Clients) /\ Len(queue') <= Backlog
    BY ShorterQueue, QueueParts DEF AcceptError
  <2>2. result' \in [Clients -> {"away", "pending", "established", "refused", "panicked", "lost"}]
    BY <1>1, <1>3 DEF LoopInv, TypeOK
  <2> QED
    BY <1>3, <2>1, <2>2 DEF LoopInv, TypeOK
<1> HIDE DEF head
<1>6. QueuedWait'
  BY <1>1, <1>3, <1>4 DEF LoopInv, QueuedWait, TypeOK
<1>7. ServedWaits'
  BY <1>1, <1>3 DEF LoopInv, ServedWaits
<1>8. AwayUnheard' /\ SpokenInTurn'
  BY <1>1, <1>3 DEF LoopInv, AwayUnheard, SpokenInTurn, TypeOK
<1>9. HonestStay'
  BY <1>1, <1>3 DEF LoopInv, HonestStay, TypeOK, Honest
<1>10. ErrorsAreContained'
  BY <1>1, <1>2, <1>3 DEF LoopInv, ErrorsAreContained, TypeOK
<1> QED
  BY <1>5, <1>6, <1>7, <1>8, <1>9, <1>10 DEF LoopInv

\* handle_connection returns: the others keep what they have.  It may be
\* with Err only for a client that is not honest, or after a setup error.
LEMMA ReturnKeeps ==
  ASSUME LoopInv, serving # NoClient, NEW outcome \in {"established", "refused"}, Return(outcome),
         inbox' = inbox \/ inbox' = [inbox EXCEPT ![serving] = "nothing"],
         handled' = handled \/ (/\ handled' = [handled EXCEPT ![serving] = @ + 1]
                                /\ handled[serving] + 1 \in 0 .. Calls
                                /\ inbox' = [inbox EXCEPT ![serving] = "nothing"]),
         setupErrors' \in Nat, setupErrors' >= setupErrors,
         outcome = "refused" /\ serving \in Honest => setupErrors' > 0
  PROVE  LoopInv'
<1> DEFINE c == serving
<1>1. /\ c \in Clients /\ up /\ result[c] = "pending" /\ setupErrors \in Nat
  BY DEF LoopInv, ServedWaits, TypeOK
<1>2. /\ serving' = NoClient /\ result' = [result EXCEPT ![c] = outcome]
      /\ UNCHANGED <<up, queue, connected>>
  BY DEF Return
<1>3. \A d \in Clients : /\ d # c => result'[d] = result[d] /\ inbox'[d] = inbox[d]
                                     /\ handled'[d] = handled[d]
                         /\ d = c => result'[d] = outcome
  BY <1>1, <1>2 DEF LoopInv, TypeOK
<1>4. TypeOK'
  BY <1>1, <1>2 DEF LoopInv, TypeOK
<1>5. inbox'[c] # "nothing" => inbox'[c] = inbox[c] /\ handled'[c] = handled[c]
  BY <1>1 DEF LoopInv, TypeOK
<1> HIDE DEF c
<1>6. QueuedWait'
  <2>1. \A i \in 1 .. Len(queue) : queue[i] \in Clients /\ queue[i] # c
    BY <1>1 DEF LoopInv, TypeOK, QueuedWait, c
  <2>2. NoClient \notin Clients
    BY AcceptAssumption
  <2> QED
    BY <1>1, <1>2, <1>3, <2>1, <2>2 DEF LoopInv, QueuedWait
<1>7. ServedWaits'
  BY <1>2 DEF ServedWaits
<1>8. AwayUnheard'
  BY <1>3 DEF LoopInv, AwayUnheard
<1>9. SpokenInTurn'
  BY <1>3, <1>5 DEF LoopInv, SpokenInTurn
<1>10. HonestStay'
  BY <1>2, <1>3 DEF LoopInv, HonestStay, Honest
<1>11. ErrorsAreContained'
  <2> SUFFICES ASSUME NEW d \in Clients
               PROVE  /\ result'[d] = "lost" => \E x \in Crashing : result'[x] = "panicked" /\ handled'[x] = 1
                      /\ d \in Honest /\ result'[d] = "refused" => setupErrors' > 0
    BY DEF ErrorsAreContained
  <2>1. ASSUME result'[d] = "lost"
        PROVE  \E x \in Crashing : result'[x] = "panicked" /\ handled'[x] = 1
    <3>1. result[d] = "lost"
      BY <1>3, <2>1
    <3>2. PICK x \in Crashing : result[x] = "panicked" /\ handled[x] = 1
      BY <3>1 DEF LoopInv, ErrorsAreContained
    <3>3. x \in Clients /\ x # c
      BY <1>1, <3>2, AcceptAssumption
    <3> QED
      BY <1>3, <3>2, <3>3
  <2>2. ASSUME d \in Honest, result'[d] = "refused"
        PROVE  setupErrors' > 0
    <3>1. CASE d = c
      BY <1>3, <2>2, <3>1 DEF c
    <3>2. CASE d # c
      BY <1>1, <1>3, <2>2, <3>2 DEF LoopInv, ErrorsAreContained
    <3> QED
      BY <3>1, <3>2
  <2> QED
    BY <2>1, <2>2
<1> QED
  BY <1>4, <1>6, <1>7, <1>8, <1>9, <1>10, <1>11 DEF LoopInv

\* try_clone or the random number generator fails.
LEMMA SetupErrorKeeps ==
  ASSUME LoopInv, SetupError
  PROVE  LoopInv'
<1>1. setupErrors \in Nat
  BY DEF LoopInv, TypeOK
<1> QED
  BY <1>1, ReturnKeeps DEF SetupError

\* A receive call returns Ok; after the last one the connection is established.
LEMMA ReceiveOkKeeps ==
  ASSUME LoopInv, ReceiveOk
  PROVE  LoopInv'
<1> DEFINE c == serving
<1>1. /\ c \in Clients /\ up /\ result[c] = "pending" /\ inbox[c] = "good"
      /\ handled[c] \in 0 .. Calls /\ handled[c] < Calls
  BY DEF LoopInv, ServedWaits, TypeOK, ReceiveOk, SpokenInTurn
<1>2. handled[c] + 1 \in 0 .. Calls /\ setupErrors \in Nat
  BY <1>1 DEF Calls, LoopInv, TypeOK
<1>3. CASE Return("established")
  BY <1>2, <1>3, ReturnKeeps DEF ReceiveOk
<1>4. CASE UNCHANGED <<up, queue, serving, connected, result>> /\ handled[c] + 1 # Calls
  <2>1. /\ inbox' = [inbox EXCEPT ![c] = "nothing"]
        /\ handled' = [handled EXCEPT ![c] = @ + 1] /\ UNCHANGED setupErrors
    BY DEF ReceiveOk
  <2>2. \A d \in Clients : /\ d # c => inbox'[d] = inbox[d] /\ handled'[d] = handled[d]
                           /\ d = c => inbox'[d] = "nothing"
    BY <1>1, <2>1 DEF LoopInv, TypeOK
  <2>3. TypeOK'
    BY <1>2, <1>4, <2>1 DEF LoopInv, TypeOK
  <2> HIDE DEF c
  <2>4. QueuedWait'
    <3>1. \A i \in 1 .. Len(queue) : queue[i] \in Clients /\ queue[i] # c
      BY <1>1 DEF LoopInv, TypeOK, QueuedWait, c
    <3> QED
      BY <1>4, <2>2, <3>1 DEF LoopInv, QueuedWait
  <2>5. ServedWaits'
    BY <1>4 DEF LoopInv, ServedWaits
  <2>6. AwayUnheard'
    BY <1>1, <1>4, <2>2 DEF LoopInv, AwayUnheard
  <2>7. SpokenInTurn'
    BY <2>2 DEF LoopInv, SpokenInTurn
  <2>8. HonestStay'
    <3>1. c \in Honest => connected[c]
      <4>1. handled[c] # Calls - 1
        BY <1>1, <1>4 DEF Calls
      <4> QED
        BY <1>1, <4>1 DEF LoopInv, HonestStay
    <3> QED
      BY <1>4, <2>2, <3>1 DEF LoopInv, HonestStay, Honest
  <2>9. ErrorsAreContained'
    <3>1. \A x \in Crashing : x \in Clients
      BY AcceptAssumption
    <3>2. \A x \in Crashing : result[x] = "panicked" => handled'[x] = handled[x]
      BY <1>1, <2>2, <3>1
    <3> QED
      BY <1>4, <2>1, <3>2 DEF LoopInv, ErrorsAreContained
  <2> QED
    BY <2>3, <2>4, <2>5, <2>6, <2>7, <2>8, <2>9 DEF LoopInv
<1> QED
  BY <1>3, <1>4 DEF ReceiveOk

\* It returns Err, which happens to no honest client: what it sends is good,
\* and it has not left before it sent its last message.
LEMMA ReceiveErrKeeps ==
  ASSUME LoopInv, ReceiveErr
  PROVE  LoopInv'
<1>1. serving \notin Honest
  <2> SUFFICES ASSUME serving \in Honest PROVE FALSE
    OBVIOUS
  <2>1. serving \in Clients /\ serving \notin Faulty /\ result[serving] = "pending"
    BY DEF Honest, LoopInv, ServedWaits, ReceiveErr
  <2>2. inbox[serving] # "bad"
    BY <2>1 DEF LoopInv, SpokenInTurn
  <2>3. ~connected[serving] => handled[serving] = Calls - 1 /\ inbox[serving] = "good"
    BY <2>1 DEF LoopInv, HonestStay
  <2>4. handled[serving] = Calls - 1 => ~(handled[serving] < Calls - 1)
    BY DEF Calls
  <2> QED
    BY <2>2, <2>3, <2>4 DEF ReceiveErr
<1>2. setupErrors \in Nat
  BY DEF LoopInv, TypeOK
<1> QED
  BY <1>1, <1>2, ReturnKeeps DEF ReceiveErr

\* The panic takes every connection with it, and is the fault of one client.
LEMMA PanicKeeps ==
  ASSUME LoopInv, Panic
  PROVE  LoopInv'
<1> DEFINE c == serving
<1>1. c \in Clients /\ c \in Crashing /\ handled[c] = 1 /\ result[c] = "pending"
  BY DEF LoopInv, ServedWaits, TypeOK, SpokenInTurn, Panic
<1>2. /\ ~up' /\ serving' = NoClient
      /\ UNCHANGED <<queue, connected, inbox, handled, setupErrors>>
      /\ \A d \in Clients : result'[d] = IF d = c THEN "panicked"
                                         ELSE IF result[d] = "pending" THEN "lost" ELSE result[d]
  BY DEF Panic
<1>3. TypeOK'
  BY DEF LoopInv, TypeOK, Panic
<1> HIDE DEF c
<1>4. QueuedWait' /\ ServedWaits'
  BY <1>2 DEF QueuedWait, ServedWaits
<1>5. AwayUnheard' /\ SpokenInTurn'
  BY <1>2 DEF LoopInv, AwayUnheard, SpokenInTurn
<1>6. HonestStay'
  BY <1>2 DEF LoopInv, HonestStay, Honest
<1>7. ErrorsAreContained'
  <2>1. result'[c] = "panicked" /\ handled'[c] = 1
    BY <1>1, <1>2
  <2>2. \A d \in Clients : result'[d] = "refused" => result[d] = "refused"
    BY <1>2
  <2> QED
    BY <1>1, <1>2, <2>1, <2>2 DEF LoopInv, ErrorsAreContained
<1> QED
  BY <1>3, <1>4, <1>5, <1>6, <1>7 DEF LoopInv

-----------------------------------------------------------------------------
\* Nobody has connected at first.
LEMMA InitKeeps == Init => LoopInv
<1> SUFFICES ASSUME Init
             PROVE  LoopInv
  OBVIOUS
<1>1. TypeOK
  BY AcceptAssumption DEF Init, TypeOK, Calls
<1>2. queue = <<>> /\ serving = NoClient
      /\ \A c \in Clients : inbox[c] = "nothing" /\ handled[c] = 0 /\ result[c] = "away"
  BY DEF Init
<1>3. Len(queue) = 0
  BY <1>2
<1> QED
  BY <1>1, <1>2, <1>3 DEF LoopInv, QueuedWait, ServedWaits, AwayUnheard, SpokenInTurn,
     HonestStay, ErrorsAreContained, Honest

\* Every step keeps the invariant.
LEMMA NextKeeps ==
  ASSUME LoopInv, [Next]_vars
  PROVE  LoopInv'
<1>1. CASE UNCHANGED vars
  BY <1>1 DEF vars, LoopInv, TypeOK, QueuedWait, ServedWaits, AwayUnheard, SpokenInTurn,
              HonestStay, ErrorsAreContained
<1>2. ASSUME NEW c \in Clients, Connect(c) \/ Speak(c) \/ HangUp(c)
      PROVE  LoopInv'
  BY <1>2, ConnectKeeps, SpeakKeeps, HangUpKeeps
<1>3. CASE Loop
  BY <1>3, AcceptKeeps, AcceptErrorKeeps, ReceiveOkKeeps, ReceiveErrKeeps, PanicKeeps DEF Loop
<1>4. CASE SetupError
  BY <1>4, SetupErrorKeeps
<1> QED
  BY <1>1, <1>2, <1>3, <1>4 DEF Next

\* Errors are contained: whatever the other clients do, no Err of accept or of
\* another connection's handshake costs a client its connection, and an honest
\* client is refused only after a setup error; only a panic takes others with
\* it (main, handle_connection), for any number of clients and any backlog.
THEOREM ContainmentHolds == Spec => []ErrorsAreContained
<1>1. LoopInv => ErrorsAreContained
  BY DEF LoopInv
<1> QED
  BY <1>1, InitKeeps, NextKeeps, PTL DEF Spec
=============================================================================
