--------------------------- MODULE UdpProxyProofs ---------------------------
(***************************************************************************)
(* Proofs about the UDP proxy, for every number of contexts, queue, buffer *)
(* and pair of timeouts.  All the events have one key, so that the queue   *)
(* is empty or holds one event; and a context that waits for an answer is  *)
(* at least as old as the last use of the socket.                          *)
(***************************************************************************)
EXTENDS UdpProxy, TLAPS

Empty(q) ==
  q \in Queues /\ q.head = 0 /\ q.size = 0 /\ \A e \in Events : q.index[KeyOf[e]] = NULL

Single(q) ==
  q \in Queues /\ q.head = 0 /\ q.size = 1 /\ \A e \in Events : q.index[KeyOf[e]] = 0

(* The queue holds at most one event, of a context that waits to write.    *)
QueueOfOne == Empty(wq) \/ (Single(wq) /\ wq.data[0] \in holders \cap waiting)

(* What is known of the event that is being handled.                       *)
CurrentIsKnown ==
  /\ upc = "handle" => Single(wq) /\ wq.data[0] = current
  /\ upc = "opened" => current \in holders

(* The socket was used since a context has begun to wait for an answer.    *)
UsedSince ==
  \A e \in Events : turn[e] = "remoteRead" => e \in holders /\ usock.age <= idle[e]

(* A handler is on the stack only under the write loop.                    *)
CallerFits ==
  caller \in Events \cup {NULL} /\ (caller # NULL => upc \in {"pop", "handle"})

UdpProxyInv ==
  /\ UdpProxyTypeOK
  /\ QueueOfOne
  /\ CurrentIsKnown
  /\ UsedSince
  /\ entry # NULL => entry \in holders
  /\ \A e \in holders : usock.open /\ Exists(e)
  /\ ufault \notin {"disabled", "notFound"}

-----------------------------------------------------------------------------
(***************************************************************************)
(* The queue's operations when all events have one key.                    *)
(***************************************************************************)
LEMMA ZeroIsCell == 0 \in Cells /\ QCapacity >= 1 /\ NULL # 0
  BY QueueAssumption DEF Cells

LEMMA EmptyIsEmpty == Empty(EmptyQueue)
  BY ZeroIsCell, QueueAssumption DEF Empty, EmptyQueue, Queues

(* Removing any event empties the queue, and never reads beyond the array. *)
LEMMA RemoveEmpties ==
  ASSUME NEW q, NEW e \in Events, Empty(q) \/ Single(q)
  PROVE  /\ Empty(WqRemove(q, e))
         /\ ~RemoveReadsBeyond(q, e)
         /\ Single(q) => IsFound(q, e)
<1>1. CASE Empty(q)
  BY <1>1, ZeroIsCell DEF Empty, Single, WqRemove, RemoveReadsBeyond, IsFound
<1>2. CASE Single(q)
  <2>1. q \in Queues /\ q.size = 1 /\ q.index[KeyOf[e]] = 0
    BY <1>2 DEF Single
  <2>2. IsFound(q, e) /\ ~RemoveReadsBeyond(q, e)
    BY <2>1, ZeroIsCell DEF IsFound, RemoveReadsBeyond
  <2>3. WqRemove(q, e) = RemoveOnly(q, e)
    BY <2>1, <2>2 DEF WqRemove
  <2>4. KeyOf[e] \in Keys /\ \A d \in Events : KeyOf[d] = KeyOf[e]
    BY QueueAssumption, UdpProxyAssumption
  <2>5. /\ [q.data EXCEPT ![0] = NULL] \in [Cells -> Events \cup {NULL}]
        /\ [q.index EXCEPT ![KeyOf[e]] = NULL] \in [Keys -> Cells \cup {NULL}]
    BY <2>1, ZeroIsCell DEF Queues
  <2>6. RemoveOnly(q, e) \in Queues
    <3>1. RemoveOnly(q, e) = [data |-> [q.data EXCEPT ![0] = NULL],
                              index |-> [q.index EXCEPT ![KeyOf[e]] = NULL],
                              size |-> 0, head |-> 0]
      BY <2>1 DEF RemoveOnly
    <3>2. 0 \in 0 .. QCapacity
      BY QueueAssumption
    <3> QED BY <2>5, <3>1, <3>2, ZeroIsCell DEF Queues
  <2>7. \A d \in Events : RemoveOnly(q, e).index[KeyOf[d]] = NULL
    <3>1. RemoveOnly(q, e).index = [q.index EXCEPT ![KeyOf[e]] = NULL]
      BY DEF RemoveOnly
    <3>2. q.index \in [Keys -> Cells \cup {NULL}]
      BY <2>1 DEF Queues
    <3> QED BY <2>4, <3>1, <3>2
  <2>8. Empty(RemoveOnly(q, e))
    BY <2>6, <2>7 DEF Empty, RemoveOnly
  <2> QED BY <2>2, <2>3, <2>8
<1> QED BY <1>1, <1>2

(* Adding an event to an empty queue makes it the only one; to any other   *)
(* queue it adds nothing.                                                  *)
LEMMA AddMakesSingle ==
  ASSUME NEW q, NEW e \in Events
  PROVE  /\ Empty(q) => Single(WqAdd(q, e)) /\ WqAdd(q, e).data[0] = e
         /\ Single(q) => WqAdd(q, e) = q
<1>1. ASSUME Empty(q)
      PROVE  Single(WqAdd(q, e)) /\ WqAdd(q, e).data[0] = e
  <2>1. WqAdd(q, e) = AddAtEnd(q, e)
    BY <1>1, ZeroIsCell DEF Empty, WqAdd, IsFull, IsOccupied
  <2>2. KeyOf[e] \in Keys /\ \A d \in Events : KeyOf[d] = KeyOf[e]
    BY QueueAssumption, UdpProxyAssumption
  <2>3. Single(AddAtEnd(q, e)) /\ AddAtEnd(q, e).data[0] = e
    BY <1>1, <2>2, ZeroIsCell, QueueAssumption DEF Empty, Single, AddAtEnd, Queues
  <2> QED BY <2>1, <2>3
<1>2. ASSUME Single(q)
      PROVE  WqAdd(q, e) = q
  BY <1>2, ZeroIsCell DEF Single, WqAdd, IsOccupied
<1> QED BY <1>1, <1>2

(* Taking round the head of a queue of one leaves it as it is.             *)
LEMMA MoveHeadKeepsSingle ==
  ASSUME NEW q, Single(q)
  PROVE  MoveHead(q) = q /\ Front(q) = q.data[0]
<1>1. q \in Queues /\ q.head = 0 /\ q.size = 1
  BY DEF Single
<1>2. [q EXCEPT !.head = 0] = q
  BY <1>1 DEF Queues
<1> QED BY <1>1, <1>2 DEF MoveHead, Front

-----------------------------------------------------------------------------
(***************************************************************************)
(* The invariant.                                                          *)
(***************************************************************************)
LEMMA UdpProxyInitInv == UdpProxyInit => UdpProxyInv
<1> SUFFICES ASSUME UdpProxyInit PROVE UdpProxyInv
  OBVIOUS
<1>1. Empty(wq)
  BY EmptyIsEmpty DEF UdpProxyInit, WqInit
<1>2. WqTypeOK /\ ~beyond
  BY <1>1 DEF UdpProxyInit, WqInit, WqTypeOK, Empty
<1>3. UdpProxyTypeOK
  BY <1>2, UdpProxyAssumption DEF UdpProxyInit, UdpProxyTypeOK, NoSocket, Turns, UdpFaults
<1> QED
  BY <1>1, <1>3 DEF UdpProxyInit, UdpProxyInv, QueueOfOne, CurrentIsKnown, UsedSince, UdpFaults

(* Disarming an event, be it the queued one or not, empties the queue.     *)
LEMMA DisableEmpties ==
  ASSUME UdpProxyInv, NEW e \in Events, Disable(e)
  PROVE  /\ Empty(wq') /\ wq' \in Queues /\ beyond' = FALSE
         /\ waiting' = waiting \ {e} /\ waiting' \subseteq Events
<1>1. Empty(wq) \/ Single(wq)
  BY DEF UdpProxyInv, QueueOfOne
<1>2. Empty(WqRemove(wq, e)) /\ ~RemoveReadsBeyond(wq, e)
  BY <1>1, RemoveEmpties
<1> QED BY <1>2 DEF Disable, Empty, UdpProxyInv, UdpProxyTypeOK, WqTypeOK

(* The handler on the stack returns, or the loop it has begun goes on.     *)
LEMMA CallerStays ==
  ASSUME UdpProxyInv,
         \/ caller' = NULL
         \/ caller' = caller /\ (upc \in {"rest", "opened", "read"} \/ upc' \in {"pop", "handle"})
  PROVE  CallerFits'
  BY DEF UdpProxyInv, UdpProxyTypeOK, CallerFits

(* The end of a context, whoever brings it about.                          *)
LEMMA ContextStopKeeps ==
  ASSUME UdpProxyInv, NEW e \in Events, e \in holders, StopContext(e),
         upc' \in {"rest", "pop"}, current' = NULL, CallerFits',
         usock' = usock \/ usock' = [usock EXCEPT !.age = 0]
  PROVE  UdpProxyInv'
<1>1. Empty(wq') /\ wq' \in Queues /\ beyond' = FALSE /\ waiting' \subseteq Events
  BY DisableEmpties DEF StopContext
<1>2. /\ usock' \in [open : BOOLEAN, readable : BOOLEAN, writable : BOOLEAN,
                     left : 0 .. Datagrams, age : 0 .. SocketTimeout]
      /\ usock'.open = usock.open /\ usock'.age <= usock.age
  BY UdpProxyAssumption DEF UdpProxyInv, UdpProxyTypeOK
<1>3. /\ turn' \in [Events -> Turns] /\ idle' \in [Events -> 0 .. ContextTimeout]
      /\ \A d \in Events : d # e => turn'[d] = turn[d] /\ idle'[d] = idle[d]
      /\ turn'[e] = "none"
  BY UdpProxyAssumption DEF StopContext, UdpProxyInv, UdpProxyTypeOK, Turns
<1>4. holders' = holders \ {e} /\ entry' = NULL
      /\ ufault' \in UdpFaults /\ ufault' \notin {"disabled", "notFound"}
  BY DEF StopContext, UdpProxyInv, UdpProxyTypeOK, UdpFaults
<1>5. UdpProxyTypeOK'
  BY <1>1, <1>2, <1>3, <1>4, QueueAssumption
     DEF UdpProxyInv, UdpProxyTypeOK, WqTypeOK, CallerFits
<1>6. UsedSince'
  <2> SUFFICES ASSUME NEW d \in Events, turn'[d] = "remoteRead"
               PROVE  d \in holders' /\ usock'.age <= idle'[d]
    BY DEF UsedSince
  <2>1. d # e /\ turn[d] = "remoteRead"
    BY <1>3
  <2>2. d \in holders /\ usock.age <= idle[d]
    BY <2>1 DEF UdpProxyInv, UsedSince
  <2>3. usock.age \in Int /\ usock'.age \in Int /\ idle[d] \in Int
    BY <1>2, UdpProxyAssumption DEF UdpProxyInv, UdpProxyTypeOK
  <2> QED BY <1>2, <1>3, <1>4, <2>1, <2>2, <2>3
<1> QED
  BY <1>1, <1>2, <1>3, <1>4, <1>5, <1>6
     DEF UdpProxyInv, QueueOfOne, CurrentIsKnown, Exists, UdpProxyTypeOK

(* The states of the socket, and what the steps make of it.                *)
Sockets ==
  [open : BOOLEAN, readable : BOOLEAN, writable : BOOLEAN,
   left : 0 .. Datagrams, age : 0 .. SocketTimeout]

LEMMA SocketKeepsType ==
  ASSUME UdpProxyInv
  PROVE  /\ usock \in Sockets /\ usock.age \in Int /\ usock.age >= 0
         /\ NoSocket \in Sockets /\ NewSocket \in Sockets
         /\ [usock EXCEPT !.age = 0] \in Sockets
         /\ usock.left # 0 => [usock EXCEPT !.left = @ - 1, !.age = 0] \in Sockets
         /\ [usock EXCEPT !.age = 0, !.writable = FALSE] \in Sockets
         /\ usock.age < SocketTimeout => [usock EXCEPT !.age = @ + 1] \in Sockets
<1>1. usock \in Sockets
  BY DEF UdpProxyInv, UdpProxyTypeOK, Sockets
<1>2. 0 \in 0 .. SocketTimeout /\ 0 \in 0 .. Datagrams /\ Datagrams \in 0 .. Datagrams
      /\ usock.left \in 0 .. Datagrams /\ usock.age \in 0 .. SocketTimeout
  BY <1>1, UdpProxyAssumption DEF Sockets
<1>3. usock.left # 0 => usock.left - 1 \in 0 .. Datagrams
  BY <1>2, UdpProxyAssumption
<1>4. usock.age < SocketTimeout => usock.age + 1 \in 0 .. SocketTimeout
  BY <1>2, UdpProxyAssumption
<1>5. NoSocket \in Sockets /\ NewSocket \in Sockets
  BY <1>2 DEF NoSocket, NewSocket, Sockets
<1>6. /\ [usock EXCEPT !.age = 0] \in Sockets
      /\ [usock EXCEPT !.age = 0, !.writable = FALSE] \in Sockets
  BY <1>1, <1>2 DEF Sockets
<1>7. usock.left # 0 => [usock EXCEPT !.left = @ - 1, !.age = 0] \in Sockets
  BY <1>1, <1>2, <1>3 DEF Sockets
<1>8. usock.age < SocketTimeout => [usock EXCEPT !.age = @ + 1] \in Sockets
  BY <1>1, <1>4 DEF Sockets
<1> QED BY <1>1, <1>2, <1>5, <1>6, <1>7, <1>8

(* A turn taken by a context restarts its timers and concerns no other.    *)
LEMMA TurnChanges ==
  ASSUME UdpProxyInv, NEW e \in Events, NEW next \in Turns, Turn(e, next)
  PROVE  /\ turn' \in [Events -> Turns] /\ idle' \in [Events -> 0 .. ContextTimeout]
         /\ turn'[e] = next /\ idle'[e] = 0
         /\ \A d \in Events : d # e => turn'[d] = turn[d] /\ idle'[d] = idle[d]
  BY UdpProxyAssumption DEF Turn, UdpProxyInv, UdpProxyTypeOK

(* A client's bytes are passed on, at its first event or later.            *)
LEMMA ArmKeeps ==
  ASSUME UdpProxyInv, NEW e \in holders, ArmRemoteWrite(e)
  PROVE  UdpProxyInv'
<1>1. e \in Events /\ "remoteWrite" \in Turns /\ "remoteWrite" # "remoteRead"
  BY DEF UdpProxyInv, UdpProxyTypeOK, Turns
<1>2. /\ turn' \in [Events -> Turns] /\ idle' \in [Events -> 0 .. ContextTimeout]
      /\ turn'[e] = "remoteWrite" /\ idle'[e] = 0
      /\ \A d \in Events : d # e => turn'[d] = turn[d] /\ idle'[d] = idle[d]
  BY <1>1, TurnChanges DEF ArmRemoteWrite
<1>3. waiting' = waiting \cup {e} /\ holders' = holders /\ usock' = usock /\ entry' = entry
      /\ ufault' = ufault /\ beyond' = beyond /\ current' = NULL /\ upc' \in {"pop", "rest"}
  BY DEF ArmRemoteWrite
<1>4. QueueOfOne' /\ wq' \in Queues
  <2>1. wq' = WqAdd(wq, e)
    BY DEF ArmRemoteWrite
  <2>2. CASE Empty(wq)
    BY <1>1, <1>3, <2>1, <2>2, AddMakesSingle DEF QueueOfOne, Single
  <2>3. CASE Single(wq) /\ wq.data[0] \in holders \cap waiting
    BY <1>1, <1>3, <2>1, <2>3, AddMakesSingle DEF QueueOfOne, Single
  <2> QED BY <2>2, <2>3 DEF UdpProxyInv, QueueOfOne
<1>c. caller' \in Events \cup {NULL} /\ (caller' # NULL => upc' \in {"pop", "handle"})
  BY <1>1 DEF ArmRemoteWrite
<1>5. UdpProxyTypeOK'
  BY <1>1, <1>2, <1>3, <1>4, <1>c DEF UdpProxyInv, UdpProxyTypeOK, WqTypeOK
<1>6. UsedSince'
  BY <1>1, <1>2, <1>3 DEF UdpProxyInv, UsedSince
<1>7. \A d \in holders' : usock'.open /\ Exists(d)'
  BY <1>2, <1>3 DEF UdpProxyInv, UdpProxyTypeOK, Exists
<1> QED
  BY <1>1, <1>2, <1>3, <1>4, <1>5, <1>6, <1>7 DEF UdpProxyInv, CurrentIsKnown

(* The context of a client's first event.                                  *)
LEMMA ContextOpenKeeps ==
  ASSUME UdpProxyInv, NEW e \in Events, Open(e)
  PROVE  UdpProxyInv'
<1>1. "clientRead" \in Turns /\ "clientRead" # "none" /\ "clientRead" # "remoteRead"
  BY DEF Turns
<1>2. /\ turn' \in [Events -> Turns] /\ idle' \in [Events -> 0 .. ContextTimeout]
      /\ turn'[e] = "clientRead" /\ idle'[e] = 0
      /\ \A d \in Events : d # e => turn'[d] = turn[d] /\ idle'[d] = idle[d]
  BY <1>1, TurnChanges DEF Open
<1>3. /\ waiting' = waiting /\ beyond' = beyond /\ ufault' = ufault
      /\ current' = e /\ upc' = "opened" /\ entry' = e /\ e \in holders'
  BY DEF Open, AddConn
<1>4. usock' \in Sockets /\ usock'.open = TRUE /\ usock'.age = 0
  BY SocketKeepsType DEF Open, AddConn, NewSocket, NoSocket, Sockets
<1>5. holders \subseteq holders' /\ holders' \subseteq holders \cup {e}
  BY DEF Open, AddConn, UdpProxyInv
<1>6. QueueOfOne' /\ wq' \in Queues
  BY <1>3, <1>5, EmptyIsEmpty DEF Open, AddConn, UdpProxyInv, QueueOfOne, Empty, Single
<1>c. CallerFits'
  BY CallerStays DEF Open, Rests
<1>7. UdpProxyTypeOK'
  BY <1>2, <1>3, <1>4, <1>5, <1>6, <1>c, QueueAssumption
     DEF UdpProxyInv, UdpProxyTypeOK, WqTypeOK, Sockets, CallerFits
<1>8. UsedSince'
  <2> SUFFICES ASSUME NEW d \in Events, turn'[d] = "remoteRead"
               PROVE  d \in holders' /\ usock'.age <= idle'[d]
    BY DEF UsedSince
  <2>1. d # e /\ d \in holders
    BY <1>1, <1>2 DEF UdpProxyInv, UsedSince
  <2>2. idle'[d] \in Nat
    BY <1>2, UdpProxyAssumption
  <2> QED BY <1>4, <1>5, <2>1, <2>2
<1>9. \A d \in holders' : usock'.open /\ Exists(d)'
  BY <1>1, <1>2, <1>4, <1>5 DEF UdpProxyInv, UdpProxyTypeOK, Exists
<1> QED
  BY <1>1, <1>2, <1>3, <1>4, <1>5, <1>6, <1>7, <1>8, <1>9 DEF UdpProxyInv, CurrentIsKnown

(* A turn that leaves the queue and the table alone and may use the socket.*)
LEMMA PassKeeps ==
  ASSUME UdpProxyInv, NEW e \in Events, NEW next \in Turns, Turn(e, next),
         Exists(e), next # "none", next # "remoteRead",
         usock' \in Sockets,
         usock'.open = usock.open, usock'.age <= usock.age,
         UNCHANGED <<wq, waiting, beyond, holders, entry>>, CallerFits',
         ufault' \in UdpFaults \ {"disabled", "notFound"},
         \/ UNCHANGED <<upc, current>> /\ upc # "handle"
         \/ upc' = "rest" /\ current' = NULL
  PROVE  UdpProxyInv'
<1>1. /\ turn' \in [Events -> Turns] /\ idle' \in [Events -> 0 .. ContextTimeout]
      /\ turn'[e] = next /\ idle'[e] = 0
      /\ \A d \in Events : d # e => turn'[d] = turn[d] /\ idle'[d] = idle[d]
  BY TurnChanges
<1>2. UdpProxyTypeOK'
  BY <1>1 DEF UdpProxyInv, UdpProxyTypeOK, WqTypeOK, Sockets, CallerFits
<1>3. UsedSince'
  <2> SUFFICES ASSUME NEW d \in Events, turn'[d] = "remoteRead"
               PROVE  d \in holders' /\ usock'.age <= idle'[d]
    BY DEF UsedSince
  <2>1. d # e /\ d \in holders /\ usock.age <= idle[d] /\ idle'[d] = idle[d]
    BY <1>1 DEF UdpProxyInv, UsedSince
  <2>2. usock.age \in Int /\ usock'.age \in Int /\ idle[d] \in Int
    BY UdpProxyAssumption DEF UdpProxyInv, UdpProxyTypeOK, Sockets
  <2> QED BY <2>1, <2>2
<1>4. QueueOfOne' /\ CurrentIsKnown'
  BY DEF UdpProxyInv, QueueOfOne, CurrentIsKnown, Empty, Single
<1>5. \A d \in holders' : usock'.open /\ Exists(d)'
  BY <1>1 DEF UdpProxyInv, UdpProxyTypeOK, Exists
<1> QED
  BY <1>2, <1>3, <1>4, <1>5 DEF UdpProxyInv

(* A step that leaves the contexts alone.                                  *)
LEMMA SocketStepKeeps ==
  ASSUME UdpProxyInv,
         usock' \in Sockets,
         usock'.open = usock.open, usock'.age <= usock.age,
         UNCHANGED <<wq, waiting, beyond, turn, idle, holders, entry>>, CallerFits',
         ufault' \in UdpFaults \ {"disabled", "notFound"},
         \/ UNCHANGED <<upc, current>>
         \/ upc' \in {"rest", "read", "pop"} /\ current' = NULL
         \/ upc' = "handle" /\ Single(wq) /\ current' = wq.data[0]
  PROVE  UdpProxyInv'
<1>1. upc' = "handle" => Single(wq) /\ wq.data[0] = current'
  BY DEF UdpProxyInv, CurrentIsKnown
<1>2. Single(wq) => wq.data[0] \in Events /\ wq.data[0] # NULL
  BY QueueAssumption DEF UdpProxyInv, QueueOfOne, Empty, Single, UdpProxyTypeOK, WqTypeOK
<1>3. /\ current' \in Events \cup {NULL} /\ (current' # NULL <=> upc' \in {"opened", "handle"})
      /\ upc' \in {"rest", "opened", "read", "pop", "handle"}
  BY <1>2 DEF UdpProxyInv, UdpProxyTypeOK
<1>4. UdpProxyTypeOK'
  BY <1>3 DEF UdpProxyInv, UdpProxyTypeOK, WqTypeOK, Sockets, CallerFits
<1>5. UsedSince'
  <2> SUFFICES ASSUME NEW d \in Events, turn'[d] = "remoteRead"
               PROVE  d \in holders' /\ usock'.age <= idle'[d]
    BY DEF UsedSince
  <2>1. d \in holders /\ usock.age <= idle[d]
    BY DEF UdpProxyInv, UsedSince
  <2>2. usock.age \in Int /\ usock'.age \in Int /\ idle[d] \in Int
    BY UdpProxyAssumption DEF UdpProxyInv, UdpProxyTypeOK, Sockets
  <2> QED BY <2>1, <2>2
<1>6. QueueOfOne' /\ CurrentIsKnown'
  BY <1>1 DEF UdpProxyInv, QueueOfOne, CurrentIsKnown, Empty, Single
<1> QED
  BY <1>4, <1>5, <1>6 DEF UdpProxyInv, Exists

(* The popped event has been sent: its context waits for the answer, and   *)
(* its timers and the socket's are restarted together.                     *)
LEMMA SentKeeps == UdpProxyInv /\ RemoteSent => UdpProxyInv'
<1> SUFFICES ASSUME UdpProxyInv, RemoteSent PROVE UdpProxyInv'
  OBVIOUS
<1>1. /\ Single(wq) /\ wq.data[0] = current /\ current \in holders
      /\ current \in Events /\ IsFound(wq, current)
  <2>1. Single(wq) /\ wq.data[0] = current
    BY DEF RemoteSent, Handling, UdpProxyInv, CurrentIsKnown
  <2>2. current \in holders
    BY <2>1 DEF UdpProxyInv, QueueOfOne, Empty, Single
  <2>3. current \in Events
    BY <2>2 DEF UdpProxyInv, UdpProxyTypeOK
  <2> QED BY <2>1, <2>2, <2>3, RemoveEmpties
<1>2. Empty(wq') /\ wq' \in Queues /\ beyond' = FALSE /\ waiting' \subseteq Events
  BY <1>1, DisableEmpties DEF RemoteSent
<1>3. "remoteRead" \in Turns /\ "remoteRead" # "none"
  BY DEF Turns
<1>4. /\ turn' \in [Events -> Turns] /\ idle' \in [Events -> 0 .. ContextTimeout]
      /\ turn'[current] = "remoteRead" /\ idle'[current] = 0
      /\ \A d \in Events : d # current => turn'[d] = turn[d] /\ idle'[d] = idle[d]
  BY <1>1, <1>3, TurnChanges DEF RemoteSent
<1>5. usock' \in Sockets /\ usock'.age = 0 /\ usock'.open = usock.open
  BY SocketKeepsType DEF RemoteSent, Sockets
<1>6. /\ holders' = holders /\ entry' = entry /\ ufault' = ufault
      /\ current' = NULL /\ upc' = "pop"
  BY <1>1 DEF RemoteSent
<1>c. CallerFits'
  BY <1>6, CallerStays DEF RemoteSent
<1>7. UdpProxyTypeOK'
  BY <1>2, <1>4, <1>5, <1>6, <1>c DEF UdpProxyInv, UdpProxyTypeOK, WqTypeOK, Sockets, CallerFits
<1>8. UsedSince'
  <2> SUFFICES ASSUME NEW d \in Events, turn'[d] = "remoteRead"
               PROVE  d \in holders' /\ usock'.age <= idle'[d]
    BY DEF UsedSince
  <2>1. d \in holders
    BY <1>1, <1>4 DEF UdpProxyInv, UsedSince
  <2>2. idle'[d] \in Nat
    BY <1>4, UdpProxyAssumption
  <2> QED BY <1>5, <1>6, <2>1, <2>2
<1>9. \A d \in holders' : usock'.open /\ Exists(d)'
  BY <1>3, <1>4, <1>5, <1>6 DEF UdpProxyInv, UdpProxyTypeOK, Exists
<1> QED
  BY <1>2, <1>6, <1>7, <1>8, <1>9 DEF UdpProxyInv, QueueOfOne, CurrentIsKnown

(* When the socket runs out no context waits for an answer: it would have  *)
(* run out before.                                                         *)
LEMMA ExpiryKeeps == UdpProxyInv /\ SocketExpires => UdpProxyInv'
<1> SUFFICES ASSUME UdpProxyInv, SocketExpires PROVE UdpProxyInv'
  OBVIOUS
<1>1. \A e \in Events : turn[e] # "remoteRead"
  <2> SUFFICES ASSUME NEW e \in Events, turn[e] = "remoteRead" PROVE FALSE
    OBVIOUS
  <2>1. usock.age = SocketTimeout /\ usock.age <= idle[e]
    BY DEF SocketExpires, UdpProxyInv, UsedSince
  <2>2. idle[e] \in 0 .. ContextTimeout
    BY DEF UdpProxyInv, UdpProxyTypeOK
  <2> QED BY <2>1, <2>2, UdpProxyAssumption
<1>2. /\ usock' = NoSocket /\ holders' = {} /\ entry' = NULL /\ Empty(wq')
      /\ UNCHANGED <<waiting, beyond, turn, idle, upc, current, caller, ufault>> /\ upc = "rest"
  BY EmptyIsEmpty DEF SocketExpires, Rests
<1>3. NoSocket \in Sockets /\ wq' \in Queues
  BY <1>2, SocketKeepsType DEF Empty
<1>4. UdpProxyTypeOK'
  BY <1>2, <1>3 DEF UdpProxyInv, UdpProxyTypeOK, WqTypeOK, Sockets
<1> QED
  BY <1>1, <1>2, <1>4 DEF UdpProxyInv, QueueOfOne, CurrentIsKnown, UsedSince

(* All ages grow alike, and none beyond its timeout.                       *)
LEMMA TickKeeps == UdpProxyInv /\ Tick => UdpProxyInv'
<1> SUFFICES ASSUME UdpProxyInv, Tick PROVE UdpProxyInv'
  OBVIOUS
<1>1. /\ usock' \in Sockets /\ usock'.open = usock.open
      /\ usock.open => usock'.age = usock.age + 1
  BY SocketKeepsType DEF Tick, Sockets
<1>2. idle' \in [Events -> 0 .. ContextTimeout]
      /\ \A e \in Events : Exists(e) => idle'[e] = idle[e] + 1
  <2>1. \A e \in Events : (IF Exists(e) THEN idle[e] + 1 ELSE 0) \in 0 .. ContextTimeout
    BY UdpProxyAssumption DEF Tick, UdpProxyInv, UdpProxyTypeOK
  <2> QED BY <2>1 DEF Tick
<1>3. UNCHANGED <<wq, waiting, beyond, turn, holders, entry, upc, current, caller, ufault>>
  BY DEF Tick, wqVars
<1>4. UdpProxyTypeOK'
  BY <1>1, <1>2, <1>3 DEF UdpProxyInv, UdpProxyTypeOK, WqTypeOK, Sockets
<1>5. UsedSince'
  <2> SUFFICES ASSUME NEW d \in Events, turn'[d] = "remoteRead"
               PROVE  d \in holders' /\ usock'.age <= idle'[d]
    BY DEF UsedSince
  <2>1. d \in holders /\ usock.age <= idle[d] /\ usock.open
    BY <1>3 DEF UdpProxyInv, UsedSince
  <2>2. Exists(d)
    BY <1>3 DEF Exists
  <2>3. usock.age \in Int /\ idle[d] \in Int
    BY SocketKeepsType, UdpProxyAssumption DEF UdpProxyInv, UdpProxyTypeOK
  <2> QED BY <1>1, <1>2, <1>3, <2>1, <2>2, <2>3
<1>6. QueueOfOne' /\ CurrentIsKnown'
  BY <1>3 DEF UdpProxyInv, QueueOfOne, CurrentIsKnown, Empty, Single
<1> QED
  BY <1>1, <1>3, <1>4, <1>5, <1>6 DEF UdpProxyInv, Exists

(* The context whose event is being handled exists.                        *)
LEMMA CurrentHolds ==
  ASSUME UdpProxyInv, upc \in {"opened", "handle"}
  PROVE  current \in holders /\ current \in Events
  BY DEF UdpProxyInv, UdpProxyTypeOK, QueueOfOne, CurrentIsKnown, Empty, Single

LEMMA ClientStepKeeps ==
  ASSUME UdpProxyInv, NEW e \in Events, ClientSteps(e) \/ ContextExpires(e)
  PROVE  UdpProxyInv'
<1>1. CASE Open(e)
  BY <1>1, ContextOpenKeeps
<1>2. CASE OpenFails(e) \/ UseReleased(e)
  <2>1. ufault' \in UdpFaults \ {"disabled", "notFound"}
    BY <1>2 DEF OpenFails, UseReleased, UdpFaults
  <2>2. /\ UNCHANGED <<wq, waiting, beyond, turn, idle, usock, holders, entry, upc, current>>
        /\ CallerFits'
    BY <1>2, CallerStays DEF OpenFails, UseReleased, wqVars, Rests
  <2> QED BY <2>1, <2>2, SocketKeepsType, SocketStepKeeps
<1>3. CASE ClientRead(e)
  BY <1>3, ArmKeeps DEF ClientRead
<1>4. CASE ClientWrite(e)
  <2>1. "clientWrite" \in Turns \ {"none", "remoteRead"}
        /\ "clientRead" \in Turns \ {"none", "remoteRead"}
    BY DEF Turns
  <2>2. Exists(e) /\ upc # "handle"
        /\ UNCHANGED <<wq, waiting, beyond, usock, holders, entry, upc, current, ufault>>
        /\ ufault' \in UdpFaults \ {"disabled", "notFound"} /\ CallerFits'
    BY <1>4, CallerStays
       DEF ClientWrite, Exists, Rests, wqVars, UdpProxyInv, UdpProxyTypeOK
  <2>3. usock' \in Sockets /\ usock'.open = usock.open /\ usock'.age <= usock.age
    BY <2>2, SocketKeepsType
  <2> QED BY <1>4, <2>1, <2>2, <2>3, PassKeeps DEF ClientWrite
<1>5. CASE ClientStops(e) \/ ContextExpires(e)
  <2>1. upc' = "rest" /\ current' = NULL /\ CallerFits'
    BY <1>5, CallerStays DEF ClientStops, ContextExpires, Rests, UdpProxyInv, UdpProxyTypeOK
  <2> QED BY <1>5, <2>1, ContextStopKeeps DEF ClientStops, ContextExpires
<1> QED BY <1>1, <1>2, <1>3, <1>4, <1>5 DEF ClientSteps

LEMMA SocketStepsKeep == UdpProxyInv /\ SocketSteps => UdpProxyInv'
<1> SUFFICES ASSUME UdpProxyInv, SocketSteps PROVE UdpProxyInv'
  OBVIOUS
<1>0. /\ usock \in Sockets /\ usock.age \in Int /\ usock.age >= 0
      /\ [usock EXCEPT !.age = 0] \in Sockets
      /\ usock.left # 0 => [usock EXCEPT !.left = @ - 1, !.age = 0] \in Sockets
      /\ [usock EXCEPT !.age = 0, !.writable = FALSE] \in Sockets
      /\ ufault \in UdpFaults \ {"disabled", "notFound"}
  BY SocketKeepsType DEF UdpProxyInv, UdpProxyTypeOK
<1>1. CASE EndReads \/ ReadFault \/ Discard \/ PopNothing
  <2>1. /\ usock' \in Sockets /\ usock'.open = usock.open /\ usock'.age <= usock.age
        /\ UNCHANGED <<wq, waiting, beyond, turn, idle, holders, entry, current>>
    <3>1. CASE EndReads
      BY <1>0, <3>1 DEF EndReads, wqVars, Sockets
    <3>2. CASE ReadFault \/ PopNothing
      BY <1>0, <3>2 DEF ReadFault, PopNothing, wqVars
    <3>3. CASE Discard
      BY <1>0, <3>3 DEF Discard, Received, wqVars, Sockets
    <3> QED BY <1>1, <3>1, <3>2, <3>3
  <2>2. ufault' \in UdpFaults \ {"disabled", "notFound"} /\ CallerFits'
    <3>1. ufault' \in UdpFaults \ {"disabled", "notFound"}
      BY <1>0, <1>1 DEF EndReads, ReadFault, Discard, Received, PopNothing, LeaveWrites, UdpFaults
    <3>2. CallerFits'
      BY <1>1, CallerStays DEF EndReads, ReadFault, Discard, Received, PopNothing, LeaveWrites
    <3> QED BY <3>1, <3>2
  <2>3. upc \in {"read", "pop"} /\ upc' \in {"rest", "read", "pop"} /\ current = NULL
    BY <1>1 DEF EndReads, ReadFault, Discard, Received, PopNothing, LeaveWrites, UdpProxyInv,
       UdpProxyTypeOK
  <2> QED BY <2>1, <2>2, <2>3, SocketStepKeeps
<1>2. CASE RemoteAnswers
  <2>1. /\ usock' \in Sockets /\ usock'.open = usock.open /\ usock'.age <= usock.age
        /\ UNCHANGED <<wq, waiting, beyond, holders, entry, upc, current, ufault>>
        /\ upc = "read" /\ CallerFits'
    BY <1>0, <1>2, CallerStays DEF RemoteAnswers, Received, wqVars, Sockets
  <2>2. entry \in Events /\ Exists(entry) /\ Turn(entry, "clientWrite")
    BY <1>2 DEF RemoteAnswers, Listens, UdpProxyInv, UdpProxyTypeOK, Exists
  <2>3. "clientWrite" \in Turns \ {"none", "remoteRead"}
    BY DEF Turns
  <2> QED BY <1>0, <2>1, <2>2, <2>3, PassKeeps
<1>3. CASE Pop
  <2>1. Single(wq) /\ wq.data[0] \in waiting
    BY <1>3 DEF Pop, Serve, UdpProxyInv, QueueOfOne, Empty
  <2>2. UNCHANGED <<wq, waiting, beyond, turn, idle, usock, holders, entry, ufault>>
        /\ current' = wq.data[0] /\ upc' = "handle"
    BY <1>3, <2>1, MoveHeadKeepsSingle DEF Pop, Serve
  <2>3. CallerFits'
    BY <1>3, CallerStays DEF Pop
  <2> QED BY <1>0, <2>1, <2>2, <2>3, SocketStepKeeps
<1>4. CASE RemoteSent
  BY <1>4, SentKeeps
<1>5. CASE RemoteBlocked
  <2>1. /\ usock' \in Sockets /\ usock'.open = usock.open /\ usock'.age <= usock.age
        /\ UNCHANGED <<wq, waiting, beyond, holders, entry>>
        /\ upc' = "rest" /\ current' = NULL
        /\ ufault' \in UdpFaults \ {"disabled", "notFound"}
    BY <1>0, <1>5 DEF RemoteBlocked, LeaveWrites, wqVars, Sockets, UdpFaults
  <2>2. current \in Events /\ Exists(current) /\ Turn(current, "remoteWrite")
    BY <1>5, CurrentHolds DEF RemoteBlocked, Handling, UdpProxyInv
  <2>3. "remoteWrite" \in Turns \ {"none", "remoteRead"}
    BY DEF Turns
  <2>4. CallerFits'
    BY <1>5, CallerStays DEF RemoteBlocked, LeaveWrites
  <2> QED BY <2>1, <2>2, <2>3, <2>4, PassKeeps
<1>6. CASE RemoteSendFailed
  <2>1. current \in holders /\ current \in Events /\ StopContext(current) /\ CallerFits'
    BY <1>6, CurrentHolds, CallerStays DEF RemoteSendFailed, Handling
  <2> QED BY <1>6, <2>1, ContextStopKeeps DEF RemoteSendFailed
<1> QED BY <1>1, <1>2, <1>3, <1>4, <1>5, <1>6 DEF SocketSteps

LEMMA UdpProxyInvStep == UdpProxyInv /\ [UdpProxyNext]_udpProxyVars => UdpProxyInv'
<1> SUFFICES ASSUME UdpProxyInv, [UdpProxyNext]_udpProxyVars PROVE UdpProxyInv'
  OBVIOUS
<1>1. CASE UNCHANGED udpProxyVars
  <2>1. UNCHANGED <<wq, waiting, beyond, turn, idle, usock, holders, entry, upc, current,
                    caller, ufault>>
    BY <1>1 DEF udpProxyVars
  <2> QED
    BY <2>1 DEF UdpProxyInv, UdpProxyTypeOK, WqTypeOK, QueueOfOne, CurrentIsKnown, UsedSince,
       Empty, Single, Exists
<1>2. ASSUME NEW e \in Events, ClientSteps(e) \/ ContextExpires(e)
      PROVE  UdpProxyInv'
  BY <1>2, ClientStepKeeps
<1>3. CASE FirstRead
  <2>1. current \in holders /\ ArmRemoteWrite(current)
    BY <1>3, CurrentHolds DEF FirstRead
  <2> QED BY <2>1, ArmKeeps
<1>4. CASE FirstStops
  <2>1. current \in holders /\ current \in Events /\ StopContext(current) /\ CallerFits'
    BY <1>4, CurrentHolds, CallerStays DEF FirstStops
  <2> QED BY <1>4, <2>1, ContextStopKeeps DEF FirstStops
<1>5. ASSUME NEW in \in BOOLEAN, NEW out \in BOOLEAN, SocketEvent(in, out)
      PROVE  UdpProxyInv'
  <2>1. /\ usock' \in Sockets /\ usock'.open = usock.open /\ usock'.age <= usock.age
        /\ UNCHANGED <<wq, waiting, beyond, turn, idle, holders, entry, current, ufault>>
        /\ upc' \in {"read", "pop"} /\ upc = "rest"
    <3>1. usock' = [usock EXCEPT !.readable = @ \/ in, !.writable = @ \/ out]
      BY <1>5 DEF SocketEvent
    <3>2. usock \in Sockets /\ usock.age \in Int
      BY SocketKeepsType
    <3>3. usock'.open = usock.open /\ usock'.age = usock.age /\ usock' \in Sockets
      BY <3>1, <3>2 DEF Sockets
    <3>4. UNCHANGED <<wq, waiting, beyond, turn, idle, holders, entry, current, ufault>>
          /\ upc = "rest"
      BY <1>5 DEF SocketEvent, Rests, wqVars
    <3>5. upc' \in {"read", "pop"}
      BY <1>5 DEF SocketEvent
    <3> QED BY <3>2, <3>3, <3>4, <3>5
  <2>2. /\ current' = NULL /\ ufault' \in UdpFaults \ {"disabled", "notFound"}
        /\ CallerFits'
    BY <1>5, <2>1, CallerStays DEF SocketEvent, UdpProxyInv, UdpProxyTypeOK
  <2> QED BY <2>1, <2>2, SocketStepKeeps
<1>6. CASE SocketSteps
  BY <1>6, SocketStepsKeep
<1>7. CASE SocketExpires \/ Tick
  BY <1>7, ExpiryKeeps, TickKeeps
<1> QED BY <1>1, <1>2, <1>3, <1>4, <1>5, <1>6, <1>7 DEF UdpProxyNext

LEMMA UdpProxyInvariance == UdpProxySpec => []UdpProxyInv
<1>1. UdpProxyInit => UdpProxyInv
  BY UdpProxyInitInv
<1>2. UdpProxyInv /\ [UdpProxyNext]_udpProxyVars => UdpProxyInv'
  BY UdpProxyInvStep
<1> QED BY <1>1, <1>2, PTL DEF UdpProxySpec

-----------------------------------------------------------------------------
(* Type correctness of the proxy's shared socket, and of the turns.        *)
THEOREM UdpProxyTypeCorrect == UdpProxySpec => []UdpProxyTypeOK
<1>1. UdpProxyInv => UdpProxyTypeOK
  BY DEF UdpProxyInv
<1> QED BY <1>1, UdpProxyInvariance, PTL

(* However many contexts overwrite, queue and remove each other's under    *)
(* their one address, the socket points to living contexts only, and the   *)
(* CHECKs of the write loop hold.                                          *)
THEOREM UdpProxySocketHoldsLive == UdpProxySpec => []SocketHoldsLive
<1>1. UdpProxyInv => SocketHoldsLive
  <2> SUFFICES ASSUME UdpProxyInv PROVE SocketHoldsLive
    OBVIOUS
  <2>1. wq.size <= 1
    BY DEF UdpProxyInv, QueueOfOne, Empty, Single
  <2>2. \A p \in Cells : p < wq.size => wq.data[p] \in holders \cap waiting
    BY QueueAssumption DEF UdpProxyInv, QueueOfOne, Empty, Single, Cells
  <2> QED BY <2>1, <2>2 DEF SocketHoldsLive, UdpProxyInv
<1> QED BY <1>1, UdpProxyInvariance, PTL

(* No context loses the socket while it waits for its answer, for any two  *)
(* timeouts of which the socket's is the longer.                           *)
THEOREM UdpProxyAnswerHasSocket == UdpProxySpec => []AnswerHasSocket
<1>1. UdpProxyInv => AnswerHasSocket
  BY DEF UdpProxyInv, UsedSince, AnswerHasSocket
<1> QED BY <1>1, UdpProxyInvariance, PTL

-----------------------------------------------------------------------------
(***************************************************************************)
(* What contexts do to each other under their one address.                 *)
(***************************************************************************)
(* Another context begins, ends or has the queue's only place.             *)
Interferes(e) ==
  \E d \in Events \ {e} :
    (d \in holders) # (d \in holders') \/ (d \in holders /\ Holds(wq, d))

Blameless(e) == ~Deprived(e) /\ Deprived(e)' => Interferes(e)

(* The queue of one holds its event, and nothing else.                     *)
LEMMA SingleHolds ==
  ASSUME NEW q, Single(q)
  PROVE  \A e : Holds(q, e) <=> q.data[0] = e
<1>1. 0 \in Cells /\ 0 < q.size
  BY ZeroIsCell DEF Single
<1>2. \A p \in Cells : p < q.size => p = 0
  BY QueueAssumption DEF Single, Cells
<1> QED BY <1>1, <1>2 DEF Holds

LEMMA EmptyHolds ==
  ASSUME NEW q, Empty(q)
  PROVE  \A e : ~Holds(q, e)
  BY QueueAssumption DEF Empty, Holds, Cells

(* A step that leaves the table alone and takes no event out of the queue  *)
(* but such as are no longer armed.                                        *)
LEMMA KeepsOwn ==
  ASSUME NEW e \in Events, UNCHANGED <<holders, entry>>,
         turn'[e] = "remoteWrite" /\ ~Holds(wq', e) => turn[e] = "remoteWrite" /\ ~Holds(wq, e)
  PROVE  Blameless(e)
  BY DEF Blameless, Deprived

(* The queue is as it was, up to its head.                                 *)
LEMMA SameHolds ==
  ASSUME wq'.size = wq.size, wq'.data = wq.data, NEW e
  PROVE  Holds(wq', e) <=> Holds(wq, e)
  BY DEF Holds

LEMMA ArmBlameless ==
  ASSUME UdpProxyInv, NEW d \in holders, ArmRemoteWrite(d), NEW e \in Events
  PROVE  Blameless(e)
<1>1. d \in Events /\ UNCHANGED <<holders, entry>> /\ wq' = WqAdd(wq, d)
  BY DEF ArmRemoteWrite, UdpProxyInv, UdpProxyTypeOK
<1>2. e # d => turn'[e] = turn[e]
  BY DEF ArmRemoteWrite, Turn, UdpProxyInv, UdpProxyTypeOK
<1>3. CASE Empty(wq)
  <2>1. Holds(wq', d) /\ ~Holds(wq, e)
    BY <1>1, <1>3, AddMakesSingle, SingleHolds, EmptyHolds
  <2> QED BY <1>1, <1>2, <2>1, KeepsOwn
<1>4. CASE Single(wq) /\ wq.data[0] \in holders \cap waiting
  <2>1. wq' = wq /\ Holds(wq, wq.data[0]) /\ wq.data[0] \in Events
    BY <1>1, <1>4, AddMakesSingle, SingleHolds DEF UdpProxyInv, UdpProxyTypeOK
  <2>2. CASE e # d \/ wq.data[0] = e
    BY <1>1, <1>2, <2>1, <2>2, KeepsOwn
  <2>3. CASE wq.data[0] # e
    BY <1>4, <2>1, <2>3 DEF Blameless, Interferes
  <2> QED BY <2>2, <2>3
<1> QED BY <1>3, <1>4 DEF UdpProxyInv, QueueOfOne

LEMMA StopBlameless ==
  ASSUME UdpProxyInv, NEW d \in holders, StopContext(d), NEW e \in Events
  PROVE  Blameless(e)
<1>1. d \in Events /\ holders' = holders \ {d}
  BY DEF StopContext, UdpProxyInv, UdpProxyTypeOK
<1>2. CASE e = d
  BY <1>1, <1>2 DEF Blameless, Deprived
<1>3. CASE e # d
  BY <1>1, <1>3 DEF Blameless, Interferes
<1> QED BY <1>2, <1>3

LEMMA ClientStepBlameless ==
  ASSUME UdpProxyInv, NEW d \in Events, ClientSteps(d) \/ ContextExpires(d), NEW e \in Events
  PROVE  Blameless(e)
<1>1. turn \in [Events -> Turns] /\ holders \subseteq Events
  BY DEF UdpProxyInv, UdpProxyTypeOK
<1>2. CASE Open(d)
  <2>1. /\ turn[d] = "none" /\ turn' = [turn EXCEPT ![d] = "clientRead"]
        /\ entry' = d /\ d \in holders'
    BY <1>2 DEF Open, AddConn, Turn
  <2>2. d \notin holders
    BY <2>1 DEF UdpProxyInv, Exists
  <2>3. CASE e = d
    BY <1>1, <2>1, <2>3 DEF Blameless, Deprived
  <2>4. CASE e # d
    BY <2>1, <2>2, <2>4 DEF Blameless, Interferes
  <2> QED BY <2>3, <2>4
<1>3. CASE OpenFails(d) \/ UseReleased(d)
  BY <1>3, KeepsOwn DEF OpenFails, UseReleased, wqVars
<1>4. CASE ClientRead(d)
  BY <1>4, ArmBlameless DEF ClientRead
<1>5. CASE ClientWrite(d)
  <2>1. turn' = [turn EXCEPT ![d] = "clientWrite"] \/ turn' = [turn EXCEPT ![d] = "clientRead"]
    BY <1>5 DEF ClientWrite, Turn
  <2>2. turn'[e] = "remoteWrite" => turn[e] = "remoteWrite"
    BY <1>1, <2>1
  <2> QED BY <1>5, <2>2, KeepsOwn DEF ClientWrite, wqVars
<1>6. CASE ClientStops(d) \/ ContextExpires(d)
  BY <1>6, StopBlameless DEF ClientStops, ContextExpires
<1> QED BY <1>2, <1>3, <1>4, <1>5, <1>6 DEF ClientSteps

LEMMA SocketStepBlameless ==
  ASSUME UdpProxyInv, SocketSteps, NEW e \in Events
  PROVE  Blameless(e)
<1>1. turn \in [Events -> Turns]
  BY DEF UdpProxyInv, UdpProxyTypeOK
<1>2. CASE EndReads \/ ReadFault \/ PopNothing \/ Discard
  <2>1. UNCHANGED <<wq, turn, holders, entry>>
    BY <1>2 DEF EndReads, ReadFault, PopNothing, Discard, Received, wqVars
  <2> QED BY <2>1, KeepsOwn
<1>3. CASE RemoteAnswers
  <2>1. turn' = [turn EXCEPT ![entry] = "clientWrite"] /\ UNCHANGED <<wq, holders, entry>>
    BY <1>3 DEF RemoteAnswers, Received, Turn, wqVars
  <2>2. turn'[e] = "remoteWrite" => turn[e] = "remoteWrite"
    BY <1>1, <2>1
  <2> QED BY <2>1, <2>2, KeepsOwn
<1>4. CASE Pop
  <2>1. UNCHANGED <<turn, holders, entry>> /\ wq' = MoveHead(wq)
    BY <1>4 DEF Pop, Serve
  <2>2. wq'.size = wq.size /\ wq'.data = wq.data
    BY <2>1 DEF MoveHead, UdpProxyInv, QueueOfOne, Empty, Single, Queues
  <2> QED BY <2>1, <2>2, SameHolds, KeepsOwn
<1>5. ASSUME Handling
      PROVE  current \in Events /\ current \in holders /\ (Holds(wq, e) <=> current = e)
  BY <1>5, CurrentHolds, SingleHolds DEF Handling, UdpProxyInv, CurrentIsKnown
<1>6. CASE RemoteSent
  <2>1. Handling /\ turn' = [turn EXCEPT ![current] = "remoteRead"] /\ UNCHANGED <<holders, entry>>
    BY <1>6 DEF RemoteSent, Turn
  <2>2. turn'[e] = "remoteWrite" => turn[e] = "remoteWrite" /\ e # current
    BY <1>1, <2>1
  <2> QED BY <1>5, <2>1, <2>2, KeepsOwn
<1>7. CASE RemoteBlocked
  <2>1. /\ Handling /\ UNCHANGED <<wq, holders, entry>>
        /\ turn' = [turn EXCEPT ![current] = "remoteWrite"]
    BY <1>7 DEF RemoteBlocked, Turn, wqVars
  <2>2. turn'[e] = "remoteWrite" => turn[e] = "remoteWrite" \/ e = current
    BY <1>1, <2>1
  <2> QED BY <1>5, <2>1, <2>2, KeepsOwn
<1>8. CASE RemoteSendFailed
  BY <1>5, <1>8, StopBlameless DEF RemoteSendFailed
<1> QED BY <1>2, <1>3, <1>4, <1>6, <1>7, <1>8 DEF SocketSteps

LEMMA StepBlameless ==
  ASSUME UdpProxyInv, UdpProxyNext, NEW e \in Events
  PROVE  Blameless(e)
<1>1. ASSUME NEW d \in Events, ClientSteps(d) \/ ContextExpires(d)
      PROVE  Blameless(e)
  BY <1>1, ClientStepBlameless
<1>2. CASE FirstRead
  BY <1>2, CurrentHolds, ArmBlameless DEF FirstRead
<1>3. CASE FirstStops
  BY <1>3, CurrentHolds, StopBlameless DEF FirstStops
<1>4. ASSUME NEW in \in BOOLEAN, NEW out \in BOOLEAN, SocketEvent(in, out)
      PROVE  Blameless(e)
  BY <1>4, KeepsOwn DEF SocketEvent, wqVars
<1>5. CASE SocketSteps
  BY <1>5, SocketStepBlameless
<1>6. CASE SocketExpires
  BY <1>6 DEF SocketExpires, Blameless, Deprived
<1>7. CASE Tick
  BY <1>7, KeepsOwn DEF Tick, wqVars
<1> QED BY <1>1, <1>2, <1>3, <1>4, <1>5, <1>6, <1>7 DEF UdpProxyNext

(* A context loses its entry in the connection table, or its place in the  *)
(* queue, only to another context: for any number of them, any capacity,   *)
(* and both timeouts.                                                      *)
THEOREM UdpProxyLosesOnlyToAnother == UdpProxySpec => LosesOnlyToAnother
<1>1. UdpProxyInv /\ [UdpProxyNext]_udpProxyVars =>
        [\A e \in Events : ~Deprived(e) /\ Deprived(e)' =>
           \E d \in Events \ {e} :
             \/ (d \in holders) # (d \in holders')
             \/ d \in holders /\ Holds(wq, d)]_udpProxyVars
  BY StepBlameless DEF Blameless, Interferes
<1> QED BY <1>1, UdpProxyInvariance, PTL DEF UdpProxySpec, LosesOnlyToAnother
=============================================================================
