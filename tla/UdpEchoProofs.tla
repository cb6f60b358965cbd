--------------------------- MODULE UdpEchoProofs ---------------------------
(***************************************************************************)
(* Proofs about the UDP write queue, for every capacity, set of events and *)
(* assignment of addresses, shared addresses included; and about the UDP   *)
(* echo server, for every number of peers, queue and buffer size.  Its use *)
(* of the queue is a use the queue's own specification allows, so what is  *)
(* proved of the queue holds of the server.                                *)
(***************************************************************************)
EXTENDS UdpEcho, TLAPS

(***************************************************************************)
(* The queue.                                                              *)
(***************************************************************************)
(* A well-formed queue: the part of the invariant that each operation      *)
(* keeps whatever the events are used for.                                 *)
Good(q) == q \in Queues /\ Packed(q) /\ HeadOnUsedCell(q)

WqInv == WqTypeOK /\ QueuePacked /\ HeadServesWaiting

-----------------------------------------------------------------------------
LEMMA EmptyGood == Good(EmptyQueue) /\ \A W : Serves(EmptyQueue, W)
  BY QueueAssumption DEF Good, EmptyQueue, Queues, Cells, Packed, HeadOnUsedCell, Serves

(* An event added at the end keeps the queue packed: its cell was unused.  *)
LEMMA AddGood ==
  ASSUME NEW q, Good(q), NEW e \in Events, NEW W, Serves(q, W)
  PROVE  Good(WqAdd(q, e)) /\ Serves(WqAdd(q, e), W \cup {e})
<1>1. CASE IsFull(q) \/ IsOccupied(q, e)
  BY <1>1 DEF WqAdd, Serves
<1>2. CASE ~(IsFull(q) \/ IsOccupied(q, e))
  <2> DEFINE r == AddAtEnd(q, e)
  <2>1. q.size \in Cells /\ q.size \in Nat
    BY <1>2, QueueAssumption DEF IsFull, Good, Queues, Cells
  <2>2. KeyOf[e] \in Keys
    BY QueueAssumption
  <2>3. /\ r.data = [q.data EXCEPT ![q.size] = e]
        /\ r.index = [q.index EXCEPT ![KeyOf[e]] = q.size]
        /\ r.size = q.size + 1
        /\ r.head = q.head
        /\ r = [data |-> r.data, head |-> r.head, size |-> r.size, index |-> r.index]
    BY DEF AddAtEnd
  <2> HIDE DEF r
  <2>r. r \in Queues
    <3>1. r.data \in [Cells -> Events \cup {NULL}] /\ r.index \in [Keys -> Cells \cup {NULL}]
      BY <2>1, <2>2, <2>3 DEF Good, Queues
    <3>2. r.size \in 0 .. QCapacity /\ r.head \in Cells
      BY <2>1, <2>3, QueueAssumption DEF Good, Queues, Cells
    <3> QED BY <2>3, <3>1, <3>2 DEF Queues
  <2>4. ASSUME NEW p \in Cells, p < r.size
        PROVE  r.data[p] # NULL /\ r.index[KeyOf[r.data[p]]] = p /\ r.data[p] \in W \cup {e}
    <3>1. CASE p = q.size
      BY <2>1, <2>2, <2>3, <3>1, QueueAssumption DEF Good, Queues
    <3>2. CASE p # q.size
      <4>1. p < q.size
        BY <2>1, <2>3, <2>4, <3>2 DEF Cells
      <4>2. q.data[p] # NULL /\ q.index[KeyOf[q.data[p]]] = p /\ q.data[p] \in W
        BY <4>1 DEF Good, Packed, Serves
      <4>3. q.data[p] \in Events /\ KeyOf[q.data[p]] \in Keys
        BY <4>2, QueueAssumption DEF Good, Queues
      <4>4. KeyOf[q.data[p]] # KeyOf[e]
        BY <1>2, <4>2, QueueAssumption DEF IsOccupied, Cells
      <4> QED
        BY <2>1, <2>2, <2>3, <3>2, <4>2, <4>3, <4>4 DEF Good, Queues
    <3> QED BY <3>1, <3>2
  <2>5. HeadOnUsedCell(r)
    BY <2>1, <2>3 DEF Good, HeadOnUsedCell, Queues, Cells
  <2>6. WqAdd(q, e) = r
    BY <1>2 DEF WqAdd, r
  <2> QED
    BY <2>r, <2>3, <2>4, <2>5, <2>6 DEF Good, Packed, Serves
<1> QED BY <1>1, <1>2

(* Serving moves the head only, and keeps it on the used cells.            *)
LEMMA MoveGood ==
  ASSUME NEW q, Good(q), q.size # 0, NEW W, Serves(q, W)
  PROVE  Good(MoveHead(q)) /\ Serves(MoveHead(q), W)
<1> DEFINE r == MoveHead(q)
<1>1. /\ r.data = q.data /\ r.index = q.index /\ r.size = q.size
      /\ r.head = IF q.head + 1 = q.size THEN 0 ELSE q.head + 1
      /\ r \in [data : [Cells -> Events \cup {NULL}], head : {r.head},
                size : 0 .. QCapacity, index : [Keys -> Cells \cup {NULL}]]
  BY DEF MoveHead, Good, Queues
<1> HIDE DEF r
<1>2. q.head < q.size /\ q.head \in Cells /\ q.size \in 0 .. QCapacity
  BY DEF Good, HeadOnUsedCell, Queues
<1>3. r.head \in Cells /\ r.head < q.size
  BY <1>1, <1>2, QueueAssumption DEF Cells
<1> QED
  BY <1>1, <1>3 DEF Good, Queues, Packed, HeadOnUsedCell, Serves, r

(* Removing keeps the queue packed, stale keys or not: whichever cell the  *)
(* table names, the last used cell is the only one that is given up.  The  *)
(* removed event itself is not served any more.                            *)
LEMMA RemoveGood ==
  ASSUME NEW q, Good(q), NEW e \in Events, ~RemoveReadsBeyond(q, e),
         NEW W, Serves(q, W)
  PROVE  Good(WqRemove(q, e)) /\ Serves(WqRemove(q, e), W \ {e})
<1>0. KeyOf[e] \in Keys /\ q \in Queues
  BY QueueAssumption DEF Good
<1>1. CASE ~IsFound(q, e)
  <2>1. \A p \in Cells : p < q.size => q.data[p] # e
    BY <1>1, QueueAssumption DEF Good, Packed, IsFound, Cells
  <2> QED BY <1>1, <2>1 DEF WqRemove, Serves
<1>2. CASE IsFound(q, e) /\ q.size = 1
  <2> DEFINE r == RemoveOnly(q, e)
  <2>0. q.index[KeyOf[e]] \in Cells /\ 0 \in Cells
    BY <1>0, <1>2, QueueAssumption DEF IsFound, Queues, Cells
  <2>1. r \in Queues /\ r.size = 0 /\ r.head = 0
    BY <1>0, <2>0, QueueAssumption DEF RemoveOnly, Queues
  <2>2. WqRemove(q, e) = r
    BY <1>2 DEF WqRemove
  <2> HIDE DEF r
  <2> QED
    BY <2>1, <2>2 DEF Good, Packed, HeadOnUsedCell, Serves, Cells
<1>3. CASE IsFound(q, e) /\ q.size # 1
  <2> DEFINE r    == RemoveSwap(q, e)
             pos  == q.index[KeyOf[e]]
             last == q.size - 1
             f    == q.data[last]
  <2>1. /\ pos \in Cells
        /\ q.size \in Nat /\ q.size <= QCapacity
        /\ last \in Cells /\ last > 0
    BY <1>0, <1>3, QueueAssumption DEF IsFound, RemoveReadsBeyond, Queues, Cells
  <2>2. f \in Events /\ q.index[KeyOf[f]] = last /\ KeyOf[f] \in Keys
    BY <1>0, <2>1, QueueAssumption DEF Good, Packed, Queues, Cells
  <2>3. /\ r.data = [q.data EXCEPT ![pos] = f, ![last] = NULL]
        /\ r.index = [q.index EXCEPT ![KeyOf[e]] = NULL, ![KeyOf[f]] = pos]
        /\ r.size = last
        /\ r.head = IF q.head = last THEN 0 ELSE q.head
        /\ r = [data |-> r.data, head |-> r.head, size |-> r.size, index |-> r.index]
    BY DEF RemoveSwap
  <2>4. WqRemove(q, e) = r
    BY <1>3 DEF WqRemove
  <2> HIDE DEF r
  <2>r. r \in Queues
    <3>1. r.data \in [Cells -> Events \cup {NULL}] /\ r.index \in [Keys -> Cells \cup {NULL}]
      BY <1>0, <2>1, <2>2, <2>3 DEF Queues
    <3>2. r.size \in 0 .. QCapacity /\ r.head \in Cells
      BY <1>0, <2>1, <2>3, QueueAssumption DEF Queues, Cells
    <3> QED BY <2>3, <3>1, <3>2 DEF Queues
  <2>5. ASSUME NEW p \in Cells, p < last
        PROVE  r.data[p] # NULL /\ r.index[KeyOf[r.data[p]]] = p /\ r.data[p] \in W \ {e}
    <3>1. q.data[p] \in Events /\ q.index[KeyOf[q.data[p]]] = p
          /\ KeyOf[q.data[p]] \in Keys /\ q.data[p] \in W /\ f \in W
      BY <1>0, <2>1, <2>5, QueueAssumption DEF Good, Packed, Queues, Cells, Serves
    <3>2. CASE p = pos
      <4>1. r.data[p] = f
        BY <1>0, <2>1, <2>3, <2>5, <3>2, QueueAssumption DEF Queues, Cells
      <4>2. r.index[KeyOf[f]] = p
        BY <1>0, <2>2, <2>3, <3>2 DEF Queues
      <4>3. f # e
        BY <2>1, <2>2, <2>5, <3>2, QueueAssumption DEF Cells
      <4> QED BY <2>2, <3>1, <4>1, <4>2, <4>3, QueueAssumption
    <3>3. CASE p # pos
      <4>1. r.data[p] = q.data[p]
        BY <1>0, <2>1, <2>3, <2>5, <3>3, QueueAssumption DEF Queues, Cells
      <4>2. KeyOf[q.data[p]] # KeyOf[e] /\ KeyOf[q.data[p]] # KeyOf[f]
        BY <2>1, <2>2, <2>5, <3>1, <3>3, QueueAssumption DEF Cells
      <4>3. r.index[KeyOf[q.data[p]]] = p
        BY <1>0, <2>2, <2>3, <3>1, <4>2 DEF Queues
      <4> QED BY <3>1, <4>1, <4>2, <4>3, QueueAssumption
    <3> QED BY <3>2, <3>3
  <2>6. HeadOnUsedCell(r)
    BY <1>0, <2>1, <2>3 DEF Good, HeadOnUsedCell, Queues, Cells
  <2> QED
    BY <2>r, <2>3, <2>4, <2>5, <2>6 DEF Good, Packed, Serves
<1> QED BY <1>1, <1>2, <1>3

-----------------------------------------------------------------------------
LEMMA WqInvGood == WqInv <=> /\ Good(wq) /\ Serves(wq, waiting)
                             /\ waiting \subseteq Events /\ beyond \in BOOLEAN
  BY DEF WqInv, WqTypeOK, QueuePacked, HeadServesWaiting, Good

LEMMA WqInvStep == WqInv /\ [WqNext]_wqVars => WqInv'
<1> SUFFICES ASSUME WqInv, [WqNext]_wqVars PROVE WqInv'
  OBVIOUS
<1>1. /\ Good(wq) /\ Serves(wq, waiting)
      /\ waiting \subseteq Events /\ beyond \in BOOLEAN
  BY WqInvGood
<1>2. SUFFICES /\ Good(wq') /\ Serves(wq', waiting')
               /\ waiting' \subseteq Events /\ beyond' \in BOOLEAN
  BY DEF WqInv, WqTypeOK, QueuePacked, HeadServesWaiting, Good
<1>3. ASSUME NEW e \in Events, Enable(e)
      PROVE  /\ Good(wq') /\ Serves(wq', waiting')
             /\ waiting' \subseteq Events /\ beyond' \in BOOLEAN
  <2>1. Good(wq') /\ Serves(wq', waiting \cup {e})
    BY <1>1, <1>3, AddGood DEF Enable
  <2>2. CASE IsFull(wq)
    BY <1>1, <1>3, <2>2 DEF Enable, WqAdd
  <2>3. CASE ~IsFull(wq)
    BY <1>1, <1>3, <2>1, <2>3 DEF Enable
  <2> QED BY <2>2, <2>3
<1>4. ASSUME NEW e \in Events, Disable(e)
      PROVE  /\ Good(wq') /\ Serves(wq', waiting')
             /\ waiting' \subseteq Events /\ beyond' \in BOOLEAN
  <2>1. CASE RemoveReadsBeyond(wq, e)
    <3>1. wq.size = 0 /\ wq' = wq
      BY <1>4, <2>1 DEF Disable, RemoveReadsBeyond
    <3>2. \A p \in Cells : ~(p < wq.size)
      BY <3>1 DEF Cells
    <3> QED BY <1>1, <1>4, <2>1, <3>1, <3>2 DEF Disable, Serves
  <2>2. CASE ~RemoveReadsBeyond(wq, e)
    <3>1. wq' = WqRemove(wq, e) /\ waiting' = waiting \ {e} /\ beyond' = FALSE
      BY <1>4, <2>2 DEF Disable, RemoveReadsBeyond
    <3> QED BY <1>1, <2>2, <3>1, RemoveGood
  <2> QED BY <2>1, <2>2
<1>5. CASE Serve
  BY <1>1, <1>5, MoveGood DEF Serve
<1>6. CASE UNCHANGED wqVars
  BY <1>1, <1>6 DEF wqVars
<1> QED BY <1>3, <1>4, <1>5, <1>6 DEF WqNext

LEMMA WqInvariance == WqSpec => []WqInv
<1>1. WqInit => WqInv
  BY EmptyGood, WqInvGood DEF WqInit
<1> QED BY <1>1, WqInvStep, PTL DEF WqSpec

(* Type correctness: no cell outside the array is written.                 *)
THEOREM WqTypeCorrect == WqSpec => []WqTypeOK
<1>1. WqInv => WqTypeOK BY DEF WqInv
<1> QED BY <1>1, WqInvariance, PTL

(* The used cells stay packed and exactly indexed.                         *)
THEOREM WqStaysPacked == WqSpec => []QueuePacked
<1>1. WqInv => QueuePacked BY DEF WqInv
<1> QED BY <1>1, WqInvariance, PTL

(* The head serves enabled events only.                                    *)
THEOREM WqServesWaiting == WqSpec => []HeadServesWaiting
<1>1. WqInv => HeadServesWaiting BY DEF WqInv
<1> QED BY <1>1, WqInvariance, PTL

-----------------------------------------------------------------------------
(***************************************************************************)
(* The server.                                                             *)
(***************************************************************************)
(* What is known of the event that handle_writes has popped.               *)
PoppedIsQueued ==
  pc = "handle" => current \in waiting /\ IsFound(wq, current)

UdpInv ==
  /\ UdpTypeOK
  /\ WqInv
  /\ waiting \subseteq live
  /\ OneDirection
  /\ PoppedIsQueued
  /\ WriteChecksHold

-----------------------------------------------------------------------------
(* Each step of the server is one step of the queue's specification.       *)
LEMMA UdpStepIsQueueStep ==
  ASSUME UdpTypeOK, [UdpNext]_udpVars
  PROVE  [WqNext]_wqVars
<1>1. CASE UNCHANGED udpVars
  BY <1>1 DEF udpVars, wqVars
<1>2. ASSUME NEW in \in BOOLEAN, NEW out \in BOOLEAN, SocketEvent(in, out)
      PROVE  UNCHANGED wqVars
  BY <1>2 DEF SocketEvent
<1>3. CASE EndReads \/ ReadFault \/ PopNothing \/ Blocked
  BY <1>3 DEF EndReads, ReadFault, PopNothing, Blocked
<1>4. ASSUME NEW e \in Events, NEW n \in Lengths, Datagram(e, n)
      PROVE  Enable(e) \/ UNCHANGED wqVars
  BY <1>4 DEF Datagram
<1>5. CASE Pop
  BY <1>5 DEF Pop, WqNext
<1>6. CASE Sent \/ SendFailed
  <2>1. current \in Events
    BY <1>6, QueueAssumption DEF Sent, SendFailed, UdpTypeOK
  <2>2. Disable(current)
    BY <1>6 DEF Sent, SendFailed, FreeConnection
  <2> QED BY <2>1, <2>2 DEF WqNext
<1>7. ASSUME NEW e \in Events, Timeout(e)
      PROVE  Disable(e)
  BY <1>7 DEF Timeout, FreeConnection
<1> QED
  BY <1>1, <1>2, <1>3, <1>4, <1>5, <1>6, <1>7 DEF UdpNext, Reads, Writes, WqNext

(* Freeing a connection takes it out of all the sets together.             *)
LEMMA FreeKeeps ==
  ASSUME UdpInv, NEW e \in Events, FreeConnection(e)
  PROVE  /\ waiting' \subseteq live' /\ live' \subseteq Events
         /\ reading' \subseteq live' /\ reading' \cap waiting' = {}
         /\ fault' \in Faults /\ fault' \notin {"disabled", "notFound"}
  BY DEF UdpInv, UdpTypeOK, WriteChecksHold, OneDirection, FreeConnection, Disable, Faults

(* The event at the head of a queue that is not empty is queued and found. *)
LEMMA FrontIsFound ==
  ASSUME WqInv, wq.size # 0
  PROVE  Front(wq) \in waiting /\ Front(wq) \in Events /\ IsFound(wq, Front(wq))
         /\ IsFound(MoveHead(wq), Front(wq))
<1>1. wq \in Queues /\ wq.head \in Cells /\ wq.head < wq.size
  BY DEF WqInv, WqTypeOK, Queues, HeadServesWaiting, HeadOnUsedCell
<1>2. Front(wq) \in waiting /\ Front(wq) \in Events
  BY <1>1 DEF WqInv, WqTypeOK, HeadServesWaiting, Serves, Front
<1>3. wq.index[KeyOf[Front(wq)]] = wq.head
  BY <1>1 DEF WqInv, QueuePacked, Packed, Front
<1>4. wq.head # NULL
  BY <1>1, QueueAssumption DEF Cells
<1>5. MoveHead(wq).index = wq.index
  BY DEF MoveHead, WqInv, WqTypeOK, Queues
<1> QED BY <1>2, <1>3, <1>4, <1>5 DEF IsFound

LEMMA UdpInvStep == UdpInv /\ [UdpNext]_udpVars => UdpInv'
<1> SUFFICES ASSUME UdpInv, [UdpNext]_udpVars PROVE UdpInv'
  OBVIOUS
<1>0. WqInv' /\ WqTypeOK'
  BY UdpStepIsQueueStep, WqInvStep DEF UdpInv, WqInv
<1> DEFINE Rest == /\ live' \subseteq Events /\ reading' \subseteq live'
                   /\ readable' \in BOOLEAN /\ writable' \in BOOLEAN
                   /\ left' \in 0 .. BufSize
                   /\ pc' \in {"idle", "read", "pop", "handle"}
                   /\ current' \in Events \cup {NULL} /\ (current' # NULL <=> pc' = "handle")
                   /\ caller' \in Events \cup {NULL}
                   /\ fault' \in Faults
                   /\ waiting' \subseteq live'
                   /\ OneDirection'
                   /\ PoppedIsQueued'
                   /\ WriteChecksHold'
<1> SUFFICES Rest
  BY <1>0 DEF UdpInv, UdpTypeOK
<1> USE DEF UdpInv, UdpTypeOK, OneDirection, PoppedIsQueued, WriteChecksHold
<1>1. CASE UNCHANGED udpVars
  BY <1>1 DEF udpVars
<1>2. ASSUME NEW in \in BOOLEAN, NEW out \in BOOLEAN, SocketEvent(in, out)
      PROVE  Rest
  BY <1>2, QueueAssumption DEF SocketEvent, wqVars
<1>3. CASE EndReads \/ ReadFault
  BY <1>3, QueueAssumption DEF EndReads, ReadFault, Faults, wqVars
<1>4. ASSUME NEW e \in Events, NEW n \in Lengths, Datagram(e, n)
      PROVE  Rest
  <2>1. left' \in 0 .. BufSize
    BY <1>4, BufAssumption DEF Datagram, Received
  <2>2. pc = "read" /\ current' = current /\ current = NULL
    BY <1>4 DEF Datagram
  <2>3. CASE e \in live /\ e \notin reading
    BY <1>4, <2>1, <2>2, <2>3 DEF Datagram, wqVars
  <2>4. CASE ~(e \in live /\ e \notin reading)
    <3>1. waiting' \subseteq waiting \cup {e} /\ reading' = reading \ {e}
      BY <1>4, <2>4 DEF Datagram, Enable
    <3>2. live' = live \cup {e} /\ fault' = fault
          /\ readable' = readable /\ writable' = writable
      BY <1>4 DEF Datagram
    <3>3. pc' \in {"read", "pop"} /\ caller' \in Events \cup {NULL}
      BY <1>4, <2>2, <2>4 DEF Datagram
    <3> QED BY <2>1, <2>2, <3>1, <3>2, <3>3
  <2> QED BY <2>3, <2>4
<1>5. CASE PopNothing \/ Blocked
  BY <1>5 DEF PopNothing, Blocked, LeaveWrites, Faults, wqVars
<1>6. CASE Pop
  <2>1. /\ current' \in waiting /\ current' \in Events /\ IsFound(wq', current')
        /\ waiting' = waiting
    BY <1>6, FrontIsFound DEF Pop, Serve
  <2> QED BY <1>6, <2>1, QueueAssumption DEF Pop
<1>7. CASE Sent
  <2>1. current \in waiting /\ IsFound(wq, current) /\ current \in Events
    BY <1>7, QueueAssumption DEF Sent
  <2>2. waiting' = waiting \ {current}
    BY <1>7 DEF Sent, Disable
  <2>3. fault' \in {"beyond", fault}
    BY <1>7, <2>1 DEF Sent
  <2> QED BY <1>7, <2>1, <2>2, <2>3 DEF Sent, Faults
<1>8. CASE SendFailed
  <2>1. current \in Events
    BY <1>8, QueueAssumption DEF SendFailed
  <2>2. FreeConnection(current)
    BY <1>8 DEF SendFailed
  <2> QED BY <1>8, <2>1, <2>2, FreeKeeps DEF SendFailed
<1>9. ASSUME NEW e \in Events, Timeout(e)
      PROVE  Rest
  <2>1. FreeConnection(e)
    BY <1>9 DEF Timeout
  <2> QED BY <1>9, <2>1, FreeKeeps DEF Timeout
<1> QED
  BY <1>1, <1>2, <1>3, <1>4, <1>5, <1>6, <1>7, <1>8, <1>9 DEF UdpNext, Reads, Writes

LEMMA UdpInvariance == UdpSpec => []UdpInv
<1>1. UdpInit => UdpInv
  <2> SUFFICES ASSUME UdpInit PROVE UdpInv
    OBVIOUS
  <2>1. WqInv
    BY EmptyGood, WqInvGood DEF UdpInit, WqInit
  <2>2. WqTypeOK
    BY <2>1 DEF WqInv
  <2>3. UdpTypeOK
    <3>1. readable \in BOOLEAN /\ writable \in BOOLEAN
      BY Zenon DEF UdpInit
    <3>2. live \subseteq Events /\ reading \subseteq live /\ left \in 0 .. BufSize
      BY BufAssumption DEF UdpInit
    <3>3. pc = "idle" /\ current = NULL /\ caller = NULL /\ fault = "none"
      BY DEF UdpInit
    <3> QED BY <2>2, <3>1, <3>2, <3>3 DEF UdpTypeOK, Faults
  <2> QED
    BY <2>1, <2>3 DEF UdpInit, WqInit, UdpInv, OneDirection, PoppedIsQueued, WriteChecksHold
<1> QED BY <1>1, UdpInvStep, PTL DEF UdpSpec

-----------------------------------------------------------------------------
(* The server implements the specification of its write queue.             *)
LEMMA UdpImplementsQueue == UdpSpec => WqSpec
<1>1. UdpInit => WqInit BY DEF UdpInit
<1>2. UdpInv /\ [UdpNext]_udpVars => [WqNext]_wqVars
  BY UdpStepIsQueueStep DEF UdpInv
<1> QED BY <1>1, <1>2, UdpInvariance, PTL DEF UdpSpec, WqSpec

(* Type correctness of the whole socket.                                   *)
THEOREM UdpTypeCorrect == UdpSpec => []UdpTypeOK
<1>1. UdpInv => UdpTypeOK BY DEF UdpInv
<1> QED BY <1>1, UdpInvariance, PTL

(* The write loop never handles an event of a freed connection.            *)
THEOREM UdpQueuedAreLive == UdpSpec => []QueuedAreLive
<1>1. UdpInv => QueuedAreLive
  BY DEF UdpInv, WqInv, HeadServesWaiting, Serves, QueuedAreLive
<1> QED BY <1>1, UdpInvariance, PTL

(* No connection is armed for reading and writing at once.                 *)
THEOREM UdpOneDirection == UdpSpec => []OneDirection
<1>1. UdpInv => OneDirection BY DEF UdpInv
<1> QED BY <1>1, UdpInvariance, PTL

(* The CHECKs of handle_writes and udp_del_event never fail.               *)
THEOREM UdpWriteChecksHold == UdpSpec => []WriteChecksHold
<1>1. UdpInv => WriteChecksHold BY DEF UdpInv
<1> QED BY <1>1, UdpInvariance, PTL

-----------------------------------------------------------------------------
(***************************************************************************)
(* Stale keys, and connections that go deaf.                               *)
(***************************************************************************)
(* What the operations do to an exact queue: the event added is held if    *)
(* the queue takes it, and only the event removed is lost.                 *)
LEMMA AddHolds ==
  ASSUME NEW q, Good(q), NEW W, Serves(q, W), Exact(q), NEW e \in Events, e \notin W
  PROVE  /\ Exact(WqAdd(q, e))
         /\ \A d \in Events : Holds(q, d) => Holds(WqAdd(q, e), d)
         /\ ~IsFull(q) => Holds(WqAdd(q, e), e)
<1>1. CASE IsFull(q)
  BY <1>1 DEF WqAdd
<1>2. CASE ~IsFull(q)
  <2> DEFINE r == AddAtEnd(q, e)
  <2>1. q.size \in Cells /\ q.size \in Nat
    BY <1>2, QueueAssumption DEF IsFull, Good, Queues, Cells
  <2>2. KeyOf[e] \in Keys
    BY QueueAssumption
  <2>3. ~IsOccupied(q, e)
    <3>1. SUFFICES ASSUME IsOccupied(q, e) PROVE FALSE
      OBVIOUS
    <3> DEFINE p == q.index[KeyOf[e]]
    <3>2. p \in Cells /\ p < q.size /\ KeyOf[q.data[p]] = KeyOf[e]
      BY <2>2, <3>1 DEF IsOccupied, Exact, Good, Queues
    <3>3. q.data[p] \in W /\ q.data[p] \in Events
      BY <3>2 DEF Serves, Good, Packed, Queues
    <3> QED BY <3>2, <3>3, PeerAssumption
  <2>4. /\ r.data = [q.data EXCEPT ![q.size] = e] /\ r.size = q.size + 1
        /\ r.index = [q.index EXCEPT ![KeyOf[e]] = q.size]
    BY DEF AddAtEnd
  <2>5. WqAdd(q, e) = r
    BY <1>2, <2>3 DEF WqAdd
  <2> HIDE DEF r
  <2>6. r.data[q.size] = e /\ \A p \in Cells : p < q.size => r.data[p] = q.data[p]
    BY <2>1, <2>4 DEF Good, Queues
  <2>7. Exact(r)
    <3> SUFFICES ASSUME NEW k \in Keys, r.index[k] # NULL
                 PROVE  r.index[k] < r.size /\ KeyOf[r.data[r.index[k]]] = k
      BY DEF Exact
    <3>1. CASE k = KeyOf[e]
      BY <2>1, <2>2, <2>4, <2>6, <3>1 DEF Good, Queues
    <3>2. CASE k # KeyOf[e]
      <4>1. r.index[k] = q.index[k] /\ q.index[k] \in Cells
        BY <2>4, <3>2 DEF Good, Queues
      <4>2. q.index[k] < q.size /\ KeyOf[q.data[q.index[k]]] = k
        BY <4>1 DEF Exact
      <4>3. q.index[k] < q.size + 1
        BY <2>1, <4>1, <4>2 DEF Cells
      <4> QED BY <2>4, <2>6, <4>1, <4>2, <4>3
    <3> QED BY <3>1, <3>2
  <2>8. Holds(r, e)
    BY <2>1, <2>4, <2>6 DEF Holds
  <2>9. ASSUME NEW d \in Events, Holds(q, d) PROVE Holds(r, d)
    <3>1. PICK p \in Cells : p < q.size /\ q.data[p] = d
      BY <2>9 DEF Holds
    <3>2. p < q.size + 1
      BY <2>1, <3>1 DEF Cells
    <3> QED BY <2>4, <2>6, <3>1, <3>2 DEF Holds
  <2> QED BY <2>5, <2>7, <2>8, <2>9
<1> QED BY <1>1, <1>2

LEMMA RemoveHolds ==
  ASSUME NEW q, Good(q), Exact(q), NEW e \in Events, ~RemoveReadsBeyond(q, e)
  PROVE  /\ \A d \in Events \ {e} : Holds(q, d) => Holds(WqRemove(q, e), d)
         /\ Exact(WqRemove(q, e)) \/ (q.size > 1 /\ q.data[q.size - 1] = e)
<1>0. KeyOf[e] \in Keys /\ q \in Queues /\ q.size \in 0 .. QCapacity
  BY QueueAssumption DEF Good, Queues
<1>1. CASE ~IsFound(q, e)
  BY <1>1 DEF WqRemove
<1> SUFFICES ASSUME IsFound(q, e)
             PROVE  /\ \A d \in Events \ {e} : Holds(q, d) => Holds(WqRemove(q, e), d)
                    /\ Exact(WqRemove(q, e)) \/ (q.size > 1 /\ q.data[q.size - 1] = e)
  BY <1>1
<1> DEFINE pos  == q.index[KeyOf[e]]
           last == q.size - 1
           f    == q.data[last]
<1>2. pos \in Cells /\ pos < q.size /\ KeyOf[q.data[pos]] = KeyOf[e]
  BY <1>0 DEF IsFound, Exact, Queues
<1>3. /\ q.data[pos] = e /\ last \in Cells /\ pos <= last
      /\ f \in Events /\ q.index[KeyOf[f]] = last
  <2>1. q.data[pos] \in Events
    BY <1>0, <1>2 DEF Good, Packed, Queues
  <2>2. last \in Cells /\ pos <= last /\ last < q.size
    BY <1>0, <1>2, QueueAssumption DEF Cells
  <2> QED BY <1>0, <1>2, <2>1, <2>2, PeerAssumption DEF Good, Packed, Queues
<1>4. \A k \in Keys : q.index[k] # NULL =>
        /\ q.index[k] \in Cells /\ q.index[k] < q.size /\ KeyOf[q.data[q.index[k]]] = k
  BY <1>0 DEF Exact, Queues
<1>5. CASE q.size = 1
  <2> DEFINE r == RemoveOnly(q, e)
  <2>1. WqRemove(q, e) = r /\ r.index = [q.index EXCEPT ![KeyOf[e]] = NULL]
    BY <1>5 DEF WqRemove, RemoveOnly
  <2> HIDE DEF r
  <2>2. pos = 0
    BY <1>2, <1>5 DEF Cells
  <2>3. \A d \in Events \ {e} : ~Holds(q, d)
    <3>1. \A p \in Cells : p < 1 => p = 0
      BY DEF Cells
    <3> QED BY <1>3, <1>5, <2>2, <3>1 DEF Holds
  <2>4. ASSUME NEW k \in Keys, r.index[k] # NULL PROVE FALSE
    <3>1. k # KeyOf[e] /\ r.index[k] = q.index[k]
      BY <1>0, <2>1, <2>4 DEF Queues
    <3>2. q.index[k] = 0
      BY <1>4, <1>5, <2>4, <3>1 DEF Cells
    <3> QED BY <1>2, <1>4, <2>2, <2>4, <3>1, <3>2
  <2> QED BY <2>1, <2>3, <2>4 DEF Exact
<1>6. CASE q.size # 1
  <2> DEFINE r == RemoveSwap(q, e)
  <2>1. /\ WqRemove(q, e) = r /\ r.size = last
        /\ r.data = [q.data EXCEPT ![pos] = f, ![last] = NULL]
        /\ r.index = [q.index EXCEPT ![KeyOf[e]] = NULL, ![KeyOf[f]] = pos]
    BY <1>6 DEF WqRemove, RemoveSwap
  <2> HIDE DEF r
  <2>2. /\ \A p \in Cells : p # pos /\ p # last => r.data[p] = q.data[p]
        /\ pos # last => r.data[pos] = f
    BY <1>0, <1>2, <1>3, <2>1 DEF Queues
  <2>3. ASSUME NEW d \in Events \ {e}, Holds(q, d) PROVE Holds(r, d)
    <3>1. PICK p \in Cells : p < q.size /\ q.data[p] = d
      BY <2>3 DEF Holds
    <3>2. p # pos
      BY <1>3, <3>1
    <3>3. CASE p = last
      <4>1. pos # last /\ pos < last
        BY <1>2, <1>3, <3>2, <3>3 DEF Cells
      <4> HIDE DEF pos, last, f
      <4> QED BY <1>2, <2>1, <2>2, <3>1, <3>3, <4>1 DEF Holds, f
    <3>4. CASE p # last
      <4>1. p < last
        BY <1>0, <3>1, <3>4 DEF Cells
      <4> HIDE DEF pos, last, f
      <4> QED BY <2>1, <2>2, <3>1, <3>2, <3>4, <4>1 DEF Holds
    <3> QED BY <3>3, <3>4
  <2>4. CASE f = e
    <3>1. q.size > 1
      BY <1>0, <1>2, <1>6 DEF Cells
    <3> QED BY <2>1, <2>3, <2>4, <3>1
  <2>5. CASE f # e
    <3>1. KeyOf[f] # KeyOf[e] /\ KeyOf[f] \in Keys /\ pos # last /\ pos < last
      BY <1>2, <1>3, <2>5, PeerAssumption, QueueAssumption DEF Cells
    <3>2. ASSUME NEW k \in Keys, r.index[k] # NULL
          PROVE  r.index[k] < r.size /\ KeyOf[r.data[r.index[k]]] = k
      <4>1. CASE k = KeyOf[f]
        <5>1. r.index[k] = pos
          BY <1>0, <2>1, <3>1, <4>1 DEF Queues
        <5> HIDE DEF pos, last, f
        <5> QED BY <2>1, <2>2, <3>1, <4>1, <5>1
      <4>2. CASE k # KeyOf[f]
        <5>1. k # KeyOf[e] /\ r.index[k] = q.index[k]
          BY <1>0, <2>1, <3>1, <3>2, <4>2 DEF Queues
        <5>2. /\ q.index[k] \in Cells /\ q.index[k] < q.size
              /\ KeyOf[q.data[q.index[k]]] = k
          BY <1>4, <3>2, <5>1
        <5>3. q.index[k] # pos /\ q.index[k] # last
          BY <1>2, <4>2, <5>1, <5>2
        <5>4. q.index[k] < last
          BY <1>0, <5>2, <5>3 DEF Cells
        <5> HIDE DEF pos, last, f
        <5> QED BY <2>1, <2>2, <5>1, <5>2, <5>3, <5>4
      <4> QED BY <4>1, <4>2
    <3> QED BY <2>1, <2>3, <3>2 DEF Exact
  <2> QED BY <2>4, <2>5
<1> QED BY <1>5, <1>6

(* Disabling an event of an exact queue loses no other one.                *)
LEMMA OthersHeld ==
  ASSUME WqInv, Exact(wq), NEW d \in Events, Disable(d),
         NEW e \in Events, e # d, Holds(wq, e)
  PROVE  Holds(wq, e)'
<1>1. CASE RemoveReadsBeyond(wq, d)
  BY <1>1 DEF Disable
<1>2. CASE ~RemoveReadsBeyond(wq, d)
  BY <1>2, WqInvGood, RemoveHolds DEF Disable
<1> QED BY <1>1, <1>2

(* One step of the queue, seen from an exact one.                          *)
LEMMA ExactStep ==
  ASSUME WqInv, Exact(wq), [WqNext]_wqVars
  PROVE  Exact(wq)' \/ (wq.size > 1 /\ wq.data[wq.size - 1] \in waiting \ waiting')
<1>0. Good(wq) /\ Serves(wq, waiting)
  BY WqInvGood
<1>1. ASSUME NEW e \in Events, Enable(e)
      PROVE  Exact(wq)'
  BY <1>0, <1>1, AddHolds DEF Enable
<1>2. ASSUME NEW e \in Events, Disable(e)
      PROVE  Exact(wq)' \/ (wq.size > 1 /\ wq.data[wq.size - 1] \in waiting \ waiting')
  <2>1. CASE RemoveReadsBeyond(wq, e)
    BY <1>2, <2>1 DEF Disable
  <2>2. CASE ~RemoveReadsBeyond(wq, e)
    <3>1. wq' = WqRemove(wq, e) /\ waiting' = waiting \ {e}
      BY <1>2, <2>2 DEF Disable
    <3>2. wq.size > 1 /\ wq.data[wq.size - 1] = e => e \in waiting
      <4>1. wq.size \in 0 .. QCapacity
        BY <1>0 DEF Good, Queues
      <4>2. wq.size > 1 => wq.size - 1 \in Cells /\ wq.size - 1 < wq.size
        BY <4>1, QueueAssumption DEF Cells
      <4> QED BY <1>0, <4>2 DEF Serves
    <3> QED BY <1>0, <2>2, <3>1, <3>2, RemoveHolds
  <2> QED BY <2>1, <2>2
<1>3. CASE Serve
  <2>1. wq'.data = wq.data /\ wq'.size = wq.size /\ wq'.index = wq.index
    BY <1>0, <1>3 DEF Serve, MoveHead, Good, Queues
  <2> QED BY <2>1 DEF Exact
<1>4. CASE UNCHANGED wqVars
  BY <1>4 DEF wqVars
<1> QED BY <1>1, <1>2, <1>3, <1>4 DEF WqNext

LEMMA DeafStep ==
  ASSUME UdpInv, [UdpNext]_udpVars, NEW e \in Events, ~Deaf(e), Deaf(e)',
         ~IsFull(wq), Exact(wq)
  PROVE  FALSE
<1> USE DEF Deaf
<1>0. WqInv /\ Good(wq) /\ Serves(wq, waiting)
  BY WqInvGood DEF UdpInv
<1>1. CASE UNCHANGED udpVars
  BY <1>1 DEF udpVars, wqVars
<1>2. ASSUME NEW in \in BOOLEAN, NEW out \in BOOLEAN, SocketEvent(in, out)
      PROVE  FALSE
  BY <1>2 DEF SocketEvent, wqVars
<1>3. CASE EndReads \/ ReadFault \/ PopNothing \/ Blocked
  BY <1>3 DEF EndReads, ReadFault, PopNothing, Blocked, wqVars
<1>4. ASSUME NEW d \in Events, NEW n \in Lengths, Datagram(d, n)
      PROVE  FALSE
  <2>1. live' = live \cup {d}
    BY <1>4 DEF Datagram
  <2>2. CASE d \in live /\ d \notin reading
    BY <1>4, <2>1, <2>2 DEF Datagram, wqVars
  <2>3. CASE ~(d \in live /\ d \notin reading)
    <3>1. reading' = reading \ {d} /\ Enable(d)
      BY <1>4, <2>3 DEF Datagram
    <3>2. wq' = WqAdd(wq, d) /\ d \notin waiting
      BY <3>1 DEF Enable
    <3>3. Holds(wq', d) /\ (Holds(wq, e) => Holds(wq', e))
      BY <1>0, <3>2, AddHolds
    <3> QED BY <2>1, <3>1, <3>3
  <2> QED BY <2>2, <2>3
<1>5. CASE Pop
  <2>1. wq'.data = wq.data /\ wq'.size = wq.size
    BY <1>0, <1>5 DEF Pop, Serve, MoveHead, Good, Queues
  <2> QED BY <1>5, <2>1 DEF Pop, Holds
<1>6. CASE Sent
  <2>1. reading' = reading \cup {current} /\ live' = live /\ waiting' = waiting \ {current}
    BY <1>6 DEF Sent, Disable
  <2>2. e # current /\ Holds(wq, e) /\ ~Holds(wq, e)'
    BY <2>1
  <2>3. current \in Events
    BY <1>6, QueueAssumption DEF Sent, UdpInv, UdpTypeOK
  <2>4. Holds(wq, e)'
    BY <1>0, <1>6, <2>2, <2>3, OthersHeld DEF Sent
  <2> QED BY <2>2, <2>4
<1>7. ASSUME NEW d \in Events, FreeConnection(d) PROVE FALSE
  <2>1. live' = live \ {d} /\ reading' = reading \ {d} /\ Disable(d)
    BY <1>7 DEF FreeConnection
  <2>2. e # d /\ Holds(wq, e) /\ ~Holds(wq, e)'
    BY <2>1
  <2>3. Holds(wq, e)'
    BY <1>0, <2>1, <2>2, OthersHeld
  <2> QED BY <2>2, <2>3
<1>8. CASE SendFailed
  <2>1. current \in Events
    BY <1>8, QueueAssumption DEF SendFailed, UdpInv, UdpTypeOK
  <2> QED BY <1>7, <1>8, <2>1 DEF SendFailed
<1>9. ASSUME NEW d \in Events, Timeout(d) PROVE FALSE
  BY <1>7, <1>9 DEF Timeout
<1> QED
  BY <1>1, <1>2, <1>3, <1>4, <1>5, <1>6, <1>8, <1>9 DEF UdpNext, Reads, Writes

(* A connection goes deaf only when the queue is full or a key of the      *)
(* table is stale, for every number of peers and cells.                    *)
THEOREM UdpDeafOnlyIfRefused == UdpSpec => DeafOnlyIfRefused
<1>1. UdpInv /\ [UdpNext]_udpVars =>
        \A e \in Events : ~Deaf(e) /\ Deaf(e)' => IsFull(wq) \/ ~Exact(wq)
  BY DeafStep
<1> QED BY <1>1, UdpInvariance, PTL DEF UdpSpec, DeafOnlyIfRefused

(* The table becomes stale only where the last of several queued events is *)
(* removed, for every number of peers and cells.                           *)
THEOREM UdpStaleOnlyFromTail == UdpSpec => StaleOnlyFromTail
<1>1. UdpInv /\ [UdpNext]_udpVars =>
        (Exact(wq) /\ ~Exact(wq)' =>
           wq.size > 1 /\ wq.data[wq.size - 1] \in waiting \ waiting')
  BY UdpStepIsQueueStep, ExactStep DEF UdpInv
<1> QED BY <1>1, UdpInvariance, PTL DEF UdpSpec, StaleOnlyFromTail
=============================================================================
