--------------------------- MODULE UdpWriteQueue ---------------------------
(***************************************************************************)
(* The write queue of a UDP socket: src/core/udp_wq.c.                     *)
(*                                                                         *)
(* Write events wait in the cells data[0 .. size-1] of an array; head goes *)
(* round those cells, so that pop_front serves the events in turn.  A hash *)
(* table maps the address of an event's connection to the event's cell, so *)
(* that an event can be taken out from anywhere.                           *)
(*                                                                         *)
(* The operations are operators on a queue, a record, for the modules that *)
(* own one; the hash table is the map it stands for (see HashTable).       *)
(***************************************************************************)
EXTENDS Integers, FiniteSets

CONSTANTS
  Events,     (* The write events of the connections of the socket.        *)
  Keys,       (* Addresses of their peers.                                 *)
  KeyOf,      (* The address of each event's connection.                   *)
  QCapacity,  (* wq->capacity (128 in make_udp_socket).                    *)
  NULL

ASSUME QueueAssumption ==
  /\ QCapacity \in Nat \ {0}
  /\ KeyOf \in [Events -> Keys]
  /\ NULL \notin Events /\ NULL \notin Int

Cells == 0 .. QCapacity - 1

Queues == [data : [Cells -> Events \cup {NULL}], head : Cells,
           size : 0 .. QCapacity, index : [Keys -> Cells \cup {NULL}]]

(* udp_wq_create.                                                          *)
EmptyQueue ==
  [data |-> [p \in Cells |-> NULL], head |-> 0, size |-> 0,
   index |-> [k \in Keys |-> NULL]]

(***************************************************************************)
(* udp_wq_add.                                                             *)
(***************************************************************************)
IsFull(q)        == q.size = QCapacity
IsOccupied(q, e) == q.index[KeyOf[e]] # NULL

(* Mutant of AddAtEnd: the event is put into the first cell.               *)
AddAtFront(q, e) ==
  [data  |-> [q.data EXCEPT ![0] = e],
   index |-> [q.index EXCEPT ![KeyOf[e]] = q.size],
   size  |-> q.size + 1,
   head  |-> q.head]

AddAtEnd(q, e) ==
  [data  |-> [q.data EXCEPT ![q.size] = e],
   index |-> [q.index EXCEPT ![KeyOf[e]] = q.size],
   size  |-> q.size + 1,
   head  |-> q.head]

(* JK_OUT_OF_BUFFER and JK_OCCUPIED leave the queue alone.                 *)
WqAdd(q, e) == IF IsFull(q) \/ IsOccupied(q, e) THEN q ELSE AddAtEnd(q, e)

(***************************************************************************)
(* udp_wq_pop_front: the event at head, which stays in the queue, and the  *)
(* queue with its head moved on.                                           *)
(***************************************************************************)
Front(q) == q.data[q.head]

(* Mutant of MoveHead: no wrap at the end of the used cells.               *)
MoveHeadPast(q) ==
  [q EXCEPT !.head = IF q.head + 1 = QCapacity THEN 0 ELSE q.head + 1]

MoveHead(q) ==
  [q EXCEPT !.head = IF q.head + 1 = q.size THEN 0 ELSE q.head + 1]

(***************************************************************************)
(* udp_wq_remove.  The cell is the one the hash table names.               *)
(***************************************************************************)
IsFound(q, e) == q.index[KeyOf[e]] # NULL

RemoveOnly(q, e) ==
  [data  |-> [q.data EXCEPT ![q.index[KeyOf[e]]] = NULL],
   index |-> [q.index EXCEPT ![KeyOf[e]] = NULL],
   size  |-> 0,
   head  |-> 0]

(* Mutant of RemoveSwap: the moved event keeps its old cell in the table.  *)
RemoveUnindexed(q, e) ==
  LET pos  == q.index[KeyOf[e]]
      last == q.size - 1
  IN  [data  |-> [q.data EXCEPT ![pos] = q.data[last], ![last] = NULL],
       index |-> [q.index EXCEPT ![KeyOf[e]] = NULL],
       size  |-> last,
       head  |-> IF q.head = last THEN 0 ELSE q.head]

(* The last event moves into the freed cell, and the table is told so.     *)
(* When the removed event is itself the last one, this puts its own key,   *)
(* deleted a moment before, back into the table.                           *)
RemoveSwap(q, e) ==
  LET pos  == q.index[KeyOf[e]]
      last == q.size - 1
  IN  [data  |-> [q.data EXCEPT ![pos] = q.data[last], ![last] = NULL],
       index |-> [q.index EXCEPT ![KeyOf[e]] = NULL, ![KeyOf[q.data[last]]] = pos],
       size  |-> last,
       head  |-> IF q.head = last THEN 0 ELSE q.head]

(* With no event left, the code reads data[-1], beyond the array.          *)
RemoveReadsBeyond(q, e) == IsFound(q, e) /\ q.size = 0

(* JK_NOT_FOUND leaves the queue alone.                                    *)
WqRemove(q, e) ==
  IF ~IsFound(q, e) THEN q
  ELSE IF q.size = 1 THEN RemoveOnly(q, e) ELSE RemoveSwap(q, e)

-----------------------------------------------------------------------------
(***************************************************************************)
(* The queue by itself, under the protocol of udp_socket.c: an event is    *)
(* added when it is enabled and removed when it is disabled or freed.      *)
(***************************************************************************)
VARIABLES
  wq,      (* The queue.                                                   *)
  waiting, (* Events that were enabled (ev->enabled) and not disabled.     *)
  beyond   (* A remove has read data[-1].                                  *)

wqVars == <<wq, waiting, beyond>>

WqInit == wq = EmptyQueue /\ waiting = {} /\ beyond = FALSE

(* udp_add_event: a full queue is an error, any other answer a success.    *)
Enable(e) ==
  /\ ~beyond /\ e \notin waiting
  /\ wq' = WqAdd(wq, e)
  /\ waiting' = IF IsFull(wq) THEN waiting ELSE waiting \cup {e}
  /\ UNCHANGED beyond

(* One round of handle_writes that leaves the event in the queue.          *)
Serve ==
  /\ ~beyond /\ wq.size # 0
  /\ wq' = MoveHead(wq)
  /\ UNCHANGED <<waiting, beyond>>

(* udp_del_event, and udp_del_connection, which asks for the removal of an *)
(* event whether it was enabled or not.                                    *)
Disable(e) ==
  /\ ~beyond
  /\ beyond' = RemoveReadsBeyond(wq, e)
  /\ wq' = IF beyond' THEN wq ELSE WqRemove(wq, e)
  /\ waiting' = waiting \ {e}

WqNext == Serve \/ \E e \in Events : Enable(e) \/ Disable(e)

WqSpec == WqInit /\ [][WqNext]_wqVars

-----------------------------------------------------------------------------
(* The type of the queue.                                                  *)
WqTypeOK == wq \in Queues /\ waiting \subseteq Events /\ beyond \in BOOLEAN

(* "keep [0..size-1] packed" (udp_wq.c): the used cells hold events and    *)
(* the table names the right cell for each, so no event is there twice.    *)
(* It holds although the table also keeps keys of events that left.        *)
Packed(q) ==
  \A p \in Cells : p < q.size =>
    /\ q.data[p] # NULL
    /\ q.index[KeyOf[q.data[p]]] = p

QueuePacked == Packed(wq)

(* e is in a used cell.                                                    *)
Holds(q, e) == \E p \in Cells : p < q.size /\ q.data[p] = e

(* No key is stale: each key of the table names a used cell of its own.    *)
Exact(q) ==
  \A k \in Keys : q.index[k] # NULL =>
    q.index[k] < q.size /\ KeyOf[q.data[q.index[k]]] = k

(* head stays on a used cell, whatever is removed while it goes round, and *)
(* the used cells hold enabled events only: pop_front never hands out an   *)
(* event that was taken out (the CHECK "write event is not enabled!").     *)
HeadOnUsedCell(q) == IF q.size = 0 THEN q.head = 0 ELSE q.head < q.size

Serves(q, W) == \A p \in Cells : p < q.size => q.data[p] \in W

HeadServesWaiting ==
  /\ HeadOnUsedCell(wq)
  /\ Serves(wq, waiting)
=============================================================================
