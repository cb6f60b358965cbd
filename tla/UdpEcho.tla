------------------------------ MODULE UdpEcho ------------------------------
(***************************************************************************)
(* The UDP half of the echo server: the server's UDP socket (udp_socket.c),*)
(* the connections it makes for the peers it hears from (connection.c) and *)
(* their echo handlers (echo_handler.c), over the write queue.             *)
(*                                                                         *)
(* One socket serves all peers.  A datagram creates its peer's connection  *)
(* or finds it; the handler takes the data, disarms the read event and     *)
(* arms the write event.  If the socket is writable, arming a write event  *)
(* runs the whole write loop at once, nested inside the read handler that  *)
(* armed it: `caller` is that handler's connection, still on the stack     *)
(* while handlers of other connections run, send, fail and free.           *)
(*                                                                         *)
(* Contexts and timers come and go with their connection: handle_echo      *)
(* creates them at the first datagram and stop_echo and the timeout free   *)
(* them.  Events are named by their peer.                                  *)
(***************************************************************************)
EXTENDS UdpWriteQueue

CONSTANTS
  BufSize,  (* UDP_MSG_SIZE: the socket's read buffer.                     *)
  Lengths   (* Lengths of the datagrams peers send.                        *)

ASSUME BufAssumption == BufSize \in Nat /\ Lengths \subseteq Nat

(* The socket finds a connection by its peer's address.                    *)
ASSUME PeerAssumption == \A e, f \in Events : KeyOf[e] = KeyOf[f] => e = f

VARIABLES
  live,     (* Peers with a connection: the socket's connection table.     *)
  reading,  (* Peers whose read event is enabled.                          *)
  readable, (* sock->readable                                              *)
  writable, (* sock->writable                                              *)
  left,     (* sock->last_read_buf.capacity                                *)
  pc,       (* Where the thread is in udp_ev_handler.                      *)
  current,  (* The event handle_writes has popped.                         *)
  caller,   (* The connection whose read handler armed a write event.      *)
  fault     (* The assertion that failed, if one has.                      *)

udpVars == <<wq, waiting, beyond, live, reading, readable, writable, left,
             pc, current, caller, fault>>

Faults == {"none",
  "beyond",    (* data[-1] is read by udp_wq_remove.                       *)
  "count",     (* CHECK "count is 0" of udp_recv.                          *)
  "empty",     (* CHECK "should never happen" of handle_reads.             *)
  "disabled",  (* CHECK "write event is not enabled!" of handle_writes.    *)
  "notFound",  (* CHECK "udp wq remove failed!" of udp_del_event.          *)
  "freed"}     (* A freed context is used.                                 *)

Ok == fault = "none"

UdpInit ==
  /\ WqInit
  /\ live = {} /\ reading = {}
  /\ readable = FALSE /\ writable = FALSE
  /\ left = BufSize
  /\ pc = "idle" /\ current = NULL /\ caller = NULL
  /\ fault = "none"

(***************************************************************************)
(* epoll reports the socket: udp_ev_handler reads first, then writes.      *)
(***************************************************************************)
SocketEvent(in, out) ==
  /\ Ok /\ pc = "idle"
  /\ in \/ out
  /\ readable' = (readable \/ in)
  /\ writable' = (writable \/ out)
  /\ pc' = IF readable' THEN "read" ELSE "pop"
  /\ UNCHANGED <<wqVars, live, reading, left, current, caller, fault>>

(* udp_recv would block: the read loop ends.                               *)
EndReads ==
  /\ Ok /\ pc = "read" /\ left # 0
  /\ pc' = IF writable THEN "pop" ELSE "idle"
  /\ UNCHANGED <<wqVars, live, reading, readable, writable, left, current, caller, fault>>

(***************************************************************************)
(* One datagram of handle_reads.                                           *)
(***************************************************************************)
(* udp_recv is called with no room left, or returns 0 bytes.               *)
ReadFault ==
  /\ Ok /\ pc = "read"
  /\ \/ left = 0 /\ fault' = "count"
     \/ left # 0 /\ 0 \in Lengths /\ fault' = "empty"
  /\ UNCHANGED <<wqVars, live, reading, readable, writable, left, pc, current, caller>>

(* The kernel cuts a datagram to the room given.                           *)
Received(n) == IF n < left THEN n ELSE left

(* Mutant of Datagram: the read event stays armed.                         *)
DatagramArmed(e, n) ==
  /\ Ok /\ pc = "read" /\ left # 0 /\ n # 0
  /\ left' = left - Received(n)
  /\ live' = live \cup {e}
  /\ IF e \in live /\ e \notin reading
       THEN UNCHANGED <<wqVars, reading, pc, caller>>
       ELSE /\ reading' = reading \cup {e}
            /\ Enable(e)
            /\ IF e \in waiting' /\ writable
                 THEN pc' = "pop" /\ caller' = e
                 ELSE UNCHANGED <<pc, caller>>
  /\ UNCHANGED <<readable, writable, current, fault>>

(* A peer not heard of before gets a connection with its read event armed. *)
(* If the read event is armed the handler takes the data, disarms it and   *)
(* arms the write event; udp_add_event runs the write loop when the socket *)
(* is writable and the event was accepted.  Otherwise the data is dropped. *)
Datagram(e, n) ==
  /\ Ok /\ pc = "read" /\ left # 0 /\ n # 0
  /\ left' = left - Received(n)
  /\ live' = live \cup {e}
  /\ IF e \in live /\ e \notin reading
       THEN UNCHANGED <<wqVars, reading, pc, caller>>
       ELSE /\ reading' = reading \ {e}
            /\ Enable(e)
            /\ IF e \in waiting' /\ writable
                 THEN pc' = "pop" /\ caller' = e
                 ELSE UNCHANGED <<pc, caller>>
  /\ UNCHANGED <<readable, writable, current, fault>>

(***************************************************************************)
(* handle_writes, one event per round.                                     *)
(***************************************************************************)
(* The loop is left: back to the read handler that armed the event, which  *)
(* goes on with its context (reschedule_timer), or back to epoll.          *)
LeaveWrites ==
  /\ caller' = NULL /\ current' = NULL
  /\ pc' = IF caller = NULL THEN "idle" ELSE "read"
  /\ fault' = IF caller # NULL /\ caller \notin live THEN "freed" ELSE fault

PopNothing ==
  /\ Ok /\ pc = "pop" /\ wq.size = 0
  /\ LeaveWrites
  /\ UNCHANGED <<wqVars, live, reading, readable, writable, left>>

Pop ==
  /\ Ok /\ pc = "pop" /\ Serve
  /\ current' = Front(wq)
  /\ fault' = IF current' \in waiting THEN fault ELSE "disabled"
  /\ pc' = "handle"
  /\ UNCHANGED <<live, reading, readable, writable, left, caller>>

(* Mutant of Sent: the read event is not armed again.                      *)
SentUnread ==
  /\ Ok /\ pc = "handle"
  /\ Disable(current)
  /\ fault' = IF beyond' THEN "beyond"
              ELSE IF ~IsFound(wq, current) THEN "notFound" ELSE fault
  /\ current' = NULL /\ pc' = "pop"
  /\ UNCHANGED <<live, reading, readable, writable, left, caller>>

(* handle_echo_write: the reply is sent; the write event is disarmed and   *)
(* the read event armed.                                                   *)
Sent ==
  /\ Ok /\ pc = "handle"
  /\ Disable(current)
  /\ fault' = IF beyond' THEN "beyond"
              ELSE IF ~IsFound(wq, current) THEN "notFound" ELSE fault
  /\ reading' = reading \cup {current}
  /\ current' = NULL /\ pc' = "pop"
  /\ UNCHANGED <<live, readable, writable, left, caller>>

(* sendto would block: the event stays armed and queued.                   *)
Blocked ==
  /\ Ok /\ pc = "handle"
  /\ writable' = FALSE
  /\ LeaveWrites
  /\ UNCHANGED <<wqVars, live, reading, readable, left>>

(* Mutant of FreeConnection: the read event of the freed connection stays. *)
FreeConnectionArmed(e) ==
  /\ Disable(e)
  /\ fault' = IF beyond' THEN "beyond" ELSE fault
  /\ live' = live \ {e} /\ reading' = reading

(* epoll_del_conn and udp_del_connection, whose result of the removal from *)
(* the queue is ignored; then the context and the connection are freed.    *)
FreeConnection(e) ==
  /\ Disable(e)
  /\ fault' = IF beyond' THEN "beyond" ELSE fault
  /\ live' = live \ {e} /\ reading' = reading \ {e}

(* Mutant of SendFailed: the write event is left in the queue.             *)
SendFailedQueued ==
  /\ Ok /\ pc = "handle"
  /\ live' = live \ {current} /\ reading' = reading \ {current}
  /\ current' = NULL /\ pc' = "pop"
  /\ waiting' = waiting \ {current}
  /\ UNCHANGED <<wq, beyond, readable, writable, left, caller, fault>>

(* sendto fails: stop_echo.                                                *)
SendFailed ==
  /\ Ok /\ pc = "handle"
  /\ FreeConnection(current)
  /\ current' = NULL /\ pc' = "pop"
  /\ UNCHANGED <<readable, writable, left, caller>>

(* handle_echo_timeout, from the timer sweep.                              *)
Timeout(e) ==
  /\ Ok /\ pc = "idle" /\ e \in live
  /\ FreeConnection(e)
  /\ UNCHANGED <<readable, writable, left, pc, current, caller>>

Reads  == EndReads \/ ReadFault \/ \E e \in Events, n \in Lengths : Datagram(e, n)
Writes == PopNothing \/ Pop \/ Sent \/ Blocked \/ SendFailed

UdpNext ==
  \/ \E in, out \in BOOLEAN : SocketEvent(in, out)
  \/ Reads
  \/ Writes
  \/ \E e \in Events : Timeout(e)

UdpSpec == UdpInit /\ [][UdpNext]_udpVars

-----------------------------------------------------------------------------
(* The type invariant.  Only the write loop holds a popped event.          *)
UdpTypeOK ==
  /\ WqTypeOK
  /\ live \subseteq Events /\ reading \subseteq live
  /\ readable \in BOOLEAN /\ writable \in BOOLEAN
  /\ left \in 0 .. BufSize
  /\ pc \in {"idle", "read", "pop", "handle"}
  /\ current \in Events \cup {NULL} /\ (current # NULL <=> pc = "handle")
  /\ caller \in Events \cup {NULL}
  /\ fault \in Faults

(* Events in the queue belong to connections that exist, so the write loop *)
(* never touches a freed event, however peers send, fail and time out      *)
(* while the queue is blocked.                                             *)
QueuedAreLive ==
  \A p \in Cells : p < wq.size => wq.data[p] \in live

(* A connection is never armed both ways: the reply to a datagram is out   *)
(* before the next one is taken, though a nested write loop re-arms the    *)
(* read event of the very connection whose read handler is running.        *)
OneDirection == reading \cap waiting = {}

(* The write loop's CHECKs hold: every event it pops is enabled, and its   *)
(* removal after the reply finds it.                                       *)
WriteChecksHold == fault \notin {"disabled", "notFound"}

(* A connection is deaf when its reply never comes: it does not read, and  *)
(* no cell of the queue holds its write event, armed or not.               *)
Deaf(e) == e \in live /\ e \notin reading /\ ~Holds(wq, e)

(* A connection goes deaf only where udp_add_event finds no cell for it, or *)
(* while the table holds a stale key: never by the turns of nested write   *)
(* loops, by blocked or failed sends, or by the end of another connection. *)
DeafOnlyIfRefused ==
  [][\A e \in Events : ~Deaf(e) /\ Deaf(e)' => IsFull(wq) \/ ~Exact(wq)]_udpVars

(* Stale keys come from one place only: the removal of the last of at      *)
(* least two queued events, which puts its own key back.                   *)
StaleOnlyFromTail ==
  [][Exact(wq) /\ ~Exact(wq)' =>
       wq.size > 1 /\ wq.data[wq.size - 1] \in waiting \ waiting']_udpVars

(* CHECK "last element is NULL" (udp_wq.c): there is a last element.       *)
RemoveStaysInside == fault # "beyond"

(* CHECK "count is 0" (net.c): the read buffer always has room.            *)
ReadBufferHasRoom == fault # "count"

(* CHECK "ctx->timer is NULL" (echo_handler.c): when a read handler gets   *)
(* control back from enable_event, its context is still there.             *)
ContextOutlivesHandler == fault # "freed"
=============================================================================
