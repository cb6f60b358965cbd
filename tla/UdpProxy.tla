------------------------------ MODULE UdpProxy ------------------------------
(***************************************************************************)
(* The echo proxy with a UDP remote: the client UDP socket that all the    *)
(* contexts share (epoll_backend.c, udp_socket.c, net.c), under the turns  *)
(* of echo_proxy_handler.c.  Clients connect over TCP; what the handlers   *)
(* do with a client's end is in EchoProxy, here it is what it does to the  *)
(* socket.                                                                 *)
(*                                                                         *)
(* The socket is made for the first context and released by a timer of its *)
(* own when it has not been used for a while.  Its connection table and    *)
(* its write queue are keyed by the address of the remote, which is one    *)
(* and the same for every context: KeyOf is constant.  A context is named  *)
(* by its remote write event, the element of Events.                       *)
(***************************************************************************)
EXTENDS UdpWriteQueue

CONSTANTS
  ContextTimeout,  (* ECHO_TIMEOUT, in ticks.                              *)
  SocketTimeout,   (* CLIENT_USOCK_TIMEOUT, in ticks.                      *)
  Datagrams        (* How many datagrams fill the socket's read buffer.    *)

ASSUME UdpProxyAssumption ==
  /\ \A d, e \in Events : KeyOf[d] = KeyOf[e]
  /\ ContextTimeout \in Nat /\ SocketTimeout \in Nat /\ Datagrams \in Nat
  /\ 0 < ContextTimeout /\ ContextTimeout < SocketTimeout

VARIABLES
  turn,     (* The event of each context that is armed; "none": no context.*)
  idle,     (* Ticks since each context's timers were restarted.           *)
  usock,    (* client_usock.                                               *)
  holders,  (* Contexts that point to the present client_usock.            *)
  entry,    (* What its connection table holds for the remote's address.   *)
  upc,      (* Where the thread is in client_udp_ev_handler.               *)
  current,  (* The event handle_writes has popped.                         *)
  caller,   (* The context whose handler has armed its write event.        *)
  ufault    (* The failed assertion, or the freed socket that was used.    *)

udpProxyVars == <<wq, waiting, beyond, turn, idle, usock, holders, entry, upc,
                  current, caller, ufault>>

Turns == {"none", "clientRead", "remoteWrite", "remoteRead", "clientWrite"}

UdpFaults == {"none",
  "exit",      (* make_client_connection ends the process.                 *)
  "released",  (* A context uses the socket after its release.             *)
  "entry",     (* CHECK "failed to remove connection from connections ht". *)
  "count",     (* CHECK "count is 0" of udp_recv.                          *)
  "empty",     (* CHECK "should never happen" of client_handle_reads.      *)
  "freed",     (* udp_add_event reads the event of a freed connection.     *)
  "disabled",  (* CHECK "write event is not enabled!" of handle_writes.    *)
  "notFound"}  (* CHECK "udp wq remove failed!" of udp_del_event.          *)

(* age: ticks since the socket's timer was restarted.                      *)
NoSocket  == [open |-> FALSE, readable |-> FALSE, writable |-> FALSE, left |-> 0, age |-> 0]
NewSocket == [NoSocket EXCEPT !.open = TRUE, !.left = Datagrams]

UOk   == ufault = "none"
Rests == UOk /\ upc = "rest"

UdpProxyInit ==
  /\ WqInit
  /\ turn = [e \in Events |-> "none"] /\ idle = [e \in Events |-> 0]
  /\ usock = NoSocket /\ holders = {} /\ entry = NULL
  /\ upc = "rest" /\ current = NULL /\ caller = NULL
  /\ ufault = "none"

(***************************************************************************)
(* The turns of a context; every one restarts the context's timers.        *)
(***************************************************************************)
Turn(e, next) == turn' = [turn EXCEPT ![e] = next] /\ idle' = [idle EXCEPT ![e] = 0]

(* enable_event(remote->write): when the socket is writable, the write     *)
(* loop runs within the call (LeaveWrites).                                *)
ArmRemoteWrite(e) ==
  /\ Turn(e, "remoteWrite")
  /\ wq' = WqAdd(wq, e)
  /\ waiting' = waiting \cup {e}
  /\ upc' = IF usock.writable THEN "pop" ELSE "rest"
  /\ caller' = IF usock.writable THEN e ELSE NULL
  /\ current' = NULL
  /\ UNCHANGED <<beyond, usock, holders, entry, ufault>>

(* Mutant of AddConn: a new context is left out of the table if the        *)
(* socket exists.                                                          *)
AddConnUnlisted(e) ==
  IF usock.open
    THEN /\ usock' = [usock EXCEPT !.age = 0]
         /\ holders' = holders \cup {e}
         /\ UNCHANGED <<wq, entry>>
    ELSE /\ usock' = NewSocket
         /\ holders' = {e}
         /\ wq' = EmptyQueue
         /\ entry' = e

(* epoll_add_conn: the socket is made if there is none, its timer          *)
(* restarted, and the table's entry for the address overwritten.           *)
AddConn(e) ==
  /\ usock' = IF usock.open THEN [usock EXCEPT !.age = 0] ELSE NewSocket
  /\ holders' = IF usock.open THEN holders \cup {e} ELSE {e}
  /\ wq' = IF usock.open THEN wq ELSE EmptyQueue
  /\ entry' = e

(* The first event of a client: create_context.  The handler goes on with  *)
(* the client's bytes (FirstRead, FirstStops).                             *)
Open(e) ==
  /\ Rests /\ turn[e] = "none"
  /\ AddConn(e)
  /\ Turn(e, "clientRead")
  /\ upc' = "opened" /\ current' = e
  /\ UNCHANGED <<waiting, beyond, caller, ufault>>

(* The socket cannot be made, set up or given a timer.                     *)
OpenFails(e) ==
  /\ Rests /\ turn[e] = "none" /\ ~usock.open
  /\ ufault' = "exit"
  /\ UNCHANGED <<wqVars, turn, idle, usock, holders, entry, upc, current, caller>>

(* do_echo_read of the client that has just been given a context.          *)
FirstRead == UOk /\ upc = "opened" /\ ArmRemoteWrite(current)

(* More bytes of a client.                                                 *)
ClientRead(e) ==
  /\ Rests /\ turn[e] = "clientRead" /\ e \in holders
  /\ ArmRemoteWrite(e)

(* The answer is written to the client, in part or to its end.             *)
ClientWrite(e) ==
  /\ Rests /\ turn[e] = "clientWrite"
  /\ \/ Turn(e, "clientWrite")
     \/ Turn(e, "clientRead")
  /\ UNCHANGED <<wqVars, usock, holders, entry, upc, current, caller, ufault>>

(* conn->handle.data.sock points to a socket that was released.            *)
UseReleased(e) ==
  /\ Rests /\ turn[e] # "none" /\ e \notin holders
  /\ ufault' = "released"
  /\ UNCHANGED <<wqVars, turn, idle, usock, holders, entry, upc, current, caller>>

(* Mutant of StopContext: the table keeps the freed connection.            *)
StopContextListed(e) ==
  /\ Disable(e)
  /\ turn' = [turn EXCEPT ![e] = "none"] /\ idle' = [idle EXCEPT ![e] = 0]
  /\ holders' = holders \ {e}
  /\ UNCHANGED <<entry, ufault>>

(* stop_echo_proxy: udp_del_connection takes out whatever the queue and    *)
(* the table hold for the address of the remote, be it of e or not.        *)
StopContext(e) ==
  /\ Disable(e)
  /\ turn' = [turn EXCEPT ![e] = "none"] /\ idle' = [idle EXCEPT ![e] = 0]
  /\ holders' = holders \ {e}
  /\ entry' = NULL
  /\ ufault' = IF entry = NULL THEN "entry" ELSE ufault

(* A client closes, resets, sends too much or takes nothing: at its first  *)
(* event, or later.                                                        *)
FirstStops ==
  /\ UOk /\ upc = "opened"
  /\ StopContext(current)
  /\ upc' = "rest" /\ current' = NULL
  /\ UNCHANGED <<usock, caller>>

ClientStops(e) ==
  /\ Rests /\ e \in holders
  /\ StopContext(e)
  /\ UNCHANGED <<usock, upc, current, caller>>

(***************************************************************************)
(* client_udp_ev_handler: reads first, then writes.                        *)
(***************************************************************************)
SocketEvent(in, out) ==
  /\ Rests /\ usock.open /\ (in \/ out)
  /\ usock' = [usock EXCEPT !.readable = @ \/ in, !.writable = @ \/ out]
  /\ upc' = IF usock'.readable THEN "read" ELSE "pop"
  /\ UNCHANGED <<wqVars, turn, idle, holders, entry, current, caller, ufault>>

(* udp_recv, which restarts the socket's timer, would block.               *)
EndReads ==
  /\ UOk /\ upc = "read" /\ usock.left # 0
  /\ usock' = [usock EXCEPT !.age = 0]
  /\ upc' = IF usock.writable THEN "pop" ELSE "rest"
  /\ UNCHANGED <<wqVars, turn, idle, holders, entry, current, caller, ufault>>

(* udp_recv is called with no room left, or returns 0 bytes.               *)
ReadFault ==
  /\ UOk /\ upc = "read"
  /\ ufault' = IF usock.left = 0 THEN "count" ELSE "empty"
  /\ UNCHANGED <<wqVars, turn, idle, usock, holders, entry, upc, current, caller>>

Received ==
  /\ UOk /\ upc = "read" /\ usock.left # 0
  /\ usock' = [usock EXCEPT !.left = @ - 1, !.age = 0]
  /\ UNCHANGED <<wqVars, holders, entry, upc, current, caller, ufault>>

Listens == entry # NULL /\ turn[entry] = "remoteRead"

(* A datagram of the remote, for the context the table names, which passes *)
(* it on to its client.                                                    *)
RemoteAnswers ==
  /\ Received /\ Listens
  /\ Turn(entry, "clientWrite")

(* A datagram from elsewhere, without a table entry, or while the context  *)
(* is not reading, is dropped.                                             *)
Discard ==
  /\ Received
  /\ UNCHANGED <<turn, idle>>

(* handle_writes, one event per round.                                     *)
Exists(e) == turn[e] # "none"

(* The loop is left: back to epoll, or to the udp_add_event that ran it,   *)
(* which then looks at ev->write; its context may have ended in the loop.  *)
LeaveWrites ==
  /\ upc' = "rest" /\ caller' = NULL
  /\ ufault' = IF caller # NULL /\ ~Exists(caller) THEN "freed" ELSE ufault

PopNothing ==
  /\ UOk /\ upc = "pop" /\ wq.size = 0
  /\ LeaveWrites
  /\ UNCHANGED <<wqVars, turn, idle, usock, holders, entry, current>>

Pop ==
  /\ UOk /\ upc = "pop" /\ Serve
  /\ current' = Front(wq)
  /\ ufault' = IF current' \in waiting THEN ufault ELSE "disabled"
  /\ upc' = "handle"
  /\ UNCHANGED <<turn, idle, usock, holders, entry, caller>>

Handling == UOk /\ upc = "handle"

(* Mutant of RemoteSent: the socket's timer is left alone.                 *)
RemoteSentAged ==
  /\ Handling
  /\ Disable(current)
  /\ ufault' = IF IsFound(wq, current) THEN ufault ELSE "notFound"
  /\ Turn(current, "remoteRead")
  /\ current' = NULL /\ upc' = "pop"
  /\ UNCHANGED <<usock, holders, entry, caller>>

(* udp_send_buf, which restarts the socket's timer, and the rest of        *)
(* do_echo_write: the write event is disarmed and the read event armed.    *)
RemoteSent ==
  /\ Handling
  /\ Disable(current)
  /\ ufault' = IF IsFound(wq, current) THEN ufault ELSE "notFound"
  /\ Turn(current, "remoteRead")
  /\ usock' = [usock EXCEPT !.age = 0]
  /\ current' = NULL /\ upc' = "pop"
  /\ UNCHANGED <<holders, entry, caller>>

(* sendto would block: do_echo_write takes JK_WOULD_BLOCK for a count and  *)
(* returns; the event stays armed and queued.                              *)
RemoteBlocked ==
  /\ Handling
  /\ Turn(current, "remoteWrite")
  /\ usock' = [usock EXCEPT !.age = 0, !.writable = FALSE]
  /\ current' = NULL
  /\ LeaveWrites
  /\ UNCHANGED <<wqVars, holders, entry>>

(* sendto fails: stop_echo_proxy, within the write loop.                   *)
RemoteSendFailed ==
  /\ Handling
  /\ StopContext(current)
  /\ usock' = [usock EXCEPT !.age = 0]
  /\ current' = NULL /\ upc' = "pop"
  /\ UNCHANGED caller

(***************************************************************************)
(* epoll_process_timers and the clock.                                     *)
(***************************************************************************)
(* handle_echo_timeout.                                                    *)
ContextExpires(e) ==
  /\ Rests /\ e \in holders /\ idle[e] = ContextTimeout
  /\ StopContext(e)
  /\ UNCHANGED <<usock, upc, current, caller>>

(* epoll_handle_udp_client_timeout: the socket goes with its queue and its *)
(* table; contexts that still point to it are not told.                    *)
SocketExpires ==
  /\ Rests /\ usock.open /\ usock.age = SocketTimeout
  /\ usock' = NoSocket /\ holders' = {} /\ entry' = NULL
  /\ wq' = EmptyQueue
  /\ UNCHANGED <<waiting, beyond, turn, idle, upc, current, caller, ufault>>

(* Time passes once the sweep has handled every expired timer.             *)
Tick ==
  /\ Rests
  /\ \A e \in Events : Exists(e) => idle[e] < ContextTimeout
  /\ usock.open => usock.age < SocketTimeout
  /\ idle' = [e \in Events |-> IF Exists(e) THEN idle[e] + 1 ELSE 0]
  /\ usock' = IF usock.open THEN [usock EXCEPT !.age = @ + 1] ELSE usock
  /\ UNCHANGED <<wqVars, turn, holders, entry, upc, current, caller, ufault>>

ClientSteps(e) ==
  \/ Open(e) \/ OpenFails(e) \/ ClientRead(e) \/ ClientWrite(e) \/ ClientStops(e)
  \/ UseReleased(e)

SocketSteps ==
  \/ EndReads \/ ReadFault \/ RemoteAnswers \/ Discard
  \/ PopNothing \/ Pop \/ RemoteSent \/ RemoteBlocked \/ RemoteSendFailed

UdpProxyNext ==
  \/ \E e \in Events : ClientSteps(e) \/ ContextExpires(e)
  \/ FirstRead \/ FirstStops
  \/ \E in, out \in BOOLEAN : SocketEvent(in, out)
  \/ SocketSteps \/ SocketExpires \/ Tick

UdpProxySpec == UdpProxyInit /\ [][UdpProxyNext]_udpProxyVars

-----------------------------------------------------------------------------
(* The type invariant.                                                     *)
UdpProxyTypeOK ==
  /\ WqTypeOK /\ ~beyond
  /\ turn \in [Events -> Turns] /\ idle \in [Events -> 0 .. ContextTimeout]
  /\ usock \in [open : BOOLEAN, readable : BOOLEAN, writable : BOOLEAN,
                left : 0 .. Datagrams, age : 0 .. SocketTimeout]
  /\ holders \subseteq Events /\ entry \in Events \cup {NULL}
  /\ upc \in {"rest", "opened", "read", "pop", "handle"}
  /\ current \in Events \cup {NULL} /\ (current # NULL <=> upc \in {"opened", "handle"})
  /\ caller \in Events \cup {NULL} /\ (caller # NULL => upc \in {"pop", "handle"})
  /\ ufault \in UdpFaults

(* What the shared socket points to is alive: the entry of its connection  *)
(* table and the event in its queue, of which there is at most one, are of *)
(* contexts that exist, however contexts overwrite, queue and remove each  *)
(* other's under their one address.  The queued event is enabled, and the  *)
(* CHECKs of the write loop hold.                                          *)
SocketHoldsLive ==
  /\ entry # NULL => entry \in holders
  /\ \A e \in holders : usock.open /\ Exists(e)
  /\ wq.size <= 1
  /\ \A p \in Cells : p < wq.size => wq.data[p] \in holders \cap waiting
  /\ ufault \notin {"disabled", "notFound"}

(* A context that waits for the remote's answer has a socket to hear it:   *)
(* its own timer ends it before the socket's timer can release the socket. *)
AnswerHasSocket ==
  \A e \in Events : turn[e] = "remoteRead" => e \in holders

(* A context of the socket is deprived when the connection table does not  *)
(* name it, so that answers are dropped and its end fails a CHECK, or when *)
(* it is armed to write and the queue does not hold its event.             *)
Deprived(e) ==
  /\ e \in holders
  /\ entry # e \/ (turn[e] = "remoteWrite" /\ ~Holds(wq, e))

(* Only another context can do this to it: one that begins or ends, or one *)
(* whose write event has the queue's only place.  No order of the turns,   *)
(* answers, blocked or failed sends and timeouts of its own does.          *)
LosesOnlyToAnother ==
  [][\A e \in Events : ~Deprived(e) /\ Deprived(e)' =>
       \E d \in Events \ {e} :
         \/ (d \in holders) # (d \in holders')
         \/ d \in holders /\ Holds(wq, d)]_udpProxyVars
=============================================================================
