------------------------------ MODULE EchoTcp ------------------------------
(***************************************************************************)
(* The TCP half of the echo server: the listener (listener.c), the TCP     *)
(* connections (connection.c), their echo handlers (echo_handler.c), the   *)
(* receive and send loops of net.c, and the edge-triggered registrations   *)
(* and event batches of epoll_backend.c.                                   *)
(*                                                                         *)
(* A connection is registered with epoll for one direction at a time.  An  *)
(* edge is reported once; a handler must use it up, receiving or sending   *)
(* until the kernel would block, or arm the other event, on which epoll    *)
(* looks at the socket anew.  A batch is a snapshot: sockets change while  *)
(* its handlers run.  The loops of net.c are one step, since what a peer   *)
(* does during one is as if it had done it just before.                    *)
(*                                                                         *)
(* Every connection has a number, that of its peer, which may connect      *)
(* again later.  Bytes are numbered per connection in the order sent.      *)
(***************************************************************************)
EXTENDS Integers, Sequences, FiniteSets

CONSTANTS
  Peers,
  BufSize,   (* NET_BUFFER_SIZE: the context's buffer.                     *)
  SendRoom,  (* The kernel's send buffer of a socket.                      *)
  MaxBytes   (* Bound on the bytes a peer sends over one connection.       *)

ASSUME SizeAssumption ==
  BufSize \in Nat \ {0} /\ SendRoom \in Nat \ {0} /\ MaxBytes \in Nat

VARIABLES
  sock,      (* The kernel's side of each connection.                      *)
  conn,      (* The server's side: connection_t, event_t and context.      *)
  batch,     (* event_list: what is still to be handled for each peer.     *)
  listener,  (* The listening socket: "quiet", "edge" or in the "batch".   *)
  pc,        (* Where the thread is in the main loop.                      *)
  fault      (* A failed assertion.                                        *)

vars == <<sock, conn, batch, listener, pc, fault>>

Bytes == 1 .. MaxBytes

(* state: accepted ("open"), waiting to be ("backlog"), or "closed"; inq:  *)
(* bytes to be received; outq: bytes sent but not yet taken by the peer;   *)
(* fin, rst: the peer has closed, or reset; edge: on epoll's ready list.   *)
NoSock == [state |-> "closed", inq |-> 0, outq |-> 0, fin |-> FALSE, rst |-> FALSE,
           edge |-> FALSE]

(* armed: the enabled event; context: conn->data is set; buf: the bytes of *)
(* ctx->buf; rcvd, echoed: how many were received and sent back so far.    *)
NoConn == [armed |-> "none", context |-> FALSE, buf |-> <<>>, rcvd |-> 0, echoed |-> 0]

Ok == fault = "none"

Init ==
  /\ sock = [p \in Peers |-> NoSock]
  /\ conn = [p \in Peers |-> NoConn]
  /\ batch = [p \in Peers |-> "none"]
  /\ listener = "quiet"
  /\ pc = "wait"
  /\ fault = "none"

Backlog == {p \in Peers : sock[p].state = "backlog"}

(***************************************************************************)
(* The event masks of epoll_add and epoll_enable.                          *)
(***************************************************************************)
(* Mutant of WantsIn: arming the write event keeps EPOLLIN in the mask.    *)
WantsInAlways(c) == c.armed # "none"

WantsIn(c)  == c.armed = "read"
WantsOut(c) == c.armed = "write"

(* What epoll finds when it looks at a socket s registered for c.  Errors  *)
(* are reported whatever the mask; there is room to send once connected.  *)
Ready(s, c) ==
  \/ WantsIn(c) /\ (s.inq > 0 \/ s.fin)
  \/ WantsOut(c) /\ s.state = "open" /\ s.outq < SendRoom
  \/ c.armed # "none" /\ s.rst

(* EPOLL_CTL_ADD and EPOLL_CTL_MOD look at the socket at once.             *)
Polled(s, c) == [s EXCEPT !.edge = s.edge \/ Ready(s, c)]

(***************************************************************************)
(* The peers and the network.                                              *)
(***************************************************************************)
Connect(p) ==
  /\ Ok /\ sock[p].state = "closed"
  /\ sock' = [sock EXCEPT ![p].state = "backlog"]
  /\ listener' = IF listener = "batch" THEN "batch" ELSE "edge"
  /\ UNCHANGED <<conn, batch, pc, fault>>

Connected(p) == Ok /\ sock[p].state # "closed" /\ ~sock[p].rst

Send(p) ==
  /\ Connected(p) /\ ~sock[p].fin
  /\ conn[p].rcvd + sock[p].inq < MaxBytes
  /\ sock' = [sock EXCEPT ![p].inq = @ + 1, ![p].edge = @ \/ WantsIn(conn[p])]
  /\ UNCHANGED <<conn, batch, listener, pc, fault>>

Finish(p) ==
  /\ Connected(p) /\ ~sock[p].fin
  /\ sock' = [sock EXCEPT ![p].fin = TRUE, ![p].edge = @ \/ conn[p].armed # "none"]
  /\ UNCHANGED <<conn, batch, listener, pc, fault>>

Reset(p) ==
  /\ Connected(p)
  /\ sock' = [sock EXCEPT ![p].rst = TRUE, ![p].inq = 0,
                          ![p].edge = @ \/ conn[p].armed # "none"]
  /\ UNCHANGED <<conn, batch, listener, pc, fault>>

(* The peer takes a byte out of the send buffer.                           *)
Take(p) ==
  /\ Connected(p) /\ sock[p].outq > 0
  /\ sock' = [sock EXCEPT ![p].outq = @ - 1, ![p].edge = @ \/ WantsOut(conn[p])]
  /\ UNCHANGED <<conn, batch, listener, pc, fault>>

Network(p) == Connect(p) \/ Send(p) \/ Finish(p) \/ Reset(p) \/ Take(p)

(***************************************************************************)
(* epoll_process_events: the wait and the batch.                           *)
(***************************************************************************)
(* What is on the ready list and still ready is reported.  The wait may    *)
(* also time out, with nothing to report.                                  *)
Report(p) ==
  IF ~(sock[p].edge /\ Ready(sock[p], conn[p])) THEN "none"
  ELSE IF sock[p].rst THEN "error" ELSE "event"

Wait ==
  /\ Ok /\ pc = "wait"
  /\ batch' = [p \in Peers |-> Report(p)]
  /\ sock' = [p \in Peers |-> [sock[p] EXCEPT !.edge = FALSE]]
  /\ listener' = IF listener = "edge" THEN "batch" ELSE "quiet"
  /\ pc' = "batch"
  /\ UNCHANGED <<conn, fault>>

EndBatch ==
  /\ Ok /\ pc = "batch"
  /\ listener # "batch" /\ \A p \in Peers : batch[p] = "none"
  /\ pc' = "timers"
  /\ UNCHANGED <<sock, conn, batch, listener, fault>>

EndTimers ==
  /\ Ok /\ pc = "timers"
  /\ pc' = "wait"
  /\ UNCHANGED <<sock, conn, batch, listener, fault>>

(***************************************************************************)
(* accept_handler.                                                         *)
(***************************************************************************)
Accepting == Ok /\ pc = "batch" /\ listener = "batch"

(* Mutant of Accept: one connection per event.                             *)
AcceptOne(p) ==
  /\ Accepting /\ p \in Backlog
  /\ conn' = [conn EXCEPT ![p].armed = "read"]
  /\ sock' = [sock EXCEPT ![p] = Polled([@ EXCEPT !.state = "open"], conn'[p])]
  /\ listener' = "quiet"
  /\ UNCHANGED <<batch, pc, fault>>

(* One round: the new connection gets its read event armed, no context.    *)
Accept(p) ==
  /\ Accepting /\ p \in Backlog
  /\ conn' = [conn EXCEPT ![p].armed = "read"]
  /\ sock' = [sock EXCEPT ![p] = Polled([@ EXCEPT !.state = "open"], conn'[p])]
  /\ UNCHANGED <<batch, listener, pc, fault>>

(* accept would block.                                                     *)
EndAccept ==
  /\ Accepting /\ Backlog = {}
  /\ listener' = "quiet"
  /\ UNCHANGED <<sock, conn, batch, pc, fault>>

(***************************************************************************)
(* handle_echo.                                                            *)
(***************************************************************************)
Handles(p, event) ==
  /\ Ok /\ pc = "batch" /\ batch[p] = event
  /\ batch' = [batch EXCEPT ![p] = "none"]
  /\ UNCHANGED <<listener, pc>>

(* stop_echo: the registration, the context and the connection go.         *)
Stop(p) ==
  /\ sock' = [sock EXCEPT ![p] = NoSock]
  /\ conn' = [conn EXCEPT ![p] = NoConn]

(* conn->error is set: stop_echo, which needs a context.                   *)
HandleError(p) ==
  /\ Handles(p, "error")
  /\ IF conn[p].context
       THEN Stop(p) /\ UNCHANGED fault
       ELSE fault' = "context" /\ UNCHANGED <<sock, conn>>

Space(p) == BufSize - Len(conn[p].buf)

(* Mutant of Overflows: the room is compared with the wrong sign.          *)
OverflowsLate(p) == sock[p].inq > Space(p)

(* tcp_recv_buf gives up once the buffer is full, be there more or not.    *)
Overflows(p) == sock[p].inq >= Space(p)

(* tcp_recv_buf returns 0 or an error: nothing to read, the end of the     *)
(* stream (even behind bytes just read), a reset, or no space left.        *)
ReceiveEnds(p) ==
  sock[p].inq = 0 \/ sock[p].fin \/ sock[p].rst \/ Overflows(p)

ReadStops(p) ==
  /\ conn[p].armed = "read" /\ ReceiveEnds(p)
  /\ Handles(p, "event")
  /\ Stop(p)
  /\ UNCHANGED fault

(* handle_echo_read, on the first event with a new context: everything     *)
(* there is is received, the read event disarmed and the write event armed.*)
Read(p) ==
  /\ conn[p].armed = "read" /\ ~ReceiveEnds(p)
  /\ Handles(p, "event")
  /\ LET n == sock[p].inq
         r == conn[p].rcvd
     IN  conn' = [conn EXCEPT ![p] =
           [armed |-> "write", context |-> TRUE,
            buf |-> @.buf \o [i \in 1 .. n |-> r + i], rcvd |-> r + n, echoed |-> @.echoed]]
  /\ sock' = [sock EXCEPT ![p] = Polled([@ EXCEPT !.inq = 0], conn'[p])]
  /\ UNCHANGED fault

(* Mutant of Sendable: a single send call of at most one byte, no loop.    *)
SendableOnce(p) == IF sock[p].outq < SendRoom THEN 1 ELSE 0

(* What tcp_send_buf gets rid of until it is done or would block.          *)
Sendable(p) ==
  IF Len(conn[p].buf) <= SendRoom - sock[p].outq
    THEN Len(conn[p].buf) ELSE SendRoom - sock[p].outq

WriteStops(p) ==
  /\ conn[p].armed = "write" /\ (sock[p].rst \/ Sendable(p) = 0)
  /\ Handles(p, "event")
  /\ Stop(p)
  /\ UNCHANGED fault

(* Mutant of Unsent: the wrong end of the buffer is kept.                  *)
UnsentFront(p) == SubSeq(conn[p].buf, 1, Len(conn[p].buf) - Sendable(p))

(* The memmove of handle_echo_write.                                       *)
Unsent(p) == SubSeq(conn[p].buf, Sendable(p) + 1, Len(conn[p].buf))

(* Mutant of NextArmed: the read event is armed after a partial write too. *)
ReadAfterWrite(p) == "read"

(* The direction after a write: on with it, or back to reading.            *)
NextArmed(p) == IF Unsent(p) = <<>> THEN "read" ELSE "write"

(* handle_echo_write.  After a partial write the event stays as it is, and *)
(* epoll does not look at the socket again.                                *)
Write(p) ==
  /\ conn[p].armed = "write" /\ ~sock[p].rst /\ Sendable(p) # 0
  /\ Handles(p, "event")
  /\ conn' = [conn EXCEPT ![p].armed = NextArmed(p), ![p].buf = Unsent(p),
                          ![p].echoed = @ + Sendable(p)]
  /\ LET s == [sock[p] EXCEPT !.outq = @ + Sendable(p)] IN
       sock' = [sock EXCEPT ![p] =
                  IF conn'[p].armed = "write" THEN s ELSE Polled(s, conn'[p])]
  /\ UNCHANGED fault

(* Mutant of Timeout: the timers are looked at in the middle of a batch.   *)
TimeoutInBatch(p) ==
  /\ Ok /\ pc \in {"batch", "timers"} /\ conn[p].context
  /\ Stop(p)
  /\ UNCHANGED <<batch, listener, pc, fault>>

(* handle_echo_timeout, from epoll_process_timers.                         *)
Timeout(p) ==
  /\ Ok /\ pc = "timers" /\ conn[p].context
  /\ Stop(p)
  /\ UNCHANGED <<batch, listener, pc, fault>>

Handler(p) ==
  Accept(p) \/ HandleError(p) \/ Read(p) \/ ReadStops(p) \/ Write(p) \/ WriteStops(p)

(* What the thread does by itself; a timeout depends on the clock.         *)
Thread == Wait \/ EndAccept \/ EndBatch \/ EndTimers \/ \E p \in Peers : Handler(p)

Next == Thread \/ \E p \in Peers : Network(p) \/ Timeout(p)

(* The thread runs, and peers take the bytes sent to them.                 *)
Fairness == WF_vars(Thread) /\ \A p \in Peers : WF_vars(Take(p))

Spec == Init /\ [][Next]_vars /\ Fairness

-----------------------------------------------------------------------------
Socks == [state : {"closed", "backlog", "open"}, inq : 0 .. MaxBytes,
          outq : 0 .. SendRoom, fin : BOOLEAN, rst : BOOLEAN, edge : BOOLEAN]

Conns == [armed : {"none", "read", "write"}, context : BOOLEAN, buf : Seq(Bytes),
          rcvd : 0 .. MaxBytes, echoed : 0 .. MaxBytes]

(* The type invariant.  The buffer keeps one byte free, into which the     *)
(* handlers write the NUL that ends the message in the log.                *)
TypeOK ==
  /\ sock \in [Peers -> Socks] /\ conn \in [Peers -> Conns]
  /\ \A p \in Peers : Len(conn[p].buf) < BufSize
  /\ batch \in [Peers -> {"none", "event", "error"}]
  /\ listener \in {"quiet", "edge", "batch"}
  /\ pc \in {"wait", "batch", "timers"}
  /\ fault \in {"none", "context"}

(* No wake-up is lost: a socket that is ready for its armed event is on    *)
(* epoll's ready list or in the batch, and so are pending connections.     *)
(* Edges are reported once, so each handler must use its edge up.          *)
NoLostWakeup ==
  Ok =>
  /\ \A p \in Peers :
       Ready(sock[p], conn[p]) /\ batch[p] = "none" => sock[p].edge
  /\ Backlog # {} => listener # "quiet"

(* Each event still to be handled is of a connection that still exists and *)
(* has an event armed: no handler frees what a later event of the same     *)
(* batch points to.                                                        *)
BatchIsLive ==
  \A p \in Peers : batch[p] # "none" =>
    pc = "batch" /\ sock[p].state = "open" /\ conn[p].armed # "none"

(* The buffer holds exactly the bytes received and not yet sent back, in   *)
(* order, over partial writes and whatever arrives in between.             *)
EchoInOrder ==
  \A p \in Peers :
    conn[p].buf = [i \in 1 .. conn[p].rcvd - conn[p].echoed |-> conn[p].echoed + i]

(* A connection waits to write exactly while it owes bytes, and reads only *)
(* when it owes none; an open one always waits for something.              *)
ArmedForDebt ==
  \A p \in Peers :
    /\ conn[p].armed = "write" <=> conn[p].echoed < conn[p].rcvd
    /\ conn[p].armed = "none" <=> sock[p].state # "open"

(* A handler closes a connection only if its peer closed or reset it, or   *)
(* sent more than the buffer takes.  Receiving or sending nothing, which   *)
(* the handlers take for a closed peer, never happens to a healthy one.    *)
NoFalseClose ==
  [][\A p \in Peers :
       pc = "batch" /\ sock[p].state = "open" /\ sock'[p].state = "closed" =>
         sock[p].fin \/ sock[p].rst \/ sock[p].inq >= BufSize]_vars

(* Whatever a peer sends is read, or its connection ends.                  *)
BytesAreRead == \A p \in Peers : sock[p].inq > 0 ~> (sock[p].inq = 0 \/ ~Ok)

(* CHECK "ctx is NULL!" (echo_handler.c): a connection that is stopped has *)
(* a context.                                                              *)
StoppedHasContext == fault # "context"
=============================================================================
