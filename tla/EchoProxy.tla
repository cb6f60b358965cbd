----------------------------- MODULE EchoProxy -----------------------------
(***************************************************************************)
(* The echo proxy over TCP: echo_proxy_handler.c, with the client          *)
(* connections that connection.c, epoll_backend.c and net.c open to the    *)
(* remote server.                                                          *)
(*                                                                         *)
(* Every client has a remote end of its own, made at the client's first    *)
(* event and freed with the client's end; one context serves both.  The    *)
(* peers of EchoTcp are the ends.  conn[e].buf is what is to be written to *)
(* end e, conn[e].rcvd counts what came from e and conn[e].echoed what was *)
(* written to e.                                                           *)
(*                                                                         *)
(* One of the four events of a context is armed: client read, remote       *)
(* write, remote read, client write.  The end that is not at work stays    *)
(* registered with an empty mask ("idle"), under which epoll still reports *)
(* errors.  So a batch may hold events of both ends, and the handler of    *)
(* the first may free what the second points to.                           *)
(***************************************************************************)
EXTENDS EchoTcp

CONSTANTS
  Clients,  (* The peers that connect to the proxy.                        *)
  Other     (* The other end of each end.                                  *)

ASSUME PairAssumption ==
  /\ Clients \subseteq Peers /\ Other \in [Peers -> Peers]
  /\ \A e \in Peers : Other[Other[e]] = e /\ (e \in Clients <=> Other[e] \notin Clients)

Remotes == Peers \ Clients

(***************************************************************************)
(* The network.  A remote end is connecting until the handshake is over.   *)
(***************************************************************************)
(* A client's number is used again once no event of it is left over.       *)
Call(c) == c \in Clients /\ batch[c] = "none" /\ Connect(c)

Established(e) ==
  /\ Ok /\ sock[e].state = "connecting" /\ ~sock[e].rst
  /\ sock' = [sock EXCEPT ![e].state = "open", ![e].edge = @ \/ WantsOut(conn[e])]
  /\ UNCHANGED <<conn, batch, listener, pc, fault>>

Refused(e) ==
  /\ Ok /\ sock[e].state = "connecting" /\ ~sock[e].rst
  /\ sock' = [sock EXCEPT ![e].rst = TRUE, ![e].edge = TRUE]
  /\ UNCHANGED <<conn, batch, listener, pc, fault>>

Talks(e) == sock[e].state # "connecting" /\ (Send(e) \/ Finish(e) \/ Reset(e) \/ Take(e))

(***************************************************************************)
(* create_context, stop_echo_proxy.                                        *)
(***************************************************************************)
(* make_client_connection: connect() in progress, registered with no event.*)
Connecting == [NoSock EXCEPT !.state = "connecting"]

(* The other end, made now if the context is.                              *)
OtherSock(e) == IF conn[e].context THEN sock[Other[e]] ELSE Connecting

(* connect() fails at once: make_client_connection ends the process.       *)
ConnectFails(c) ==
  /\ conn[c].armed = "read" /\ ~conn[c].context
  /\ Handles(c, "event")
  /\ fault' = "exit"
  /\ UNCHANGED <<sock, conn>>

(* Both registrations and connections go, and the context.                 *)
StopPair(e) ==
  /\ sock' = [sock EXCEPT ![e] = NoSock, ![Other[e]] = NoSock]
  /\ conn' = [conn EXCEPT ![e] = NoConn, ![Other[e]] = NoConn]

(***************************************************************************)
(* handle_echo_proxy.                                                      *)
(***************************************************************************)
(* conn->error is set; without a context, CHECK "ctx is NULL!" fails.      *)
ProxyError(e) ==
  /\ conn[e].armed # "none"
  /\ Handles(e, "error")
  /\ IF conn[e].context
       THEN StopPair(e) /\ UNCHANGED fault
       ELSE fault' = "context" /\ UNCHANGED <<sock, conn>>

(* The event belongs to a connection that an earlier handler has freed.    *)
StaleEvent(e) ==
  /\ conn[e].armed = "none"
  /\ batch[e] # "none" /\ Handles(e, batch[e])
  /\ fault' = "stale"
  /\ UNCHANGED <<sock, conn>>

(* Mutant of HearingEnds: the room is compared with the wrong sign.        *)
HearingEndsLate(e) ==
  \/ sock[e].inq = 0 \/ sock[e].fin \/ sock[e].rst
  \/ sock[e].inq > BufSize - Len(conn[Other[e]].buf)

(* recv_buf returns 0 or an error: see ReceiveEnds of EchoTcp.  The room   *)
(* is that of the buffer for the other end.                                *)
HearingEnds(e) ==
  \/ sock[e].inq = 0 \/ sock[e].fin \/ sock[e].rst
  \/ sock[e].inq >= BufSize - Len(conn[Other[e]].buf)

ProxyReadStops(e) ==
  /\ conn[e].armed = "read" /\ HearingEnds(e)
  /\ Handles(e, "event")
  /\ StopPair(e)
  /\ UNCHANGED fault

(* Mutants of Heard: the read event stays armed; the write event is not    *)
(* armed; the bytes go into the buffer for the end they came from.         *)
HeardStillArmed(e) ==
  [conn EXCEPT ![e].context = TRUE, ![e].rcvd = @ + sock[e].inq,
               ![Other[e]].armed = "write", ![Other[e]].context = TRUE,
               ![Other[e]].buf = @ \o [i \in 1 .. sock[e].inq |-> conn[e].rcvd + i]]

HeardUnarmed(e) ==
  [conn EXCEPT ![e].armed = "idle", ![e].context = TRUE, ![e].rcvd = @ + sock[e].inq,
               ![Other[e]].armed = "idle", ![Other[e]].context = TRUE,
               ![Other[e]].buf = @ \o [i \in 1 .. sock[e].inq |-> conn[e].rcvd + i]]

HeardOwn(e) ==
  [conn EXCEPT ![e].armed = "idle", ![e].context = TRUE, ![e].rcvd = @ + sock[e].inq,
               ![Other[e]].armed = "write", ![Other[e]].context = TRUE,
               ![e].buf = @ \o [i \in 1 .. sock[e].inq |-> conn[e].rcvd + i]]

(* do_echo_read: the bytes of e go to the buffer for the other end, e is   *)
(* disarmed and the other end armed for writing.                           *)
Heard(e) ==
  [conn EXCEPT ![e].armed = "idle", ![e].context = TRUE, ![e].rcvd = @ + sock[e].inq,
               ![Other[e]].armed = "write", ![Other[e]].context = TRUE,
               ![Other[e]].buf = @ \o [i \in 1 .. sock[e].inq |-> conn[e].rcvd + i]]

ProxyRead(e) ==
  /\ conn[e].armed = "read" /\ ~HearingEnds(e)
  /\ Handles(e, "event")
  /\ conn' = Heard(e)
  /\ sock' = [sock EXCEPT ![e] = Polled([@ EXCEPT !.inq = 0], conn'[e]),
                          ![Other[e]] = Polled(OtherSock(e), conn'[Other[e]])]
  /\ UNCHANGED fault

(* do_echo_write is handle_echo_write of EchoTcp: what is left stays, and  *)
(* after the last byte the same end is armed for reading.                  *)
ProxyWrite(e) == Write(e)

ProxyWriteStops(e) ==
  /\ conn[e].armed = "write" /\ (sock[e].rst \/ Sendable(e) = 0)
  /\ Handles(e, "event")
  /\ StopPair(e)
  /\ UNCHANGED fault

(* handle_echo_timeout of either of the two timers of a context.           *)
ProxyTimeout(e) ==
  /\ Ok /\ pc = "timers" /\ conn[e].context
  /\ StopPair(e)
  /\ UNCHANGED <<batch, listener, pc, fault>>

ProxyHandler(e) ==
  \/ Accept(e) \/ ConnectFails(e) \/ ProxyError(e) \/ StaleEvent(e)
  \/ ProxyReadStops(e) \/ ProxyRead(e) \/ ProxyWrite(e) \/ ProxyWriteStops(e)

ProxyThread ==
  Wait \/ EndAccept \/ EndBatch \/ EndTimers \/ \E e \in Peers : ProxyHandler(e)

ProxyNetwork(e) == Call(e) \/ Established(e) \/ Refused(e) \/ Talks(e)

ProxyNext == ProxyThread \/ \E e \in Peers : ProxyNetwork(e) \/ ProxyTimeout(e)

(* A remote that is listened to says something or closes.                  *)
Answer(e) == conn[e].armed = "read" /\ sock[e].inq = 0 /\ (Send(e) \/ Finish(e) \/ Reset(e))

ProxySpec == Init /\ [][ProxyNext]_vars

-----------------------------------------------------------------------------
ProxySocks ==
  [state : {"closed", "backlog", "connecting", "open"}, inq : 0 .. MaxBytes,
   outq : 0 .. SendRoom, fin : BOOLEAN, rst : BOOLEAN, edge : BOOLEAN]

ProxyConns ==
  [armed : {"none", "idle", "read", "write"}, context : BOOLEAN, buf : Seq(Bytes),
   rcvd : 0 .. MaxBytes, echoed : 0 .. MaxBytes]

(* The type invariant.  Only clients are accepted, and only remotes are    *)
(* being connected to.                                                     *)
ProxyTypeOK ==
  /\ sock \in [Peers -> ProxySocks] /\ conn \in [Peers -> ProxyConns]
  /\ \A e \in Peers : Len(conn[e].buf) < BufSize
  /\ \A e \in Clients : sock[e].state # "connecting"
  /\ \A e \in Remotes : sock[e].state # "backlog"
  /\ batch \in [Peers -> {"none", "event", "error"}]
  /\ listener \in {"quiet", "edge", "batch"}
  /\ pc \in {"wait", "batch", "timers"}
  /\ fault \in {"none", "context", "stale", "exit"}

Works(e) == conn[e].armed \in {"read", "write"}

(* One event of a context is armed, at one of its ends; both ends live and *)
(* die together; bytes wait only for the end that is armed for writing.    *)
(* Arming an armed event or disarming a disarmed one would fail a CHECK of *)
(* the backend ("event is already enabled", "event is already disabled").  *)
OneArmed ==
  \A e \in Peers :
    /\ conn[e].context =>
         /\ conn[Other[e]].context
         /\ Works(e) <=> conn[Other[e]].armed = "idle"
    /\ conn[e].armed # "none" <=> sock[e].state \in {"open", "connecting"}
    /\ conn[e].armed = "write" <=> conn[e].buf # <<>>

(* What waits for an end are the bytes that came from the other end and    *)
(* were not written yet, in their order.                                   *)
RelayInOrder ==
  \A e \in Peers :
    conn[e].buf = [i \in 1 .. conn[Other[e]].rcvd - conn[e].echoed |-> conn[e].echoed + i]

(* Two healthy ends of a context are never in one batch: if both ends are, *)
(* one of them is reported as an error.  That can be, and then the handler *)
(* that comes first frees both and leaves a stale event (StaleEvent).      *)
OneTurnPerBatch ==
  \A e \in Peers : ~(batch[e] = "event" /\ batch[Other[e]] = "event")

(* A handler gives up a context only if one of its ends has closed, was    *)
(* reset or refused, or sent more than the buffer takes.                   *)
ProxyNoFalseClose ==
  [][\A e \in Peers :
       pc = "batch" /\ sock[e].state = "open" /\ sock'[e].state = "closed" =>
         \E d \in {e, Other[e]} : sock[d].fin \/ sock[d].rst \/ sock[d].inq >= BufSize]_vars

(* Whatever a client sends is read, though its turn comes only after the   *)
(* remote was told and answered, or the relay is given up.                 *)
ClientIsHeard == \A c \in Clients : sock[c].inq > 0 ~> (sock[c].inq = 0 \/ ~Ok)

(***************************************************************************)
(* The proxy implements Relay.                                             *)
(***************************************************************************)
TurnOf(c) ==
  LET d == Other[c] IN
  IF ~conn[c].context THEN "none"
  ELSE IF conn[d].armed = "idle"
    THEN IF conn[c].armed = "read" THEN "clientRead" ELSE "clientWrite"
    ELSE IF conn[d].armed = "read" THEN "remoteRead" ELSE "remoteWrite"

(* The bytes for the end to be told; in no other buffer is there a byte.   *)
HeldBy(c) ==
  IF TurnOf(c) = "clientWrite" THEN conn[c].buf
  ELSE IF TurnOf(c) = "remoteWrite" THEN conn[Other[c]].buf
  ELSE conn[c].buf \o conn[Other[c]].buf

R == INSTANCE Relay WITH
  Contexts <- Clients,
  turn  <- [c \in Clients |-> TurnOf(c)],
  held  <- [c \in Clients |-> HeldBy(c)],
  heard <- [c \in Clients |-> [client |-> conn[c].rcvd, remote |-> conn[Other[c]].rcvd]]

(* The ends speak in turns and nothing is told that was not heard, twice,  *)
(* or out of order, over partial writes and contexts that come and go.     *)
ImplementsRelay == R!Spec
=============================================================================
