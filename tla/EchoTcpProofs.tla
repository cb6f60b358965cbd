--------------------------- MODULE EchoTcpProofs ---------------------------
(***************************************************************************)
(* Proofs about the TCP echo server, for every set of peers, size of the   *)
(* buffers and number of bytes.  Connections do not share state, so most   *)
(* of the invariant speaks of one peer's records, and each step is shown   *)
(* to keep it for the one peer it is about.                                *)
(***************************************************************************)
EXTENDS EchoTcp, TLAPS, SequenceTheorems

(* The bytes e + 1 .. r, which a context owes after receiving r bytes and  *)
(* sending back e.                                                         *)
Owed(r, e) == [i \in 1 .. r - e |-> e + i]

(* What holds of a peer's socket s, connection c and event b in the batch: *)
(* an event of the batch is never spurious.                                *)
PeerInv(s, c, b) ==
  /\ s \in Socks /\ c \in Conns /\ b \in {"none", "event", "error"}
  /\ c.echoed <= c.rcvd /\ c.rcvd + s.inq <= MaxBytes
  /\ c.buf = Owed(c.rcvd, c.echoed) /\ Len(c.buf) < BufSize
  /\ c.armed = "write" <=> c.echoed < c.rcvd
  /\ c.armed = "none" <=> s.state # "open"
  /\ b = "event" => Ready(s, c)
  /\ b = "error" => s.rst /\ c.armed # "none"

Wakeful(s, c, b) == Ready(s, c) /\ b = "none" => s.edge

Peerwise ==
  /\ sock \in [Peers -> Socks] /\ conn \in [Peers -> Conns]
  /\ batch \in [Peers -> {"none", "event", "error"}]
  /\ \A p \in Peers : PeerInv(sock[p], conn[p], batch[p])

AllWakeful == Ok => \A p \in Peers : Wakeful(sock[p], conn[p], batch[p])

Phases ==
  /\ listener \in {"quiet", "edge", "batch"}
  /\ pc \in {"wait", "batch", "timers"}
  /\ fault \in {"none", "context"}
  /\ listener = "batch" => pc = "batch"
  /\ \A p \in Peers : batch[p] # "none" => pc = "batch"
  /\ Ok /\ Backlog # {} => listener # "quiet"

TcpInv == Peerwise /\ AllWakeful /\ Phases

-----------------------------------------------------------------------------
(* The bytes owed form a sequence; receiving adds to it, sending takes its *)
(* front away.                                                             *)
LEMMA OwedType ==
  ASSUME NEW r \in 0 .. MaxBytes, NEW e \in 0 .. MaxBytes, e <= r
  PROVE  Owed(r, e) \in Seq(Bytes) /\ Len(Owed(r, e)) = r - e
<1>1. r - e \in Nat /\ \A i \in 1 .. r - e : e + i \in Bytes
  BY SizeAssumption DEF Bytes
<1>2. Owed(r, e) \in [1 .. r - e -> Bytes]
  BY <1>1 DEF Owed
<1> QED BY <1>1, <1>2

(* The length of a connection's buffer is what it owes.                    *)
LEMMA DebtLen ==
  ASSUME NEW s, NEW c, NEW b, PeerInv(s, c, b)
  PROVE  /\ c.rcvd \in 0 .. MaxBytes /\ c.echoed \in 0 .. MaxBytes
         /\ Len(c.buf) = c.rcvd - c.echoed
<1>1. c.rcvd \in 0 .. MaxBytes /\ c.echoed \in 0 .. MaxBytes /\ c.echoed <= c.rcvd
  BY DEF PeerInv, Conns
<1>2. c.buf = Owed(c.rcvd, c.echoed)
  BY DEF PeerInv
<1> QED BY <1>1, <1>2, OwedType

(* Receiving n more bytes.                                                 *)
LEMMA OwedReceive ==
  ASSUME NEW r \in Nat, NEW e \in Nat, e <= r, NEW n \in Nat
  PROVE  Owed(r, e) \o [i \in 1 .. n |-> r + i] = Owed(r + n, e)
<1> DEFINE new == [i \in 1 .. n |-> r + i]
<1>1. Owed(r, e) \in Seq(Nat) /\ Len(Owed(r, e)) = r - e
  BY DEF Owed
<1>2. new \in Seq(Nat) /\ Len(new) = n
  OBVIOUS
<1> DEFINE old == Owed(r, e)
<1>3. /\ old \o new \in Seq(Nat) /\ Len(old \o new) = r + n - e
      /\ \A i \in 1 .. r + n - e :
           (old \o new)[i] = IF i <= r - e THEN old[i] ELSE new[i - (r - e)]
  <2> HIDE DEF old, new
  <2>1. old \in Seq(Nat) /\ new \in Seq(Nat) /\ Len(old) = r - e /\ Len(new) = n
    BY <1>1, <1>2 DEF old
  <2>2. /\ old \o new \in Seq(Nat) /\ Len(old \o new) = Len(old) + Len(new)
        /\ \A i \in 1 .. Len(old) + Len(new) :
             (old \o new)[i] = IF i <= Len(old) THEN old[i] ELSE new[i - Len(old)]
    BY <2>1, ConcatProperties
  <2>3. (r - e) + n = r + n - e
    OBVIOUS
  <2> QED BY <2>1, <2>2, <2>3
<1>4. ASSUME NEW i \in 1 .. r + n - e
      PROVE  (old \o new)[i] = e + i
  <2>1. CASE i <= r - e
    <3>1. old[i] = e + i
      BY <2>1 DEF Owed
    <3> QED BY <1>3, <2>1, <3>1
  <2>2. CASE i > r - e
    <3>1. i - (r - e) \in 1 .. n /\ ~(i <= r - e)
      BY <2>2
    <3>2. new[i - (r - e)] = r + (i - (r - e))
      BY <3>1
    <3>3. r + (i - (r - e)) = e + i
      OBVIOUS
    <3> HIDE DEF old, new
    <3>4. (old \o new)[i] = new[i - (r - e)]
      BY <1>3, <3>1
    <3> QED BY <3>2, <3>3, <3>4, Zenon
  <2>3. i <= r - e \/ i > r - e
    OBVIOUS
  <2> QED BY <2>1, <2>2, <2>3
<1>5. old \o new = [i \in 1 .. r + n - e |-> (old \o new)[i]]
  <2> DEFINE w == old \o new
  <2>1. w \in Seq(Nat) /\ Len(w) = r + n - e
    BY <1>3
  <2> HIDE DEF w
  <2>2. w = [i \in 1 .. r + n - e |-> w[i]]
    BY <2>1
  <2> QED BY <2>2 DEF w
<1> QED BY <1>4, <1>5 DEF Owed

(* Sending the first k bytes.                                              *)
LEMMA OwedSend ==
  ASSUME NEW r \in Nat, NEW e \in Nat, e <= r, NEW k \in 0 .. r - e
  PROVE  SubSeq(Owed(r, e), k + 1, r - e) = Owed(r, e + k)
<1>1. Owed(r, e) \in Seq(Nat) /\ Len(Owed(r, e)) = r - e
  BY DEF Owed
<1>2. Owed(r, e + k) \in Seq(Nat) /\ Len(Owed(r, e + k)) = r - e - k
  BY DEF Owed
<1> QED BY <1>1, <1>2 DEF Owed

-----------------------------------------------------------------------------
(* A stopped connection, and one that epoll looks at anew.                 *)
LEMMA StoppedInv == PeerInv(NoSock, NoConn, "none") /\ Wakeful(NoSock, NoConn, "none")
<1>1. NoSock \in Socks
  BY SizeAssumption DEF NoSock, Socks
<1>2. NoConn \in Conns /\ Owed(0, 0) = <<>>
  BY SizeAssumption DEF NoConn, Conns, Owed
<1>3. ~Ready(NoSock, NoConn)
  BY DEF NoSock, NoConn, Ready, WantsIn, WantsOut
<1> QED BY <1>1, <1>2, <1>3, SizeAssumption DEF NoSock, NoConn, PeerInv, Wakeful

(* Epoll looking at a socket anew.                                         *)
LEMMA PolledInv ==
  ASSUME NEW s, NEW c, NEW b, PeerInv(s, c, b)
  PROVE  PeerInv(Polled(s, c), c, b) /\ Wakeful(Polled(s, c), c, b)
<1> DEFINE t == Polled(s, c)
<1>1. /\ t \in Socks /\ t.edge = (s.edge \/ Ready(s, c))
      /\ t.state = s.state /\ t.inq = s.inq /\ t.outq = s.outq
      /\ t.fin = s.fin /\ t.rst = s.rst
  <2>1. Ready(s, c) \in BOOLEAN
    BY DEF Ready
  <2> QED BY <2>1 DEF Polled, PeerInv, Socks
<1> HIDE DEF t
<1>2. Ready(t, c) <=> Ready(s, c)
  BY <1>1 DEF Ready, WantsIn, WantsOut
<1>3. PeerInv(t, c, b) /\ Wakeful(t, c, b)
  BY <1>1, <1>2 DEF PeerInv, Wakeful
<1> QED BY <1>3 DEF t

(* A step that changes one peer's records only.                            *)
LEMMA StepOfOne ==
  ASSUME Peerwise, AllWakeful, NEW p \in Peers, NEW s, NEW c, NEW b,
         sock' = [sock EXCEPT ![p] = s],
         conn' = [conn EXCEPT ![p] = c],
         batch' = [batch EXCEPT ![p] = b],
         PeerInv(s, c, b),
         Ok' => Ok /\ Wakeful(s, c, b)
  PROVE  Peerwise' /\ AllWakeful'
<1>1. s \in Socks /\ c \in Conns /\ b \in {"none", "event", "error"}
  BY DEF PeerInv
<1>2. ASSUME NEW q \in Peers
      PROVE  /\ PeerInv(sock'[q], conn'[q], batch'[q])
             /\ Ok' => Wakeful(sock'[q], conn'[q], batch'[q])
  <2>1. CASE q = p
    BY <2>1 DEF Peerwise
  <2>2. CASE q # p
    <3>1. sock'[q] = sock[q] /\ conn'[q] = conn[q] /\ batch'[q] = batch[q]
      BY <2>2 DEF Peerwise
    <3> QED BY <3>1 DEF Peerwise, AllWakeful
  <2> QED BY <2>1, <2>2
<1> QED BY <1>1, <1>2 DEF Peerwise, AllWakeful

(* Stopping a connection whose event has been handled, or at a timeout.    *)
LEMMA StopKeeps ==
  ASSUME TcpInv, NEW p \in Peers, Stop(p), Ok' => Ok,
         batch' = [batch EXCEPT ![p] = "none"]
  PROVE  Peerwise' /\ AllWakeful' /\ Backlog' \subseteq Backlog
<1>1. Peerwise' /\ AllWakeful'
  BY StepOfOne, StoppedInv DEF TcpInv, Stop
<1>2. Backlog' \subseteq Backlog
  BY DEF TcpInv, Peerwise, Stop, NoSock, Backlog
<1> QED BY <1>1, <1>2

-----------------------------------------------------------------------------
(* What peers do at any time, in the middle of a batch included.           *)
LEMMA NetworkKeeps ==
  ASSUME TcpInv, NEW p \in Peers, Network(p)
  PROVE  TcpInv'
<1> DEFINE s == sock[p]
           c == conn[p]
           b == batch[p]
           t == sock'[p]
<1>0. s \in Socks /\ c \in Conns /\ PeerInv(s, c, b) /\ Wakeful(s, c, b) /\ Ok
  BY DEF TcpInv, Peerwise, AllWakeful, Network, Connect, Connected, Send, Finish, Reset, Take
<1>1. /\ sock' = [sock EXCEPT ![p] = t] /\ t.outq \in 0 .. SendRoom
      /\ conn' = [conn EXCEPT ![p] = c] /\ batch' = [batch EXCEPT ![p] = b]
      /\ UNCHANGED <<conn, batch, pc, fault>>
  <2>1. UNCHANGED <<conn, batch, pc, fault>>
    BY DEF Network, Connect, Send, Finish, Reset, Take
  <2>2. sock' = [sock EXCEPT ![p] = t] /\ t.outq \in 0 .. SendRoom
    BY <1>0, SizeAssumption
    DEF TcpInv, Peerwise, Network, Connect, Connected, Send, Finish, Reset, Take, Socks
  <2> QED BY <2>1, <2>2 DEF TcpInv, Peerwise
<1>2. CASE Connect(p)
  <2>1. t = [s EXCEPT !.state = "backlog"] /\ s.state = "closed"
    BY <1>0, <1>2 DEF Connect, TcpInv, Peerwise
  <2>2. PeerInv(t, c, b) /\ Wakeful(t, c, b)
    BY <1>0, <2>1 DEF PeerInv, Wakeful, Ready, WantsIn, WantsOut, Socks
  <2>3. Peerwise' /\ AllWakeful'
    BY <1>0, <1>1, <2>2, StepOfOne DEF TcpInv
  <2> QED BY <1>1, <1>2, <2>3 DEF TcpInv, Phases, Connect, Ok
<1>3. ASSUME listener' = listener, t.state = s.state, PeerInv(t, c, b), Wakeful(t, c, b)
      PROVE  TcpInv'
  <2>1. Peerwise' /\ AllWakeful'
    BY <1>0, <1>1, <1>3, StepOfOne DEF TcpInv
  <2>2. Backlog' = Backlog
    BY <1>1, <1>3 DEF TcpInv, Peerwise, Backlog
  <2> QED BY <1>1, <1>3, <2>1, <2>2 DEF TcpInv, Phases, Ok
<1>f. /\ s.inq \in 0 .. MaxBytes /\ s.outq \in 0 .. SendRoom /\ c.rcvd \in 0 .. MaxBytes
      /\ s.rst \in BOOLEAN /\ s.fin \in BOOLEAN /\ s.edge \in BOOLEAN
      /\ WantsIn(c) \in BOOLEAN /\ WantsOut(c) \in BOOLEAN
  BY <1>0 DEF Socks, Conns, WantsIn, WantsOut
<1>4. CASE Send(p)
  <2>1. /\ t = [s EXCEPT !.inq = @ + 1, !.edge = @ \/ WantsIn(c)]
        /\ c.rcvd + s.inq < MaxBytes /\ ~s.rst /\ listener' = listener
    BY <1>0, <1>4 DEF Send, Connected, TcpInv, Peerwise
  <2> HIDE DEF s, c, b, t
  <2>2. s.inq + 1 \in 0 .. MaxBytes /\ c.rcvd + (s.inq + 1) <= MaxBytes
    BY <1>f, <2>1, SizeAssumption
  <2>3. /\ t.state = s.state /\ t.outq = s.outq /\ t.rst = s.rst /\ t.fin = s.fin
        /\ t.inq = s.inq + 1 /\ t.edge = (s.edge \/ WantsIn(c))
        /\ t \in Socks
    BY <1>0, <1>f, <2>1, <2>2 DEF Socks
  <2>4. Ready(t, c) => Ready(s, c) \/ WantsIn(c)
    BY <2>3 DEF Ready
  <2>5. Ready(s, c) => Ready(t, c)
    BY <1>f, <2>3 DEF Ready
  <2>6. PeerInv(t, c, b)
    BY <1>0, <2>2, <2>3, <2>5 DEF PeerInv
  <2> QED BY <1>0, <1>3, <2>1, <2>3, <2>4, <2>6 DEF Wakeful
<1>5. CASE Finish(p)
  <2>1. t = [s EXCEPT !.fin = TRUE, !.edge = @ \/ c.armed # "none"] /\ listener' = listener
    BY <1>0, <1>5 DEF Finish, TcpInv, Peerwise
  <2> QED BY <1>0, <1>3, <2>1 DEF PeerInv, Wakeful, Ready, WantsIn, WantsOut, Socks
<1>6. CASE Reset(p)
  <2>1. /\ t = [s EXCEPT !.rst = TRUE, !.inq = 0, !.edge = @ \/ c.armed # "none"]
        /\ listener' = listener
    BY <1>0, <1>6 DEF Reset, TcpInv, Peerwise
  <2> DEFINE armed == c.armed # "none"
  <2>a. armed \in BOOLEAN /\ 0 \in 0 .. MaxBytes
    BY SizeAssumption
  <2>b. t = [s EXCEPT !.rst = TRUE, !.inq = 0, !.edge = @ \/ armed]
    BY <2>1
  <2> HIDE DEF s, c, b, t
  <2>2. /\ t.state = s.state /\ t.outq = s.outq /\ t.rst /\ t.fin = s.fin
        /\ t.inq = 0 /\ t.edge = (s.edge \/ armed)
        /\ t \in Socks
    <3> HIDE DEF armed
    <3> QED BY <1>0, <1>f, <2>a, <2>b DEF Socks
  <2>3. Ready(t, c) <=> c.armed # "none"
    BY <2>2 DEF Ready, WantsIn, WantsOut
  <2>4. PeerInv(t, c, b)
    <3>1. Ready(s, c) => c.armed # "none"
      BY DEF Ready, WantsIn, WantsOut
    <3>2. c.rcvd + t.inq <= MaxBytes
      BY <1>f, <2>2, SizeAssumption
    <3> QED BY <1>0, <2>2, <2>3, <3>1, <3>2 DEF PeerInv
  <2> QED BY <1>0, <1>3, <2>1, <2>2, <2>3, <2>4 DEF Wakeful
<1>7. CASE Take(p)
  <2>1. /\ t = [s EXCEPT !.outq = @ - 1, !.edge = @ \/ WantsOut(c)]
        /\ s.outq > 0 /\ ~s.rst /\ listener' = listener
    BY <1>0, <1>7 DEF Take, Connected, TcpInv, Peerwise
  <2> HIDE DEF s, c, b, t
  <2>2. s.outq - 1 \in 0 .. SendRoom
    BY <1>f, <2>1, SizeAssumption
  <2>3. /\ t.state = s.state /\ t.inq = s.inq /\ t.rst = s.rst /\ t.fin = s.fin
        /\ t.outq = s.outq - 1 /\ t.edge = (s.edge \/ WantsOut(c))
        /\ t \in Socks
    BY <1>0, <1>f, <2>1, <2>2 DEF Socks
  <2>4. Ready(t, c) => Ready(s, c) \/ WantsOut(c)
    BY <2>3 DEF Ready
  <2>5. Ready(s, c) => Ready(t, c)
    BY <1>f, <2>3, SizeAssumption DEF Ready
  <2>6. PeerInv(t, c, b)
    BY <1>0, <2>3, <2>5 DEF PeerInv
  <2> QED BY <1>0, <1>3, <2>1, <2>3, <2>4, <2>6 DEF Wakeful
<1> QED BY <1>2, <1>4, <1>5, <1>6, <1>7 DEF Network

-----------------------------------------------------------------------------
(* The steps of the loop: what Wait reports is ready, and what it leaves is not. *)
LEMMA LoopKeeps ==
  ASSUME TcpInv, Wait \/ EndBatch \/ EndTimers \/ EndAccept
  PROVE  TcpInv'
<1>1. CASE EndBatch \/ EndTimers \/ EndAccept
  <2>1. UNCHANGED <<sock, conn, batch, fault>>
    BY <1>1 DEF EndBatch, EndTimers, EndAccept
  <2>2. Peerwise' /\ AllWakeful' /\ Backlog' = Backlog
    BY <2>1 DEF TcpInv, Peerwise, AllWakeful, Ok, Backlog
  <2>3. Phases'
    BY <1>1, <2>1, <2>2 DEF TcpInv, Phases, EndBatch, EndTimers, EndAccept, Accepting, Ok
  <2> QED BY <2>2, <2>3 DEF TcpInv
<1>2. CASE Wait
  <2>1. ASSUME NEW p \in Peers
        PROVE  /\ batch'[p] \in {"none", "event", "error"}
               /\ sock'[p] \in Socks /\ sock'[p].state = sock[p].state
               /\ PeerInv(sock'[p], conn'[p], batch'[p])
               /\ Wakeful(sock'[p], conn'[p], batch'[p])
    <3> DEFINE s == sock[p]
               c == conn[p]
               t == sock'[p]
               b == batch'[p]
    <3>1. t = [s EXCEPT !.edge = FALSE] /\ conn'[p] = c /\ b = Report(p)
      BY <1>2 DEF Wait
    <3>2. s \in Socks /\ PeerInv(s, c, batch[p]) /\ Wakeful(s, c, "none")
      BY <1>2 DEF TcpInv, Peerwise, AllWakeful, Phases, Wait
    <3>3. /\ t \in Socks /\ t.state = s.state /\ t.inq = s.inq /\ t.outq = s.outq
          /\ t.fin = s.fin /\ t.rst = s.rst
      BY <3>1, <3>2 DEF Socks
    <3>4. Ready(t, c) <=> Ready(s, c)
      BY <3>3 DEF Ready
    <3>5. /\ b \in {"none", "event", "error"}
          /\ b = "none" => ~Ready(s, c)
          /\ b # "none" => Ready(s, c)
          /\ b = "error" => s.rst
      BY <3>1, <3>2 DEF Report, Wakeful
    <3>6. Ready(s, c) => c.armed # "none"
      BY DEF Ready, WantsIn, WantsOut
    <3>7. PeerInv(t, c, b) /\ Wakeful(t, c, b)
      <4> HIDE DEF s, c, t, b
      <4> QED BY <3>2, <3>3, <3>4, <3>5, <3>6 DEF PeerInv, Wakeful
    <3> QED BY <3>1, <3>3, <3>5, <3>7
  <2>2. Peerwise' /\ AllWakeful'
    BY <1>2, <2>1 DEF TcpInv, Peerwise, AllWakeful, Wait
  <2>3. Backlog' = Backlog
    BY <2>1 DEF Backlog
  <2>4. Phases'
    BY <1>2, <2>3 DEF TcpInv, Phases, Wait, Ok
  <2> QED BY <2>2, <2>4 DEF TcpInv
<1> QED BY <1>1, <1>2

(* A new connection is looked at when it is registered.                    *)
LEMMA AcceptKeeps ==
  ASSUME TcpInv, NEW p \in Peers, Accept(p)
  PROVE  TcpInv'
<1> DEFINE s == sock[p]
           c == conn[p]
           b == batch[p]
           o == [s EXCEPT !.state = "open"]
           d == [c EXCEPT !.armed = "read"]
<1>1. s \in Socks /\ c \in Conns /\ PeerInv(s, c, b) /\ s.state = "backlog"
  BY DEF TcpInv, Peerwise, Accept, Accepting, Backlog
<1>2. /\ conn' = [conn EXCEPT ![p] = d] /\ sock' = [sock EXCEPT ![p] = Polled(o, d)]
      /\ batch' = [batch EXCEPT ![p] = b] /\ UNCHANGED <<batch, listener, pc, fault>> /\ Ok
  BY DEF TcpInv, Peerwise, Accept, Accepting
<1>3. b = "none" /\ c.echoed >= c.rcvd
  <2>1. c.armed = "none"
    BY <1>1 DEF PeerInv
  <2>2. c.echoed >= c.rcvd
    BY <1>1, <2>1, SizeAssumption DEF PeerInv, Conns
  <2>3. b = "none"
    BY <1>1, <2>1 DEF PeerInv, Ready, WantsIn, WantsOut
  <2> QED BY <2>2, <2>3
<1>4. /\ o \in Socks /\ o.state = "open" /\ o.inq = s.inq
      /\ d \in Conns /\ d.armed = "read" /\ d.rcvd = c.rcvd /\ d.echoed = c.echoed
      /\ d.buf = c.buf
  BY <1>1 DEF Socks, Conns
<1>5. PeerInv(o, d, b)
  <2>1. ~(d.echoed < d.rcvd)
    BY <1>1, <1>3, <1>4, SizeAssumption DEF Conns
  <2> HIDE DEF s, c, b, o, d
  <2> QED BY <1>1, <1>3, <1>4, <2>1 DEF PeerInv
<1>6. PeerInv(Polled(o, d), d, b) /\ Wakeful(Polled(o, d), d, b)
  BY <1>5, PolledInv
<1>7. Peerwise' /\ AllWakeful'
  BY <1>2, <1>6, StepOfOne DEF TcpInv
<1>8. listener = "batch"
  BY DEF Accept, Accepting
<1> QED BY <1>2, <1>7, <1>8 DEF TcpInv, Phases, Ok

-----------------------------------------------------------------------------
(* Handlers leave the listener alone and accept no connection.             *)
LEMMA HandlerPhases ==
  ASSUME TcpInv, NEW p \in Peers, NEW event, Handles(p, event),
         fault' \in {"none", "context"}, Ok' => Ok, Backlog' \subseteq Backlog
  PROVE  Phases'
BY DEF TcpInv, Peerwise, Phases, Handles

(* The ways a connection ends.                                             *)
LEMMA StopsKeep ==
  ASSUME TcpInv, NEW p \in Peers,
         HandleError(p) \/ ReadStops(p) \/ WriteStops(p) \/ Timeout(p)
  PROVE  TcpInv'
<1>1. CASE HandleError(p) /\ ~conn[p].context
  <2>1. UNCHANGED <<sock, conn>> /\ fault' = "context" /\ Handles(p, "error")
    BY <1>1 DEF HandleError
  <2>2. batch' = [batch EXCEPT ![p] = "none"]
    BY <2>1 DEF Handles
  <2>3. /\ sock' = [sock EXCEPT ![p] = sock[p]] /\ conn' = [conn EXCEPT ![p] = conn[p]]
        /\ PeerInv(sock[p], conn[p], "none")
    BY <2>1 DEF TcpInv, Peerwise, PeerInv
  <2>4. Peerwise' /\ AllWakeful'
    BY <2>1, <2>2, <2>3, StepOfOne DEF TcpInv, Ok
  <2>5. Phases'
    BY <2>1, HandlerPhases DEF Ok, Backlog
  <2> QED BY <2>4, <2>5 DEF TcpInv
<1>2. CASE ~(HandleError(p) /\ ~conn[p].context) /\ ~Timeout(p)
  <2>1. PICK event : Handles(p, event)
    BY <1>2 DEF HandleError, ReadStops, WriteStops
  <2>2. Stop(p) /\ fault' = fault
    BY <1>2 DEF HandleError, ReadStops, WriteStops
  <2>3. batch' = [batch EXCEPT ![p] = "none"]
    BY <2>1 DEF Handles
  <2>4. Peerwise' /\ AllWakeful' /\ Backlog' \subseteq Backlog
    BY <2>2, <2>3, StopKeeps DEF Ok
  <2>5. Phases'
    BY <2>1, <2>2, <2>4, HandlerPhases DEF TcpInv, Phases, Ok
  <2> QED BY <2>4, <2>5 DEF TcpInv
<1>3. CASE Timeout(p)
  <2>1. Stop(p) /\ pc = "timers" /\ UNCHANGED <<batch, listener, pc, fault>>
    BY <1>3 DEF Timeout
  <2>2. batch' = [batch EXCEPT ![p] = "none"]
    BY <2>1 DEF TcpInv, Peerwise, Phases
  <2>3. Peerwise' /\ AllWakeful' /\ Backlog' \subseteq Backlog
    BY <2>1, <2>2, StopKeeps DEF Ok
  <2> QED BY <2>1, <2>3 DEF TcpInv, Phases, Ok
<1> QED BY <1>1, <1>2, <1>3

(* A handler that changes one open connection and leaves it open.          *)
LEMMA OpenKeeps ==
  ASSUME TcpInv, NEW p \in Peers, Handles(p, "event"), fault' = fault,
         NEW s, NEW c, s.state = sock[p].state,
         sock' = [sock EXCEPT ![p] = s], conn' = [conn EXCEPT ![p] = c],
         PeerInv(s, c, "none"), Wakeful(s, c, "none")
  PROVE  TcpInv'
<1>1. batch' = [batch EXCEPT ![p] = "none"] /\ Ok
  BY DEF Handles
<1>2. Peerwise' /\ AllWakeful'
  BY <1>1, StepOfOne DEF TcpInv
<1>3. Backlog' \subseteq Backlog
  BY DEF TcpInv, Peerwise, Backlog
<1>4. Phases'
  BY <1>1, <1>3, HandlerPhases DEF TcpInv, Phases, Ok
<1> QED BY <1>2, <1>4 DEF TcpInv

(* handle_echo_read.                                                       *)
LEMMA ReadKeeps ==
  ASSUME TcpInv, NEW p \in Peers, Read(p)
  PROVE  TcpInv'
<1> DEFINE s == sock[p]
           c == conn[p]
           n == s.inq
           r == c.rcvd
           e == c.echoed
           o == [s EXCEPT !.inq = 0]
           d == [armed |-> "write", context |-> TRUE,
                 buf |-> c.buf \o [i \in 1 .. n |-> r + i], rcvd |-> r + n, echoed |-> e]
<1>1. s \in Socks /\ c \in Conns /\ PeerInv(s, c, batch[p])
  BY DEF TcpInv, Peerwise
<1>2. /\ n \in Nat /\ r \in 0 .. MaxBytes /\ e \in 0 .. MaxBytes /\ e <= r
      /\ r + n <= MaxBytes /\ c.buf = Owed(r, e) /\ c.armed = "read"
      /\ s.state = "open"
  BY <1>1, SizeAssumption DEF PeerInv, Socks, Conns, Read
<1>3. n # 0 /\ n < BufSize - Len(c.buf)
  <2>1. n # 0 /\ ~(n >= BufSize - Len(c.buf))
    BY DEF Read, ReceiveEnds, Overflows, Space
  <2>2. Len(c.buf) = r - e
    BY <1>2, OwedType
  <2> QED BY <1>2, <2>1, <2>2, SizeAssumption
<1>4. /\ sock' = [sock EXCEPT ![p] = Polled(o, d)]
      /\ conn' = [conn EXCEPT ![p] = d]
      /\ Handles(p, "event") /\ fault' = fault
  BY DEF TcpInv, Peerwise, Read
<1>5. /\ d.buf = Owed(r + n, e) /\ d.buf \in Seq(Bytes)
      /\ Len(d.buf) = r + n - e /\ Len(c.buf) = r - e
      /\ r + n \in 0 .. MaxBytes
  <2>1. r + n \in 0 .. MaxBytes /\ e <= r + n /\ r \in Nat /\ e \in Nat
    BY <1>2, SizeAssumption
  <2>2. d.buf = Owed(r + n, e)
    <3>1. d.buf = c.buf \o [i \in 1 .. n |-> r + i]
      OBVIOUS
    <3> HIDE DEF d, c, r, n, e
    <3>2. c.buf \o [i \in 1 .. n |-> r + i] = Owed(r + n, e)
      <4>1. Owed(r, e) \o [i \in 1 .. n |-> r + i] = Owed(r + n, e)
        BY <1>2, <2>1, OwedReceive, Zenon
      <4> QED BY <1>2, <4>1, Zenon
    <3> QED BY <3>1, <3>2
  <2>3. Len(c.buf) = r - e
    BY <1>2, OwedType
  <2>4. Owed(r + n, e) \in Seq(Bytes) /\ Len(Owed(r + n, e)) = (r + n) - e
    <3> DEFINE m == r + n
    <3>1. m \in 0 .. MaxBytes /\ e <= m
      BY <2>1
    <3> HIDE DEF m
    <3>2. Owed(m, e) \in Seq(Bytes) /\ Len(Owed(m, e)) = m - e
      BY <1>2, <3>1, OwedType
    <3> QED BY <3>2, Zenon DEF m
  <2>5. (r + n) - e = r + n - e
    BY <1>2, <2>1
  <2> HIDE DEF d, c, r, n, e
  <2> QED BY <2>1, <2>2, <2>3, <2>4, <2>5
<1>6. d \in Conns
  BY <1>2, <1>5 DEF Conns
<1>7. o \in Socks /\ o.inq = 0 /\ o.state = "open"
  BY <1>1, <1>2, SizeAssumption DEF Socks
<1>8. /\ d.armed = "write" /\ d.rcvd = r + n /\ d.echoed = e
      /\ d.echoed < d.rcvd /\ Len(d.buf) < BufSize /\ d.rcvd + o.inq <= MaxBytes
  <2>1. d.armed = "write" /\ d.rcvd = r + n /\ d.echoed = e
    OBVIOUS
  <2>2. Len(d.buf) = r + n - e /\ Len(c.buf) = r - e
    BY <1>5
  <2>3. e < r + n /\ r + n - e < BufSize /\ r + n + 0 <= MaxBytes
    <3> HIDE DEF r, n, e
    <3> QED BY <1>2, <1>3, <2>2, SizeAssumption
  <2> HIDE DEF o, d
  <2> QED BY <1>7, <2>1, <2>2, <2>3
<1>9. PeerInv(o, d, "none")
  <2> HIDE DEF s, c, o, d
  <2> QED BY <1>2, <1>5, <1>6, <1>7, <1>8 DEF PeerInv
<1>10. Polled(o, d).state = s.state
  BY <1>1 DEF Polled, Socks
<1> HIDE DEF o, d
<1> QED BY <1>4, <1>9, <1>10, PolledInv, OpenKeeps

(* handle_echo_write: a partial write fills the send buffer.               *)
LEMMA WriteKeeps ==
  ASSUME TcpInv, NEW p \in Peers, Write(p)
  PROVE  TcpInv'
<1> DEFINE s == sock[p]
           c == conn[p]
           r == c.rcvd
           e == c.echoed
           k == Sendable(p)
           o == [s EXCEPT !.outq = @ + k]
           d == [c EXCEPT !.armed = NextArmed(p), !.buf = Unsent(p), !.echoed = @ + k]
<1>1. s \in Socks /\ c \in Conns /\ PeerInv(s, c, batch[p])
  BY DEF TcpInv, Peerwise
<1>2. /\ r \in 0 .. MaxBytes /\ e \in 0 .. MaxBytes /\ e <= r
      /\ c.buf = Owed(r, e) /\ s.state = "open" /\ s.outq \in 0 .. SendRoom
      /\ ~s.rst /\ Len(c.buf) < BufSize /\ r + s.inq <= MaxBytes /\ s.inq \in Nat
  BY <1>1 DEF PeerInv, Socks, Conns, Write
<1>3. Len(c.buf) = r - e
  BY <1>2, OwedType
<1>4. /\ k \in 1 .. r - e /\ s.outq + k \in 0 .. SendRoom
      /\ k # r - e => s.outq + k = SendRoom
  <2>1. /\ k = IF Len(c.buf) <= SendRoom - s.outq THEN Len(c.buf) ELSE SendRoom - s.outq
        /\ k # 0
    BY DEF Sendable, Write
  <2> HIDE DEF k, s, c, r, e
  <2>2. r - e \in Nat /\ s.outq \in 0 .. SendRoom /\ SendRoom \in Nat
    BY <1>2, SizeAssumption
  <2> QED BY <1>3, <2>1, <2>2
<1>5. e + k \in 0 .. MaxBytes /\ e + k <= r
  <2> HIDE DEF k, s, c, r, e
  <2> QED BY <1>2, <1>4, SizeAssumption
<1>6. /\ Unsent(p) = Owed(r, e + k) /\ Unsent(p) \in Seq(Bytes)
      /\ Len(Unsent(p)) = r - (e + k)
  <2>1. Unsent(p) = Owed(r, e + k)
    <3>1. Unsent(p) = SubSeq(Owed(r, e), k + 1, r - e)
      BY <1>2, <1>3 DEF Unsent
    <3>2. r \in Nat /\ e \in Nat /\ k \in 0 .. r - e
      BY <1>2, <1>4, SizeAssumption
    <3> HIDE DEF k, r, e
    <3> QED BY <1>2, <3>1, <3>2, OwedSend
  <2> QED BY <1>2, <1>5, <2>1, OwedType
<1>7. /\ NextArmed(p) \in {"read", "write"}
      /\ NextArmed(p) = "write" <=> e + k < r
  BY <1>2, <1>5, <1>6 DEF NextArmed
<1>8. /\ conn' = [conn EXCEPT ![p] = d]
      /\ sock' = [sock EXCEPT ![p] = IF d.armed = "write" THEN o ELSE Polled(o, d)]
      /\ Handles(p, "event") /\ fault' = fault
  <2>1. conn' = [conn EXCEPT ![p] = d] /\ conn'[p] = d
    BY DEF TcpInv, Peerwise, Write
  <2> QED BY <2>1 DEF TcpInv, Peerwise, Write
<1>9. /\ d \in Conns /\ d.armed = NextArmed(p) /\ d.rcvd = r /\ d.echoed = e + k
      /\ d.buf = Unsent(p)
  <2> HIDE DEF k
  <2> QED BY <1>1, <1>5, <1>6, <1>7 DEF Conns
<1>10. /\ o \in Socks /\ o.state = "open" /\ o.inq = s.inq /\ o.outq = s.outq + k
       /\ ~o.rst
  <2> HIDE DEF k
  <2> QED BY <1>1, <1>2, <1>4 DEF Socks
<1>11. PeerInv(o, d, "none")
  <2>1. Len(d.buf) < BufSize
    <3> HIDE DEF k, s, c, r, e, o, d
    <3>1. Len(d.buf) = r - (e + k)
      BY <1>6, <1>9
    <3>2. r - e < BufSize /\ r \in Nat /\ e \in Nat /\ k \in Nat
      BY <1>2, <1>3, <1>4, SizeAssumption
    <3> QED BY <3>1, <3>2, SizeAssumption
  <2>2. d.echoed <= d.rcvd /\ d.rcvd + o.inq <= MaxBytes
    <3> HIDE DEF k, s, c, r, e, o, d
    <3>1. d.echoed = e + k /\ d.rcvd = r /\ o.inq = s.inq
      BY <1>9, <1>10
    <3>2. e + k <= r /\ r + s.inq <= MaxBytes
      BY <1>2, <1>5
    <3> QED BY <3>1, <3>2, Zenon
  <2>3. d.armed = "write" <=> d.echoed < d.rcvd
    BY <1>7, <1>9
  <2>4. d.armed = "none" <=> o.state # "open"
    BY <1>7, <1>9, <1>10
  <2>5. d.buf = Owed(d.rcvd, d.echoed)
    BY <1>6, <1>9
  <2> HIDE DEF o, d
  <2> QED BY <1>9, <1>10, <2>1, <2>2, <2>3, <2>4, <2>5 DEF PeerInv
<1>12. CASE d.armed = "write"
  <2>1. o.outq = SendRoom
    BY <1>2, <1>4, <1>5, <1>7, <1>9, <1>10, <1>12
  <2>2. ~Ready(o, d)
    BY <1>10, <1>12, <2>1, SizeAssumption DEF Ready, WantsIn, WantsOut
  <2>3. Wakeful(o, d, "none")
    BY <2>2 DEF Wakeful
  <2>4. sock' = [sock EXCEPT ![p] = o]
    BY <1>8, <1>12
  <2> HIDE DEF o, d
  <2> QED BY <1>2, <1>8, <1>10, <1>11, <2>3, <2>4, OpenKeeps
<1>13. CASE d.armed # "write"
  <2>1. sock' = [sock EXCEPT ![p] = Polled(o, d)]
    BY <1>8, <1>13
  <2>2. Polled(o, d).state = s.state
    BY <1>1 DEF Polled, Socks
  <2> HIDE DEF o, d
  <2> QED BY <1>8, <1>11, <2>1, <2>2, PolledInv, OpenKeeps
<1> QED BY <1>12, <1>13

-----------------------------------------------------------------------------
(* Every step keeps the invariant.                                         *)
LEMMA TcpInvStep == TcpInv /\ [Next]_vars => TcpInv'
<1> SUFFICES ASSUME TcpInv, [Next]_vars PROVE TcpInv'
  OBVIOUS
<1>1. CASE UNCHANGED vars
  BY <1>1 DEF vars, TcpInv, Peerwise, AllWakeful, Phases, Ok, Backlog
<1>2. CASE Wait \/ EndBatch \/ EndTimers \/ EndAccept
  BY <1>2, LoopKeeps
<1>3. ASSUME NEW p \in Peers, Handler(p)
      PROVE  TcpInv'
  BY <1>3, AcceptKeeps, ReadKeeps, WriteKeeps, StopsKeep DEF Handler
<1>4. ASSUME NEW p \in Peers, Network(p) \/ Timeout(p)
      PROVE  TcpInv'
  BY <1>4, NetworkKeeps, StopsKeep
<1> QED BY <1>1, <1>2, <1>3, <1>4 DEF Next, Thread

(* The invariant holds of every behaviour.                                 *)
LEMMA TcpInvariance == Spec => []TcpInv
<1>1. Init => TcpInv
  <2> SUFFICES ASSUME Init PROVE TcpInv
    OBVIOUS
  <2>1. NoSock \in Socks /\ NoConn \in Conns
    BY StoppedInv DEF PeerInv
  <2>2. Peerwise /\ AllWakeful
    BY <2>1, StoppedInv DEF Init, Peerwise, AllWakeful
  <2>3. Phases
    BY DEF Init, Phases, Backlog, NoSock
  <2> QED BY <2>2, <2>3 DEF TcpInv
<1> QED BY <1>1, TcpInvStep, PTL DEF Spec

-----------------------------------------------------------------------------
(* Type correctness; in particular the NUL written behind the bytes of a   *)
(* buffer stays inside it.                                                 *)
THEOREM TcpTypeCorrect == Spec => []TypeOK
<1>1. TcpInv => TypeOK
  BY DEF TcpInv, Peerwise, Phases, PeerInv, TypeOK
<1> QED BY <1>1, TcpInvariance, PTL

(* No socket that is ready for its armed event is forgotten by epoll, and  *)
(* no pending connection by the listener.                                  *)
THEOREM TcpNoLostWakeup == Spec => []NoLostWakeup
<1>1. TcpInv => NoLostWakeup
  BY DEF TcpInv, AllWakeful, Wakeful, Phases, NoLostWakeup
<1> QED BY <1>1, TcpInvariance, PTL

(* No event of a batch points to a connection that is gone.                *)
THEOREM TcpBatchIsLive == Spec => []BatchIsLive
<1>1. TcpInv => BatchIsLive
  <2> SUFFICES ASSUME TcpInv, NEW p \in Peers, batch[p] # "none"
               PROVE  pc = "batch" /\ sock[p].state = "open" /\ conn[p].armed # "none"
    BY DEF BatchIsLive
  <2>1. PeerInv(sock[p], conn[p], batch[p]) /\ pc = "batch"
    BY DEF TcpInv, Peerwise, Phases
  <2> QED BY <2>1 DEF PeerInv, Ready, WantsIn, WantsOut
<1> QED BY <1>1, TcpInvariance, PTL

(* The buffer holds exactly the bytes owed, in order.                      *)
THEOREM TcpEchoInOrder == Spec => []EchoInOrder
<1>1. TcpInv => EchoInOrder
  BY DEF TcpInv, Peerwise, PeerInv, Owed, EchoInOrder
<1> QED BY <1>1, TcpInvariance, PTL

(* The armed direction is the one the bytes owed call for.                 *)
THEOREM TcpArmedForDebt == Spec => []ArmedForDebt
<1>1. TcpInv => ArmedForDebt
  BY DEF TcpInv, Peerwise, PeerInv, ArmedForDebt
<1> QED BY <1>1, TcpInvariance, PTL

(* A healthy connection is never closed by a handler: an event in the      *)
(* batch is never spurious, so there is always something to receive or     *)
(* room to send.                                                           *)
THEOREM TcpNoFalseClose == Spec => NoFalseClose
<1> DEFINE Fair(p) == pc = "batch" /\ sock[p].state = "open" /\ sock'[p].state = "closed" =>
                        sock[p].fin \/ sock[p].rst \/ sock[p].inq >= BufSize
<1>1. ASSUME TcpInv, [Next]_vars, ~UNCHANGED vars, NEW p \in Peers,
             pc = "batch", sock[p].state = "open", sock'[p].state = "closed"
      PROVE  sock[p].fin \/ sock[p].rst \/ sock[p].inq >= BufSize
  <2>1. PeerInv(sock[p], conn[p], batch[p])
    BY <1>1 DEF TcpInv, Peerwise
  <2>2. PICK q \in Peers : HandleError(q) \/ ReadStops(q) \/ WriteStops(q)
    <3>1. ASSUME NEW q \in Peers, Network(q) \/ Accept(q) \/ Read(q) \/ Write(q)
          PROVE  FALSE
      <4>1. sock[p] \in Socks /\ sock[q] \in Socks
        BY <1>1 DEF TcpInv, Peerwise
      <4>2. ASSUME Network(q) PROVE FALSE
        BY <1>1, <4>1, <4>2
        DEF TcpInv, Peerwise, Socks, Network, Connect, Send, Finish, Reset, Take
      <4>3. ASSUME Accept(q) PROVE FALSE
        BY <1>1, <4>1, <4>3 DEF TcpInv, Peerwise, Socks, Accept, Polled
      <4>4. ASSUME Read(q) PROVE FALSE
        BY <1>1, <4>1, <4>4 DEF TcpInv, Peerwise, Socks, Read, Polled
      <4>5. ASSUME Write(q) PROVE FALSE
        BY <1>1, <4>1, <4>5 DEF TcpInv, Peerwise, Socks, Write, Polled
      <4> QED BY <3>1, <4>2, <4>3, <4>4, <4>5
    <3>2. ASSUME Wait PROVE FALSE
      BY <1>1, <3>2 DEF Wait
    <3>3. ASSUME EndBatch \/ EndTimers \/ EndAccept PROVE FALSE
      BY <1>1, <3>3 DEF EndBatch, EndTimers, EndAccept
    <3>4. ASSUME NEW q \in Peers, Timeout(q) PROVE FALSE
      BY <1>1, <3>4 DEF Timeout
    <3> QED BY <1>1, <3>1, <3>2, <3>3, <3>4 DEF Next, Thread, Handler
  <2>3. q = p
    BY <1>1, <2>2 DEF TcpInv, Peerwise, HandleError, ReadStops, WriteStops, Stop
  <2>4. CASE HandleError(p)
    BY <2>1, <2>4 DEF HandleError, Handles, PeerInv
  <2>5. CASE ReadStops(p)
    <3>1. Ready(sock[p], conn[p]) /\ conn[p].armed = "read"
      BY <2>1, <2>5 DEF ReadStops, Handles, PeerInv
    <3>2. Len(conn[p].buf) = 0
      <4>1. /\ conn[p].rcvd \in 0 .. MaxBytes /\ conn[p].echoed \in 0 .. MaxBytes
            /\ Len(conn[p].buf) = conn[p].rcvd - conn[p].echoed
        BY <2>1, DebtLen
      <4>2. conn[p].echoed <= conn[p].rcvd /\ ~(conn[p].echoed < conn[p].rcvd)
        BY <2>1, <3>1 DEF PeerInv
      <4> QED BY <4>1, <4>2
    <3>3. sock[p].inq \in 0 .. MaxBytes
      BY <2>1 DEF PeerInv, Socks
    <3>4. ReceiveEnds(p)
      BY <2>5 DEF ReadStops
    <3> QED BY <3>1, <3>2, <3>3, <3>4, SizeAssumption
      DEF ReceiveEnds, Overflows, Space, Ready, WantsIn, WantsOut
  <2>6. CASE WriteStops(p)
    <3>1. Ready(sock[p], conn[p]) /\ conn[p].armed = "write"
      BY <2>1, <2>6 DEF WriteStops, Handles, PeerInv
    <3>2. Len(conn[p].buf) > 0
      <4>1. /\ conn[p].rcvd \in 0 .. MaxBytes /\ conn[p].echoed \in 0 .. MaxBytes
            /\ Len(conn[p].buf) = conn[p].rcvd - conn[p].echoed
        BY <2>1, DebtLen
      <4>2. conn[p].echoed < conn[p].rcvd
        BY <2>1, <3>1 DEF PeerInv
      <4> QED BY <4>1, <4>2
    <3>3. sock[p].outq \in 0 .. SendRoom /\ Len(conn[p].buf) \in Int
      BY <2>1 DEF PeerInv, Socks, Conns
    <3>4. sock[p].rst \/ Sendable(p) = 0
      BY <2>6 DEF WriteStops
    <3> QED BY <3>1, <3>2, <3>3, <3>4, SizeAssumption DEF Sendable, Ready, WantsIn, WantsOut
  <2> QED BY <2>2, <2>3, <2>4, <2>5, <2>6
<1>2. TcpInv /\ [Next]_vars => [\A p \in Peers : Fair(p)]_vars
  BY <1>1
<1> QED BY <1>2, TcpInvariance, PTL DEF Spec, NoFalseClose
=============================================================================
