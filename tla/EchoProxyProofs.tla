-------------------------- MODULE EchoProxyProofs --------------------------
(***************************************************************************)
(* Proofs about the echo proxy over TCP, for every number of clients and   *)
(* all sizes.  Contexts share no state, so the invariant speaks of one end *)
(* and of what it must know of the other end; a step is shown to keep it   *)
(* for the two ends it is about.  The bytes owed are those of EchoTcpProofs. *)
(***************************************************************************)
EXTENDS EchoProxy, EchoTcpProofs

Busy(c) == c.armed \in {"read", "write"}

(* What holds of an end e with socket s, connection c and event b in the   *)
(* batch, when the other end has the connection d and the event g.         *)
Typed(s, c, b) ==
  s \in ProxySocks /\ c \in ProxyConns /\ b \in {"none", "event", "error"}

Counted(s, c, d) ==
  /\ c.rcvd + s.inq <= MaxBytes
  /\ c.echoed <= d.rcvd
  /\ c.buf = Owed(d.rcvd, c.echoed) /\ Len(c.buf) < BufSize
  /\ c.armed = "write" <=> c.echoed < d.rcvd

(* The two ends take turns.  Before the context is, there is the client.   *)
Paired(e, s, c, d) ==
  /\ c.armed # "none" <=> s.state \in {"open", "connecting"}
  /\ c.context => d.context /\ c.armed # "none" /\ (Busy(c) <=> d.armed = "idle")
  /\ ~c.context => c.rcvd = 0 /\ c.echoed = 0 /\ c.armed \in {"none", "read"}
  /\ ~c.context /\ e \notin Clients => c.armed = "none"
  /\ e \in Clients => s.state # "connecting"
  /\ e \notin Clients => s.state # "backlog"

(* An event of the batch is not spurious, unless the end was freed since;  *)
(* then the event of the other end, whose handler freed it, is over.       *)
Founded(s, c, b, g) ==
  /\ b = "event" => c.armed = "none" \/ (Busy(c) /\ Ready(s, c))
  /\ b = "error" => c.armed = "none" \/ s.rst
  /\ b # "none" /\ c.armed = "none" => g = "none"
  /\ s.state = "backlog" => b = "none"

EndInv(e, s, c, b, d, g) ==
  Typed(s, c, b) /\ Counted(s, c, d) /\ Paired(e, s, c, d) /\ Founded(s, c, b, g)

Ends ==
  /\ sock \in [Peers -> ProxySocks] /\ conn \in [Peers -> ProxyConns]
  /\ batch \in [Peers -> {"none", "event", "error"}]
  /\ \A e \in Peers :
       EndInv(e, sock[e], conn[e], batch[e], conn[Other[e]], batch[Other[e]])

ProxyPhases ==
  /\ listener \in {"quiet", "edge", "batch"}
  /\ pc \in {"wait", "batch", "timers"}
  /\ fault \in {"none", "context", "stale", "exit"}
  /\ \A e \in Peers : batch[e] # "none" => pc = "batch"

ProxyInv == Ends /\ ProxyPhases

-----------------------------------------------------------------------------
LEMMA OtherEnd ==
  ASSUME NEW e \in Peers
  PROVE  /\ Other[e] \in Peers /\ Other[e] # e /\ Other[Other[e]] = e
         /\ Other[e] \in Clients <=> e \notin Clients
BY PairAssumption

(* A step that changes the records of the two ends of a context only.      *)
LEMMA StepOfPair ==
  ASSUME Ends, NEW e \in Peers,
         NEW s, NEW c, NEW b, NEW t, NEW d, NEW g,
         sock'  = [sock  EXCEPT ![e] = s, ![Other[e]] = t],
         conn'  = [conn  EXCEPT ![e] = c, ![Other[e]] = d],
         batch' = [batch EXCEPT ![e] = b, ![Other[e]] = g],
         EndInv(e, s, c, b, d, g),
         EndInv(Other[e], t, d, g, c, b)
  PROVE  Ends'
<1>1. /\ sock' \in [Peers -> ProxySocks] /\ conn' \in [Peers -> ProxyConns]
      /\ batch' \in [Peers -> {"none", "event", "error"}]
  BY OtherEnd DEF Ends, EndInv, Typed
<1>2. /\ sock'[e] = s /\ sock'[Other[e]] = t
      /\ conn'[e] = c /\ conn'[Other[e]] = d
      /\ batch'[e] = b /\ batch'[Other[e]] = g
  BY OtherEnd DEF Ends
<1>3. ASSUME NEW q \in Peers
      PROVE  EndInv(q, sock'[q], conn'[q], batch'[q], conn'[Other[q]], batch'[Other[q]])
  <2>1. CASE q = e
    BY <1>2, <2>1
  <2>2. CASE q = Other[e]
    BY <1>2, <2>2, OtherEnd
  <2>3. CASE q # e /\ q # Other[e]
    <3>1. Other[q] # e /\ Other[q] # Other[e] /\ Other[q] \in Peers
      BY <2>3, OtherEnd
    <3>2. /\ sock'[q] = sock[q] /\ conn'[q] = conn[q] /\ batch'[q] = batch[q]
          /\ conn'[Other[q]] = conn[Other[q]] /\ batch'[Other[q]] = batch[Other[q]]
      BY <2>3, <3>1 DEF Ends
    <3> QED BY <3>2 DEF Ends
  <2> QED BY <2>1, <2>2, <2>3
<1> QED BY <1>1, <1>3 DEF Ends

(* A step that changes one end's socket only.                              *)
LEMMA StepOfSocket ==
  ASSUME ProxyInv, NEW e \in Peers, NEW s,
         sock' = [sock EXCEPT ![e] = s],
         UNCHANGED <<conn, batch, pc, fault>>, listener' \in {"quiet", "edge", "batch"},
         EndInv(e, s, conn[e], batch[e], conn[Other[e]], batch[Other[e]])
  PROVE  ProxyInv'
<1>1. /\ sock' = [sock EXCEPT ![e] = s, ![Other[e]] = sock[Other[e]]]
      /\ conn' = [conn EXCEPT ![e] = conn[e], ![Other[e]] = conn[Other[e]]]
      /\ batch' = [batch EXCEPT ![e] = batch[e], ![Other[e]] = batch[Other[e]]]
  BY OtherEnd DEF ProxyInv, Ends
<1>2. EndInv(Other[e], sock[Other[e]], conn[Other[e]], batch[Other[e]], conn[e], batch[e])
  BY OtherEnd DEF ProxyInv, Ends
<1>3. Ends'
  BY <1>1, <1>2, StepOfPair DEF ProxyInv
<1>4. ProxyPhases'
  <2>1. ProxyPhases /\ UNCHANGED <<batch, pc, fault>> /\ listener' \in {"quiet", "edge", "batch"}
    BY DEF ProxyInv
  <2> QED BY ONLY <2>1 DEF ProxyPhases
<1> QED BY <1>3, <1>4 DEF ProxyInv

(* Ends that are freed, one of which may still have an event in the batch. *)
LEMMA FreedInv ==
  ASSUME NEW k, NEW b \in {"none", "event", "error"}, NEW g, b = "none" \/ g = "none"
  PROVE  EndInv(k, NoSock, NoConn, b, NoConn, g)
<1>1. Typed(NoSock, NoConn, b)
  BY SizeAssumption DEF NoSock, NoConn, Typed, ProxySocks, ProxyConns
<1>2. Counted(NoSock, NoConn, NoConn)
  <2>1. Owed(0, 0) = <<>>
    BY DEF Owed
  <2> QED BY <2>1, SizeAssumption DEF NoSock, NoConn, Counted
<1>3. Paired(k, NoSock, NoConn, NoConn)
  BY DEF NoSock, NoConn, Paired
<1>4. Founded(NoSock, NoConn, b, g)
  BY DEF NoSock, NoConn, Founded
<1> QED BY <1>1, <1>2, <1>3, <1>4 DEF EndInv

LEMMA StopPairKeeps ==
  ASSUME Ends, NEW e \in Peers, StopPair(e), batch' = [batch EXCEPT ![e] = "none"]
  PROVE  Ends'
<1>1. batch' = [batch EXCEPT ![e] = "none", ![Other[e]] = batch[Other[e]]]
  BY OtherEnd DEF Ends
<1>2. batch[Other[e]] \in {"none", "event", "error"}
  BY OtherEnd DEF Ends
<1>3. /\ EndInv(e, NoSock, NoConn, "none", NoConn, batch[Other[e]])
      /\ EndInv(Other[e], NoSock, NoConn, batch[Other[e]], NoConn, "none")
  BY <1>2, FreedInv
<1>4. /\ sock' = [sock EXCEPT ![e] = NoSock, ![Other[e]] = NoSock]
      /\ conn' = [conn EXCEPT ![e] = NoConn, ![Other[e]] = NoConn]
  BY DEF StopPair
<1> QED BY <1>1, <1>3, <1>4, StepOfPair

-----------------------------------------------------------------------------
(* A socket on which nothing that was ready ceases to be so.               *)
LEMMA SocketKeeps ==
  ASSUME NEW e, NEW s, NEW c, NEW b, NEW d, NEW g, EndInv(e, s, c, b, d, g),
         NEW t \in ProxySocks, t.state = s.state,
         c.rcvd + t.inq <= MaxBytes, s.rst => t.rst, Ready(s, c) => Ready(t, c)
  PROVE  EndInv(e, t, c, b, d, g)
<1>1. Typed(t, c, b) /\ Counted(t, c, d)
  BY DEF EndInv, Typed, Counted
<1>2. Paired(e, t, c, d)
  BY DEF EndInv, Paired
<1>3. Founded(t, c, b, g)
  BY DEF EndInv, Founded
<1> QED BY <1>1, <1>2, <1>3 DEF EndInv

(* What the two kinds of peers do at any time, in the middle of a batch    *)
(* included.                                                               *)
LEMMA ProxyNetworkKeeps ==
  ASSUME ProxyInv, NEW e \in Peers, ProxyNetwork(e)
  PROVE  ProxyInv'
<1> DEFINE s == sock[e]
           c == conn[e]
           b == batch[e]
           d == conn[Other[e]]
           g == batch[Other[e]]
           t == sock'[e]
<1>0. EndInv(e, s, c, b, d, g) /\ s \in ProxySocks /\ c \in ProxyConns
  BY DEF ProxyInv, Ends
<1>f. /\ s.inq \in 0 .. MaxBytes /\ s.outq \in 0 .. SendRoom /\ c.rcvd \in 0 .. MaxBytes
      /\ s.rst \in BOOLEAN /\ s.fin \in BOOLEAN /\ s.edge \in BOOLEAN
      /\ WantsIn(c) \in BOOLEAN /\ WantsOut(c) \in BOOLEAN
      /\ c.rcvd + s.inq <= MaxBytes
  BY <1>0 DEF ProxySocks, ProxyConns, WantsIn, WantsOut, EndInv, Counted
<1>1. /\ sock' = [sock EXCEPT ![e] = t]
      /\ UNCHANGED <<conn, batch, pc, fault>> /\ listener' \in {"quiet", "edge", "batch"}
  <2>1. UNCHANGED <<conn, batch, pc, fault>> /\ listener' \in {"quiet", "edge", "batch"}
    BY DEF ProxyInv, ProxyPhases, ProxyNetwork, Talks, Call, Established, Refused,
           Connect, Send, Finish, Reset, Take
  <2>2. sock' = [sock EXCEPT ![e] = t]
    BY DEF ProxyInv, Ends, ProxyNetwork, Talks, Call, Established, Refused,
           Connect, Send, Finish, Reset, Take
  <2> QED BY <2>1, <2>2
<1>2. ASSUME EndInv(e, t, c, b, d, g)
      PROVE  ProxyInv'
  BY <1>1, <1>2, StepOfSocket
<1>3. ASSUME t \in ProxySocks, t.state = s.state, c.rcvd + t.inq <= MaxBytes,
             s.rst => t.rst, Ready(s, c) => Ready(t, c)
      PROVE  ProxyInv'
  <2> HIDE DEF s, c, b, d, g, t
  <2> QED BY <1>0, <1>2, <1>3, SocketKeeps
<1>4. CASE Call(e)
  <2>1. /\ t = [s EXCEPT !.state = "backlog"] /\ s.state = "closed"
        /\ e \in Clients /\ b = "none"
    BY <1>4 DEF Call, Connect, ProxyInv, Ends
  <2> HIDE DEF s, c, b, d, g, t
  <2>2. /\ t \in ProxySocks /\ t.state = "backlog" /\ t.inq = s.inq
    BY <1>0, <2>1 DEF ProxySocks
  <2>3. Typed(t, c, b) /\ Counted(t, c, d)
    BY <1>0, <2>2 DEF EndInv, Typed, Counted
  <2>4. Paired(e, t, c, d)
    BY <1>0, <2>1, <2>2 DEF EndInv, Paired
  <2>5. Founded(t, c, b, g)
    BY <1>0, <2>1 DEF Founded
  <2> QED BY <1>2, <2>3, <2>4, <2>5 DEF EndInv
<1>5. CASE Established(e)
  <2>1. t = [s EXCEPT !.state = "open", !.edge = @ \/ WantsOut(c)] /\ s.state = "connecting"
    BY <1>5 DEF Established, ProxyInv, Ends
  <2> HIDE DEF s, c, b, d, g, t
  <2>2. /\ t \in ProxySocks /\ t.state = "open" /\ t.inq = s.inq /\ t.fin = s.fin
        /\ t.rst = s.rst /\ t.outq = s.outq
    BY <1>0, <1>f, <2>1 DEF ProxySocks
  <2>3. Typed(t, c, b) /\ Counted(t, c, d)
    BY <1>0, <2>2 DEF EndInv, Typed, Counted
  <2>4. Paired(e, t, c, d)
    BY <1>0, <2>1, <2>2 DEF EndInv, Paired
  <2>5. Founded(t, c, b, g)
    <3>1. Ready(s, c) => Ready(t, c)
      BY <2>2 DEF Ready
    <3> QED BY <1>0, <2>1, <2>2, <3>1 DEF EndInv, Founded
  <2> QED BY <1>2, <2>3, <2>4, <2>5 DEF EndInv
<1>6. CASE Refused(e)
  <2>1. t = [s EXCEPT !.rst = TRUE, !.edge = TRUE] /\ s.state = "connecting"
    BY <1>6 DEF Refused, ProxyInv, Ends
  <2> HIDE DEF s, c, b, d, g, t
  <2>2. /\ t \in ProxySocks /\ t.state = s.state /\ t.inq = s.inq /\ t.fin = s.fin
        /\ t.rst /\ t.outq = s.outq
    BY <1>0, <2>1 DEF ProxySocks
  <2>3. Ready(s, c) => Ready(t, c)
    BY <2>2 DEF Ready
  <2> QED BY <1>3, <1>f, <2>2, <2>3
<1>7. CASE Send(e)
  <2>1. /\ t = [s EXCEPT !.inq = @ + 1, !.edge = @ \/ WantsIn(c)]
        /\ c.rcvd + s.inq < MaxBytes
    BY <1>7 DEF Send, ProxyInv, Ends
  <2> HIDE DEF s, c, b, d, g, t
  <2>2. s.inq + 1 \in 0 .. MaxBytes /\ c.rcvd + (s.inq + 1) <= MaxBytes
    BY <1>f, <2>1, SizeAssumption
  <2>3. /\ t \in ProxySocks /\ t.state = s.state /\ t.inq = s.inq + 1 /\ t.fin = s.fin
        /\ t.rst = s.rst /\ t.outq = s.outq
    BY <1>0, <1>f, <2>1, <2>2 DEF ProxySocks
  <2>4. Ready(s, c) => Ready(t, c)
    BY <1>f, <2>3 DEF Ready
  <2> QED BY <1>3, <2>2, <2>3, <2>4
<1>8. CASE Finish(e)
  <2> DEFINE armed == c.armed # "none"
  <2>1. t = [s EXCEPT !.fin = TRUE, !.edge = @ \/ armed]
    BY <1>8 DEF Finish, ProxyInv, Ends
  <2>2. armed \in BOOLEAN
    OBVIOUS
  <2> HIDE DEF s, c, b, d, g, t, armed
  <2>3. /\ t \in ProxySocks /\ t.state = s.state /\ t.inq = s.inq /\ t.fin
        /\ t.rst = s.rst /\ t.outq = s.outq
    BY <1>0, <1>f, <2>1, <2>2 DEF ProxySocks
  <2>4. Ready(s, c) => Ready(t, c)
    BY <2>3 DEF Ready
  <2> QED BY <1>3, <1>f, <2>3, <2>4
<1>9. CASE Reset(e)
  <2> DEFINE armed == c.armed # "none"
  <2>1. t = [s EXCEPT !.rst = TRUE, !.inq = 0, !.edge = @ \/ armed]
    BY <1>9 DEF Reset, ProxyInv, Ends
  <2>2. armed \in BOOLEAN /\ 0 \in 0 .. MaxBytes /\ c.rcvd + 0 <= MaxBytes
    BY <1>f, SizeAssumption
  <2> HIDE DEF s, c, b, d, g, t, armed
  <2>3. t \in ProxySocks /\ t.state = s.state /\ t.inq = 0 /\ t.rst
    BY <1>0, <1>f, <2>1, <2>2 DEF ProxySocks
  <2>4. Ready(s, c) => Ready(t, c)
    BY <2>3 DEF Ready, WantsIn, WantsOut
  <2> QED BY <1>3, <2>2, <2>3, <2>4
<1>10. CASE Take(e)
  <2>1. t = [s EXCEPT !.outq = @ - 1, !.edge = @ \/ WantsOut(c)] /\ s.outq > 0
    BY <1>10 DEF Take, ProxyInv, Ends
  <2> HIDE DEF s, c, b, d, g, t
  <2>2. s.outq - 1 \in 0 .. SendRoom
    BY <1>f, <2>1, SizeAssumption
  <2>3. /\ t \in ProxySocks /\ t.state = s.state /\ t.inq = s.inq /\ t.fin = s.fin
        /\ t.rst = s.rst /\ t.outq = s.outq - 1
    BY <1>0, <1>f, <2>1, <2>2 DEF ProxySocks
  <2>4. Ready(s, c) => Ready(t, c)
    BY <1>f, <2>3, SizeAssumption DEF Ready
  <2> QED BY <1>3, <1>f, <2>3, <2>4
<1> QED BY <1>4, <1>5, <1>6, <1>7, <1>8, <1>9, <1>10 DEF ProxyNetwork, Talks

-----------------------------------------------------------------------------
(* The steps of the loop: what Wait reports is ready and not freed.        *)
LEMMA ProxyLoopKeeps ==
  ASSUME ProxyInv, Wait \/ EndBatch \/ EndTimers \/ EndAccept
  PROVE  ProxyInv'
<1>1. CASE EndBatch \/ EndTimers \/ EndAccept
  <2>1. UNCHANGED <<sock, conn, batch, fault>>
    BY <1>1 DEF EndBatch, EndTimers, EndAccept
  <2>2. Ends'
    BY <2>1 DEF ProxyInv, Ends
  <2>3. ProxyPhases'
    BY <1>1, <2>1 DEF ProxyInv, ProxyPhases, EndBatch, EndTimers, EndAccept
  <2> QED BY <2>2, <2>3 DEF ProxyInv
<1>2. CASE Wait
  <2>1. ASSUME NEW e \in Peers
        PROVE  /\ batch'[e] \in {"none", "event", "error"}
               /\ sock'[e] \in ProxySocks /\ conn'[e] = conn[e]
               /\ conn[e].armed = "none" => batch'[e] = "none"
               /\ Counted(sock'[e], conn[e], conn[Other[e]])
               /\ Paired(e, sock'[e], conn[e], conn[Other[e]])
               /\ batch'[e] = "event" => Busy(conn[e]) /\ Ready(sock'[e], conn[e])
               /\ batch'[e] = "error" => sock'[e].rst
               /\ sock'[e].state = "backlog" => conn[e].armed = "none"
    <3> DEFINE s == sock[e]
               c == conn[e]
               d == conn[Other[e]]
               t == sock'[e]
               b == batch'[e]
    <3>1. t = [s EXCEPT !.edge = FALSE] /\ conn'[e] = c /\ b = Report(e)
      BY <1>2 DEF Wait
    <3>2. /\ s \in ProxySocks /\ c \in ProxyConns
          /\ Counted(s, c, d) /\ Paired(e, s, c, d)
      BY DEF ProxyInv, Ends, EndInv
    <3>3. b \in {"none", "event", "error"}
      BY <3>1 DEF Report
    <3>4. b # "none" => Ready(s, c)
      BY <3>1 DEF Report
    <3>5. b = "event" => ~s.rst
      BY <3>1 DEF Report
    <3>6. b = "error" => s.rst
      BY <3>1 DEF Report
    <3> HIDE DEF s, c, d, t, b
    <3>7. /\ t \in ProxySocks /\ t.state = s.state /\ t.inq = s.inq /\ t.outq = s.outq
          /\ t.fin = s.fin /\ t.rst = s.rst
      BY <3>1, <3>2 DEF ProxySocks
    <3>8. Ready(t, c) <=> Ready(s, c)
      BY <3>7 DEF Ready
    <3>9. Counted(t, c, d) /\ Paired(e, t, c, d)
      BY <3>2, <3>7 DEF Counted, Paired
    <3>10. c.armed = "none" => b = "none"
      BY <3>4 DEF Ready, WantsIn, WantsOut
    <3>11. b = "event" => Busy(c) /\ Ready(t, c)
      BY <3>4, <3>5, <3>8 DEF Ready, WantsIn, WantsOut, Busy
    <3>12. t.state = "backlog" => c.armed = "none"
      BY <3>2, <3>7 DEF Paired
    <3>13. b = "error" => t.rst
      BY <3>6, <3>7
    <3> QED BY <3>1, <3>3, <3>7, <3>9, <3>10, <3>11, <3>12, <3>13 DEF s, c, d, t, b
  <2>2. ASSUME NEW e \in Peers
        PROVE  EndInv(e, sock'[e], conn'[e], batch'[e], conn'[Other[e]], batch'[Other[e]])
    <3>1. Other[e] \in Peers /\ conn'[Other[e]] = conn[Other[e]] /\ conn'[e] = conn[e]
      BY <2>1, OtherEnd
    <3>2. Typed(sock'[e], conn'[e], batch'[e])
      BY <2>1 DEF ProxyInv, Ends, Typed
    <3>3. Founded(sock'[e], conn'[e], batch'[e], batch'[Other[e]])
      BY <2>1 DEF Founded
    <3>4. /\ Counted(sock'[e], conn'[e], conn'[Other[e]])
          /\ Paired(e, sock'[e], conn'[e], conn'[Other[e]])
      BY <2>1, <3>1
    <3> QED BY <3>2, <3>3, <3>4 DEF EndInv
  <2>3. Ends'
    <3>1. /\ sock' \in [Peers -> ProxySocks] /\ conn' \in [Peers -> ProxyConns]
          /\ batch' \in [Peers -> {"none", "event", "error"}]
      BY <1>2, <2>1 DEF Wait, ProxyInv, Ends
    <3> QED BY <2>2, <3>1 DEF Ends
  <2>4. ProxyPhases'
    BY <1>2 DEF ProxyInv, ProxyPhases, Wait
  <2> QED BY <2>3, <2>4 DEF ProxyInv
<1> QED BY <1>1, <1>2

(* What an end must know of the other is not touched.                      *)
LEMMA OtherKeeps ==
  ASSUME NEW e, NEW s, NEW c, NEW b, NEW d, NEW g, EndInv(e, s, c, b, d, g),
         NEW h, NEW i, h.rcvd = d.rcvd, d.context => h.context,
         d.context => (h.armed = "idle" <=> d.armed = "idle"),
         c.armed = "none" /\ b # "none" => i = "none"
  PROVE  EndInv(e, s, c, b, h, i)
<1>1. Counted(s, c, h) /\ Paired(e, s, c, h)
  BY DEF EndInv, Counted, Paired
<1>2. Founded(s, c, b, i)
  BY DEF EndInv, Founded
<1> QED BY <1>1, <1>2 DEF EndInv

(* A step that changes one end, and nothing the other knows of it.         *)
LEMMA StepOfEnd ==
  ASSUME ProxyInv, NEW e \in Peers, NEW s, NEW c, NEW b,
         sock' = [sock EXCEPT ![e] = s], conn' = [conn EXCEPT ![e] = c],
         batch' = [batch EXCEPT ![e] = b], b \in {batch[e], "none"},
         UNCHANGED <<listener, pc>>, fault' \in {"none", "context", "stale", "exit"},
         EndInv(e, s, c, b, conn[Other[e]], batch[Other[e]]),
         c.rcvd = conn[e].rcvd, c.context = conn[e].context,
         c.context => (c.armed = "idle" <=> conn[e].armed = "idle")
  PROVE  ProxyInv'
<1> DEFINE o == Other[e]
<1>1. o \in Peers /\ Other[o] = e /\ o # e
  BY OtherEnd
<1>2. EndInv(o, sock[o], conn[o], batch[o], conn[e], batch[e])
  BY <1>1 DEF ProxyInv, Ends
<1>3. conn[o].armed = "none" /\ batch[o] # "none" => b = "none"
  <2>1. conn[o].armed = "none" /\ batch[o] # "none" => batch[e] = "none"
    BY <1>2 DEF EndInv, Founded
  <2> QED BY <2>1
<1>4. EndInv(o, sock[o], conn[o], batch[o], c, b)
  BY <1>2, <1>3, OtherKeeps
<1>5. /\ sock' = [sock EXCEPT ![e] = s, ![o] = sock[o]]
      /\ conn' = [conn EXCEPT ![e] = c, ![o] = conn[o]]
      /\ batch' = [batch EXCEPT ![e] = b, ![o] = batch[o]]
  BY <1>1 DEF ProxyInv, Ends
<1>6. Ends'
  BY <1>4, <1>5, StepOfPair DEF ProxyInv
<1>7. ProxyPhases'
  <2>1. batch \in [Peers -> {"none", "event", "error"}] /\ ProxyPhases
    BY DEF ProxyInv, Ends
  <2> QED BY <2>1 DEF ProxyPhases
<1> QED BY <1>6, <1>7 DEF ProxyInv

(* A new connection of a client.                                           *)
LEMMA ProxyAcceptKeeps ==
  ASSUME ProxyInv, NEW e \in Peers, Accept(e)
  PROVE  ProxyInv'
<1> DEFINE s == sock[e]
           c == conn[e]
           b == batch[e]
           h == conn[Other[e]]
           g == batch[Other[e]]
           o == [s EXCEPT !.state = "open"]
           d == [c EXCEPT !.armed = "read"]
           t == Polled(o, d)
<1>1. EndInv(e, s, c, b, h, g) /\ s \in ProxySocks /\ c \in ProxyConns /\ s.state = "backlog"
  BY DEF ProxyInv, Ends, Accept, Accepting, Backlog
<1>2. /\ conn' = [conn EXCEPT ![e] = d] /\ sock' = [sock EXCEPT ![e] = t]
      /\ batch' = [batch EXCEPT ![e] = b] /\ UNCHANGED <<listener, pc, fault>>
  BY DEF ProxyInv, Ends, Accept, Accepting
<1> HIDE DEF s, c, b, h, g
<1>3. b = "none" /\ c.armed = "none" /\ ~c.context /\ e \in Clients
  BY <1>1 DEF EndInv, Paired, Founded
<1>4. /\ d \in ProxyConns /\ d.armed = "read" /\ d.rcvd = c.rcvd /\ d.echoed = c.echoed
      /\ d.buf = c.buf /\ d.context = c.context
  BY <1>1 DEF ProxyConns
<1>5. o \in ProxySocks /\ o.state = "open" /\ o.inq = s.inq
  BY <1>1 DEF ProxySocks
<1> HIDE DEF o, d
<1>6. t \in ProxySocks /\ t.state = "open" /\ t.inq = s.inq
  <2>1. Ready(o, d) \in BOOLEAN
    BY DEF Ready
  <2> QED BY <1>5, <2>1 DEF Polled, ProxySocks
<1> HIDE DEF t
<1>7. Typed(t, d, b) /\ Counted(t, d, h)
  BY <1>1, <1>3, <1>4, <1>6 DEF EndInv, Typed, Counted
<1>8. Paired(e, t, d, h)
  BY <1>1, <1>3, <1>4, <1>6 DEF EndInv, Paired
<1>9. Founded(t, d, b, g)
  BY <1>3 DEF Founded
<1>10. EndInv(e, t, d, b, h, g)
  BY <1>7, <1>8, <1>9 DEF EndInv
<1>11. fault' \in {"none", "context", "stale", "exit"}
  BY <1>2 DEF ProxyInv, ProxyPhases
<1> QED BY <1>2, <1>3, <1>4, <1>10, <1>11, StepOfEnd DEF b, c, h, g

-----------------------------------------------------------------------------
(* The event of an end is over.                                            *)
LEMMA HandledInv ==
  ASSUME NEW e, NEW s, NEW c, NEW b, NEW d, NEW g, EndInv(e, s, c, b, d, g)
  PROVE  EndInv(e, s, c, "none", d, g)
BY DEF EndInv, Typed, Founded

(* An event of the batch whose handler ends with a failed assertion.       *)
LEMMA FaultKeeps ==
  ASSUME ProxyInv, NEW e \in Peers, NEW event, Handles(e, event), UNCHANGED <<sock, conn>>,
         fault' \in {"context", "stale", "exit"}
  PROVE  ProxyInv'
<1>1. EndInv(e, sock[e], conn[e], "none", conn[Other[e]], batch[Other[e]])
  <2>1. EndInv(e, sock[e], conn[e], batch[e], conn[Other[e]], batch[Other[e]])
    BY DEF ProxyInv, Ends
  <2> QED BY <2>1, HandledInv
<1>2. /\ sock' = [sock EXCEPT ![e] = sock[e]] /\ conn' = [conn EXCEPT ![e] = conn[e]]
      /\ batch' = [batch EXCEPT ![e] = "none"] /\ UNCHANGED <<listener, pc>>
  BY DEF ProxyInv, Ends, Handles
<1> QED BY <1>1, <1>2, StepOfEnd

(* The ways a context ends, or the program.                                *)
LEMMA ProxyStopsKeep ==
  ASSUME ProxyInv, NEW e \in Peers,
         ConnectFails(e) \/ ProxyError(e) \/ StaleEvent(e)
           \/ ProxyReadStops(e) \/ ProxyWriteStops(e) \/ ProxyTimeout(e)
  PROVE  ProxyInv'
<1>1. ASSUME StopPair(e), batch' = [batch EXCEPT ![e] = "none"],
             UNCHANGED <<listener, pc, fault>>, pc = "batch" \/ batch' = batch
      PROVE  ProxyInv'
  <2>1. Ends'
    BY <1>1, StopPairKeeps DEF ProxyInv
  <2>2. ProxyPhases'
    <3>1. batch \in [Peers -> {"none", "event", "error"}] /\ ProxyPhases
      BY DEF ProxyInv, Ends
    <3> QED BY <1>1, <3>1 DEF ProxyPhases
  <2> QED BY <2>1, <2>2 DEF ProxyInv
<1>2. CASE ConnectFails(e) \/ StaleEvent(e)
  BY <1>2, FaultKeeps DEF ConnectFails, StaleEvent
<1>3. CASE ProxyError(e) /\ ~conn[e].context
  BY <1>3, FaultKeeps DEF ProxyError
<1>4. CASE ProxyError(e) /\ conn[e].context
  BY <1>1, <1>4 DEF ProxyError, Handles
<1>5. CASE ProxyReadStops(e) \/ ProxyWriteStops(e)
  BY <1>1, <1>5 DEF ProxyReadStops, ProxyWriteStops, Handles
<1>6. CASE ProxyTimeout(e)
  <2>1. batch[e] = "none"
    BY <1>6 DEF ProxyInv, ProxyPhases, ProxyTimeout
  <2>2. batch' = [batch EXCEPT ![e] = "none"] /\ batch' = batch
    BY <1>6, <2>1 DEF ProxyInv, Ends, ProxyTimeout
  <2> QED BY <1>1, <1>6, <2>2 DEF ProxyTimeout
<1> QED BY <1>2, <1>3, <1>4, <1>5, <1>6

(* do_echo_write: the other end goes on waiting for its turn.              *)
LEMMA ProxyWriteKeeps ==
  ASSUME ProxyInv, NEW e \in Peers, ProxyWrite(e)
  PROVE  ProxyInv'
<1> DEFINE s == sock[e]
           c == conn[e]
           h == conn[Other[e]]
           g == batch[Other[e]]
           r == h.rcvd
           w == c.echoed
           k == Sendable(e)
           u == Unsent(e)
           a == NextArmed(e)
           o == [s EXCEPT !.outq = @ + k]
           d == [c EXCEPT !.armed = a, !.buf = u, !.echoed = @ + k]
           t == sock'[e]
<1>1. EndInv(e, s, c, batch[e], h, g) /\ s \in ProxySocks /\ c \in ProxyConns /\ h \in ProxyConns
  BY OtherEnd DEF ProxyInv, Ends
<1>2. /\ r \in 0 .. MaxBytes /\ w \in 0 .. MaxBytes /\ w <= r
      /\ c.buf = Owed(r, w) /\ s.outq \in 0 .. SendRoom
      /\ Len(c.buf) < BufSize /\ c.armed = "write"
  BY <1>1 DEF EndInv, Counted, ProxySocks, ProxyConns, ProxyWrite, Write
<1>3. Len(c.buf) = r - w
  BY <1>2, OwedType
<1>4. k \in 1 .. r - w /\ s.outq + k \in 0 .. SendRoom
  <2>1. /\ k = IF Len(c.buf) <= SendRoom - s.outq THEN Len(c.buf) ELSE SendRoom - s.outq
        /\ k # 0
    BY DEF Sendable, ProxyWrite, Write
  <2> HIDE DEF k, s, c, r, w
  <2> QED BY <1>2, <1>3, <2>1, SizeAssumption
<1>5. w + k \in 0 .. MaxBytes /\ w + k <= r
  <2> HIDE DEF k, s, c, r, w
  <2> QED BY <1>2, <1>4, SizeAssumption
<1>6. u = Owed(r, w + k) /\ u \in Seq(Bytes) /\ Len(u) = r - (w + k)
  <2>1. u = Owed(r, w + k)
    <3>1. u = SubSeq(Owed(r, w), k + 1, r - w)
      BY <1>2, <1>3 DEF Unsent
    <3>2. r \in Nat /\ w \in Nat /\ k \in 0 .. r - w
      BY <1>2, <1>4, SizeAssumption
    <3> HIDE DEF k, r, w, u
    <3> QED BY <1>2, <3>1, <3>2, OwedSend
  <2> HIDE DEF k, r, w, u
  <2> QED BY <1>2, <1>5, <2>1, OwedType
<1>7. a \in {"read", "write"} /\ (a = "write" <=> w + k < r)
  BY <1>2, <1>5, <1>6 DEF NextArmed
<1>8. /\ conn' = [conn EXCEPT ![e] = d]
      /\ sock' = [sock EXCEPT ![e] = t]
      /\ t = IF d.armed = "write" THEN o ELSE Polled(o, d)
      /\ batch' = [batch EXCEPT ![e] = "none"] /\ UNCHANGED <<listener, pc>> /\ fault' = fault
  <2>1. conn' = [conn EXCEPT ![e] = d] /\ conn'[e] = d
    BY DEF ProxyInv, Ends, ProxyWrite, Write
  <2>2. sock' = [sock EXCEPT ![e] = IF d.armed = "write" THEN o ELSE Polled(o, d)]
    BY <2>1 DEF ProxyWrite, Write
  <2>3. t = (IF d.armed = "write" THEN o ELSE Polled(o, d)) /\ sock' = [sock EXCEPT ![e] = t]
    BY <2>2 DEF ProxyInv, Ends
  <2> QED BY <2>1, <2>3 DEF ProxyWrite, Write, Handles
<1> HIDE DEF s, c, h, g, r, w, k, u, a
<1>9. /\ d \in ProxyConns /\ d.armed = a /\ d.rcvd = c.rcvd /\ d.echoed = w + k
      /\ d.buf = u /\ d.context = c.context
  BY <1>1, <1>5, <1>6, <1>7 DEF ProxyConns, w
<1>10. o \in ProxySocks /\ o.state = s.state /\ o.inq = s.inq
  BY <1>1, <1>4 DEF ProxySocks
<1> HIDE DEF o, d
<1>11. t \in ProxySocks /\ t.state = s.state /\ t.inq = s.inq
  <2>1. Ready(o, d) \in BOOLEAN
    BY DEF Ready
  <2> QED BY <1>8, <1>10, <2>1 DEF Polled, ProxySocks
<1> HIDE DEF t
<1>12. Typed(t, d, "none")
  BY <1>9, <1>11 DEF Typed
<1>13. Counted(t, d, h)
  <2>1. Len(d.buf) < BufSize
    BY <1>2, <1>3, <1>4, <1>6, <1>9, SizeAssumption
  <2>2. d.echoed <= h.rcvd /\ (d.armed = "write" <=> d.echoed < h.rcvd)
    BY <1>5, <1>7, <1>9 DEF r
  <2>3. d.rcvd + t.inq <= MaxBytes
    BY <1>1, <1>9, <1>11 DEF EndInv, Counted
  <2>4. d.buf = Owed(h.rcvd, d.echoed)
    BY <1>6, <1>9 DEF r
  <2> QED BY <2>1, <2>2, <2>3, <2>4 DEF Counted
<1>14. c.context
  BY <1>1, <1>2 DEF EndInv, Paired
<1>15. Paired(e, t, d, h)
  BY <1>1, <1>2, <1>7, <1>9, <1>11, <1>14 DEF EndInv, Paired, Busy
<1>16. Founded(t, d, "none", g)
  BY <1>1, <1>11 DEF EndInv, Founded
<1>17. EndInv(e, t, d, "none", h, g)
  BY <1>12, <1>13, <1>15, <1>16 DEF EndInv
<1>18. fault' \in {"none", "context", "stale", "exit"}
  BY <1>8 DEF ProxyInv, ProxyPhases
<1>19. d.armed # "idle" /\ c.armed # "idle"
  BY <1>2, <1>7, <1>9
<1> QED BY <1>8, <1>9, <1>17, <1>18, <1>19, StepOfEnd DEF c, h, g

(* What holds when an end's read event is handled: the other end waits, or *)
(* is made now.                                                            *)
LEMMA ReadKnows ==
  ASSUME ProxyInv, NEW e \in Peers, conn[e].armed = "read", batch[e] = "event"
  PROVE  /\ Ready(sock[e], conn[e])
         /\ conn[Other[e]].buf = <<>> /\ conn[Other[e]].armed # "write"
         /\ conn[Other[e]].echoed = conn[e].rcvd
         /\ conn[e].context = conn[Other[e]].context
         /\ conn[e].context => conn[Other[e]].armed = "idle"
         /\ ~conn[e].context =>
              /\ e \in Clients /\ conn[Other[e]].armed = "none"
              /\ conn[Other[e]].rcvd = 0 /\ batch[Other[e]] = "none"
<1> DEFINE s == sock[e]
           c == conn[e]
           b == batch[e]
           o == Other[e]
           t == sock[o]
           d == conn[o]
           g == batch[o]
<1>1. EndInv(e, s, c, b, d, g) /\ EndInv(o, t, d, g, c, b)
  BY OtherEnd DEF ProxyInv, Ends
<1>2. c \in ProxyConns /\ d \in ProxyConns /\ o \in Peers /\ (o \in Clients <=> e \notin Clients)
  BY OtherEnd DEF ProxyInv, Ends
<1>3. c.armed = "read" /\ b = "event"
  OBVIOUS
<1> HIDE DEF s, c, b, o, t, d, g
<1>4. Ready(s, c)
  BY <1>1, <1>3 DEF EndInv, Founded
<1>5. c.context = d.context
  BY <1>1, <1>2 DEF EndInv, Paired, ProxyConns
<1>6. c.context => d.armed = "idle"
  BY <1>1, <1>3 DEF EndInv, Paired, Busy
<1>7. ~c.context => e \in Clients /\ d.armed = "none" /\ d.rcvd = 0 /\ g = "none"
  <2> SUFFICES ASSUME ~c.context PROVE e \in Clients /\ d.armed = "none" /\ d.rcvd = 0 /\ g = "none"
    OBVIOUS
  <2>1. e \in Clients
    BY <1>1, <1>3 DEF EndInv, Paired
  <2>2. d.armed = "none" /\ d.rcvd = 0
    BY <1>1, <1>2, <1>5, <2>1 DEF EndInv, Paired
  <2>3. g = "none"
    BY <1>1, <1>3, <2>2 DEF EndInv, Founded
  <2> QED BY <2>1, <2>2, <2>3
<1>8. d.armed # "write"
  BY <1>6, <1>7
<1>9. d.echoed = c.rcvd /\ d.buf = <<>>
  <2>1. d.echoed \in 0 .. MaxBytes /\ c.rcvd \in 0 .. MaxBytes
    BY <1>2 DEF ProxyConns
  <2>2. d.echoed <= c.rcvd /\ ~(d.echoed < c.rcvd) /\ d.buf = Owed(c.rcvd, d.echoed)
    BY <1>1, <1>8 DEF EndInv, Counted
  <2>3. d.echoed = c.rcvd
    BY <2>1, <2>2, SizeAssumption
  <2>4. Owed(c.rcvd, c.rcvd) = <<>>
    BY <2>1, SizeAssumption DEF Owed
  <2> QED BY <2>2, <2>3, <2>4
<1> QED BY <1>4, <1>5, <1>6, <1>7, <1>8, <1>9 DEF s, c, o, d, g

(* An end that is made now.                                                *)
LEMMA ConnectingInv ==
  Connecting \in ProxySocks /\ Connecting.state = "connecting" /\ Connecting.inq = 0
<1>1. NoSock \in ProxySocks /\ NoSock.inq = 0
  BY SizeAssumption DEF NoSock, ProxySocks
<1> QED BY <1>1 DEF Connecting, ProxySocks

(* do_echo_read: the turn passes to the other end.                         *)
LEMMA ProxyReadKeeps ==
  ASSUME ProxyInv, NEW e \in Peers, ProxyRead(e)
  PROVE  ProxyInv'
<1> DEFINE o == Other[e]
           s == sock[e]
           c == conn[e]
           b == batch[e]
           t == OtherSock(e)
           d == conn[o]
           g == batch[o]
           n == s.inq
           r == c.rcvd
           w == d.echoed
           new == [i \in 1 .. n |-> r + i]
           s1 == [s EXCEPT !.inq = 0]
           c1 == [c EXCEPT !.armed = "idle", !.context = TRUE, !.rcvd = @ + n]
           d1 == [d EXCEPT !.armed = "write", !.context = TRUE, !.buf = @ \o new]
           s2 == Polled(s1, c1)
           t2 == Polled(t, d1)
<1>1. /\ EndInv(e, s, c, b, d, g) /\ EndInv(o, sock[o], d, g, c, b)
      /\ s \in ProxySocks /\ c \in ProxyConns /\ d \in ProxyConns /\ sock[o] \in ProxySocks
      /\ g \in {"none", "event", "error"} /\ o \in Peers /\ o # e
      /\ o \in Clients <=> e \notin Clients
  BY OtherEnd DEF ProxyInv, Ends
<1>2. c.armed = "read" /\ b = "event"
  BY DEF ProxyRead, Handles
<1>3. /\ d.buf = <<>> /\ d.armed # "write" /\ w = r /\ c.context = d.context
      /\ c.context => d.armed = "idle"
      /\ ~c.context => e \in Clients /\ d.armed = "none" /\ d.rcvd = 0 /\ g = "none"
  BY <1>2, ReadKnows
<1>4. n \in 1 .. MaxBytes /\ n < BufSize /\ r \in 0 .. MaxBytes /\ r + n \in 0 .. MaxBytes
  <2>1. n \in 0 .. MaxBytes /\ r \in 0 .. MaxBytes /\ r + n <= MaxBytes
    BY <1>1 DEF EndInv, Counted, ProxySocks, ProxyConns
  <2>2. n # 0 /\ ~(n >= BufSize - Len(d.buf))
    BY DEF ProxyRead, HearingEnds
  <2>3. Len(d.buf) = 0
    BY <1>3
  <2> QED BY <2>1, <2>2, <2>3, SizeAssumption
<1>5. /\ conn' = [conn EXCEPT ![e] = c1, ![o] = d1]
      /\ sock' = [sock EXCEPT ![e] = s2, ![o] = t2]
      /\ batch' = [batch EXCEPT ![e] = "none", ![o] = g]
      /\ UNCHANGED <<listener, pc>> /\ fault' = fault /\ pc = "batch"
  <2>1. conn' = [conn EXCEPT ![e] = c1, ![o] = d1]
    BY <1>1 DEF ProxyInv, Ends, ProxyRead, Heard
  <2>2. conn'[e] = c1 /\ conn'[o] = d1
    BY <1>1, <2>1 DEF ProxyInv, Ends
  <2>3. batch' = [batch EXCEPT ![e] = "none", ![o] = g]
    BY <1>1 DEF ProxyInv, Ends, ProxyRead, Handles
  <2>4. sock' = [sock EXCEPT ![e] = s2, ![o] = t2]
    BY <2>2 DEF ProxyInv, Ends, ProxyRead
  <2> QED BY <2>1, <2>3, <2>4 DEF ProxyRead, Handles
<1>6. /\ t \in ProxySocks /\ t.state \in {"open", "connecting"}
      /\ d.rcvd + t.inq <= MaxBytes
      /\ o \in Clients => t.state # "connecting"
      /\ g = "error" => t.rst
  <2>1. CASE c.context
    <3>1. t = sock[o]
      BY <2>1 DEF OtherSock
    <3> HIDE DEF o, s, c, b, t, d, g, n, r, w
    <3>2. d.armed = "idle"
      BY <1>3, <2>1
    <3>3. EndInv(o, t, d, g, c, b) /\ t \in ProxySocks
      BY <1>1, <3>1
    <3>4. t.state \in {"open", "connecting"} /\ (o \in Clients => t.state # "connecting")
      BY <3>2, <3>3 DEF EndInv, Paired
    <3>5. d.rcvd + t.inq <= MaxBytes
      BY <3>3 DEF EndInv, Counted
    <3>6. g = "error" => t.rst
      BY <3>2, <3>3 DEF EndInv, Founded
    <3> QED BY <3>3, <3>4, <3>5, <3>6
  <2>2. CASE ~c.context
    <3>1. t = Connecting
      BY <2>2 DEF OtherSock
    <3>2. o \notin Clients /\ g = "none" /\ d.rcvd = 0
      BY <1>1, <1>3, <2>2
    <3>3. Connecting \in ProxySocks /\ Connecting.state = "connecting" /\ Connecting.inq = 0
      BY ConnectingInv
    <3> HIDE DEF o, s, c, b, t, d, g, n, r, w
    <3>4. d.rcvd + t.inq <= MaxBytes
      BY <3>1, <3>2, <3>3, SizeAssumption
    <3> QED BY <3>1, <3>2, <3>3, <3>4
  <2> QED BY <2>1, <2>2
<1>7. d.buf \o new = Owed(r + n, w) /\ d.buf \o new \in Seq(Bytes) /\ Len(d.buf \o new) = n
  <2>1. d.buf = Owed(r, w)
    BY <1>1 DEF EndInv, Counted
  <2>2. Owed(r, r) \o new = Owed(r + n, r)
    <3> HIDE DEF r, n
    <3>1. r \in Nat /\ n \in Nat /\ r <= r
      BY <1>4, SizeAssumption
    <3> QED BY <3>1, OwedReceive DEF new
  <2>3. Owed(r + n, r) \in Seq(Bytes) /\ Len(Owed(r + n, r)) = n
    <3> DEFINE m == r + n
    <3> HIDE DEF r, n
    <3>1. m \in 0 .. MaxBytes /\ r <= m /\ m - r = n
      BY <1>4, SizeAssumption
    <3> HIDE DEF m
    <3>2. Owed(m, r) \in Seq(Bytes) /\ Len(Owed(m, r)) = n
      BY <1>4, <3>1, OwedType
    <3> QED BY <3>2, Zenon DEF m
  <2> HIDE DEF r, n, w, new, d
  <2> QED BY <1>3, <2>1, <2>2, <2>3
<1> HIDE DEF o, s, c, b, t, d, g, n, r, w, new
<1>8. /\ c1 \in ProxyConns /\ c1.armed = "idle" /\ c1.context /\ c1.rcvd = r + n
      /\ c1.buf = c.buf /\ c1.echoed = c.echoed
  BY <1>1, <1>4 DEF ProxyConns, r
<1>9. /\ d1 \in ProxyConns /\ d1.armed = "write" /\ d1.context /\ d1.rcvd = d.rcvd
      /\ d1.buf = d.buf \o new /\ d1.echoed = w
  BY <1>1, <1>7 DEF ProxyConns, w
<1>10. s1 \in ProxySocks /\ s1.state = s.state /\ s1.inq = 0
  BY <1>1, SizeAssumption DEF ProxySocks
<1> HIDE DEF s1, c1, d1
<1>11. s2 \in ProxySocks /\ s2.state = s.state /\ s2.inq = 0
  <2>1. Ready(s1, c1) \in BOOLEAN
    BY DEF Ready
  <2> QED BY <1>10, <2>1 DEF Polled, ProxySocks
<1>12. t2 \in ProxySocks /\ t2.state = t.state /\ t2.inq = t.inq /\ t2.rst = t.rst
  <2>1. Ready(t, d1) \in BOOLEAN
    BY DEF Ready
  <2> QED BY <1>6, <2>1 DEF Polled, ProxySocks
<1> HIDE DEF s2, t2
<1>13. EndInv(e, s2, c1, "none", d1, g)
  <2>1. Typed(s2, c1, "none") /\ Founded(s2, c1, "none", g)
    BY <1>8, <1>11 DEF Typed, Founded
  <2>2. Counted(s2, c1, d1)
    BY <1>1, <1>2, <1>4, <1>8, <1>9, <1>11 DEF EndInv, Counted
  <2>3. Paired(e, s2, c1, d1)
    BY <1>1, <1>2, <1>8, <1>9, <1>11 DEF EndInv, Paired, Busy
  <2> QED BY <2>1, <2>2, <2>3 DEF EndInv
<1>14. EndInv(o, t2, d1, g, c1, "none")
  <2>1. Typed(t2, d1, g)
    BY <1>1, <1>9, <1>12 DEF Typed
  <2>2. Counted(t2, d1, c1)
    <3>1. d1.echoed < c1.rcvd
      BY <1>3, <1>4, <1>8, <1>9
    <3>2. d1.echoed <= c1.rcvd
      BY <1>3, <1>4, <1>8, <1>9
    <3> QED BY <1>4, <1>6, <1>7, <1>8, <1>9, <1>12, <3>1, <3>2 DEF Counted
  <2>3. Paired(o, t2, d1, c1)
    BY <1>6, <1>8, <1>9, <1>12 DEF Paired, Busy
  <2>4. Founded(t2, d1, g, "none")
    <3>1. g # "event"
      <4>1. g = "event" => d.armed = "none" \/ Busy(d)
        BY <1>1 DEF EndInv, Founded
      <4> QED BY <1>3, <4>1 DEF Busy
    <3> QED BY <1>6, <1>9, <1>12, <3>1 DEF Founded
  <2> QED BY <2>1, <2>2, <2>3, <2>4 DEF EndInv
<1>15. Ends'
  BY <1>5, <1>13, <1>14, StepOfPair DEF ProxyInv, o
<1>16. ProxyPhases'
  <2>1. batch \in [Peers -> {"none", "event", "error"}] /\ ProxyPhases
    BY DEF ProxyInv, Ends
  <2>2. \A q \in Peers : pc' = "batch"
    BY <1>5
  <2> QED BY <1>5, <2>1, <2>2 DEF ProxyPhases
<1> QED BY <1>15, <1>16 DEF ProxyInv

-----------------------------------------------------------------------------
(* Every step keeps the invariant.                                         *)
LEMMA ProxyInvStep == ProxyInv /\ [ProxyNext]_vars => ProxyInv'
<1> SUFFICES ASSUME ProxyInv, [ProxyNext]_vars PROVE ProxyInv'
  OBVIOUS
<1>1. CASE UNCHANGED vars
  BY <1>1 DEF vars, ProxyInv, Ends, ProxyPhases
<1>2. CASE Wait \/ EndBatch \/ EndTimers \/ EndAccept
  BY <1>2, ProxyLoopKeeps
<1>3. ASSUME NEW e \in Peers, ProxyHandler(e)
      PROVE  ProxyInv'
  BY <1>3, ProxyAcceptKeeps, ProxyReadKeeps, ProxyWriteKeeps, ProxyStopsKeep DEF ProxyHandler
<1>4. ASSUME NEW e \in Peers, ProxyNetwork(e) \/ ProxyTimeout(e)
      PROVE  ProxyInv'
  BY <1>4, ProxyNetworkKeeps, ProxyStopsKeep
<1> QED BY <1>1, <1>2, <1>3, <1>4 DEF ProxyNext, ProxyThread

(* The invariant holds of every behaviour.                                 *)
LEMMA ProxyInvariance == ProxySpec => []ProxyInv
<1>1. Init => ProxyInv
  <2> SUFFICES ASSUME Init PROVE ProxyInv
    OBVIOUS
  <2>1. ASSUME NEW e \in Peers
        PROVE  /\ Other[e] \in Peers
               /\ EndInv(e, NoSock, NoConn, "none", NoConn, "none")
    BY OtherEnd, FreedInv
  <2>2. sock = [e \in Peers |-> NoSock] /\ conn = [e \in Peers |-> NoConn]
        /\ batch = [e \in Peers |-> "none"]
    BY DEF Init
  <2>3. NoSock \in ProxySocks /\ NoConn \in ProxyConns
    <3>1. EndInv(0, NoSock, NoConn, "none", NoConn, "none")
      BY FreedInv
    <3> QED BY <3>1 DEF EndInv, Typed
  <2>4. Ends
    BY <2>1, <2>2, <2>3 DEF Ends
  <2>5. ProxyPhases
    BY DEF Init, ProxyPhases
  <2> QED BY <2>4, <2>5 DEF ProxyInv
<1> QED BY <1>1, ProxyInvStep, PTL DEF ProxySpec

(* An end owes bytes exactly while it has some in its buffer.              *)
LEMMA DebtOfEnd ==
  ASSUME ProxyInv, NEW e \in Peers
  PROVE  /\ conn[e].armed = "write" <=> conn[e].buf # <<>>
         /\ Len(conn[e].buf) = conn[Other[e]].rcvd - conn[e].echoed
         /\ conn[e].buf \in Seq(Bytes) /\ Len(conn[e].buf) < BufSize
<1> DEFINE c == conn[e]
           r == conn[Other[e]].rcvd
<1>1. /\ c.echoed \in 0 .. MaxBytes /\ r \in 0 .. MaxBytes /\ c.echoed <= r
      /\ c.buf = Owed(r, c.echoed) /\ (c.armed = "write" <=> c.echoed < r)
      /\ c.buf \in Seq(Bytes) /\ Len(c.buf) < BufSize
  BY OtherEnd DEF ProxyInv, Ends, EndInv, Counted, ProxyConns
<1>2. Len(c.buf) = r - c.echoed
  BY <1>1, OwedType
<1>3. c.buf # <<>> <=> Len(c.buf) # 0
  BY <1>1
<1> HIDE DEF c, r
<1>4. c.echoed < r <=> Len(c.buf) # 0
  BY <1>1, <1>2, SizeAssumption
<1> QED BY <1>1, <1>2, <1>3, <1>4 DEF c, r

-----------------------------------------------------------------------------
(* Type correctness; the NUL written behind the bytes of a buffer stays    *)
(* inside it.                                                              *)
THEOREM ProxyTypeCorrect == ProxySpec => []ProxyTypeOK
<1>1. ProxyInv => ProxyTypeOK
  <2> SUFFICES ASSUME ProxyInv PROVE ProxyTypeOK
    OBVIOUS
  <2>1. ASSUME NEW e \in Peers
        PROVE  /\ Len(conn[e].buf) < BufSize
               /\ e \in Clients => sock[e].state # "connecting"
               /\ e \notin Clients => sock[e].state # "backlog"
    BY DEF ProxyInv, Ends, EndInv, Counted, Paired
  <2>2. Clients \subseteq Peers /\ Remotes = {e \in Peers : e \notin Clients}
    BY PairAssumption DEF Remotes
  <2>3. ProxyPhases /\ sock \in [Peers -> ProxySocks] /\ conn \in [Peers -> ProxyConns]
        /\ batch \in [Peers -> {"none", "event", "error"}]
    BY DEF ProxyInv, Ends
  <2> QED BY <2>1, <2>2, <2>3 DEF ProxyTypeOK, ProxyPhases
<1> QED BY <1>1, ProxyInvariance, PTL

(* One event of a context is armed, and both its ends live.                *)
THEOREM ProxyOneArmed == ProxySpec => []OneArmed
<1>1. ProxyInv => OneArmed
  <2> SUFFICES ASSUME ProxyInv, NEW e \in Peers
               PROVE  /\ conn[e].context =>
                           /\ conn[Other[e]].context
                           /\ Works(e) <=> conn[Other[e]].armed = "idle"
                      /\ conn[e].armed # "none" <=> sock[e].state \in {"open", "connecting"}
                      /\ conn[e].armed = "write" <=> conn[e].buf # <<>>
    BY DEF OneArmed
  <2>1. Paired(e, sock[e], conn[e], conn[Other[e]])
    BY DEF ProxyInv, Ends, EndInv
  <2>2. conn[e].armed = "write" <=> conn[e].buf # <<>>
    BY DebtOfEnd
  <2> QED BY <2>1, <2>2 DEF Paired, Busy, Works
<1> QED BY <1>1, ProxyInvariance, PTL

(* What waits for an end is what the other end said and it was not told.   *)
THEOREM ProxyRelayInOrder == ProxySpec => []RelayInOrder
<1>1. ProxyInv => RelayInOrder
  BY DEF ProxyInv, Ends, EndInv, Counted, Owed, RelayInOrder
<1> QED BY <1>1, ProxyInvariance, PTL

(* Two healthy ends of a context are never in one batch.  With one that    *)
(* has failed they can be, and the event of the other goes stale.          *)
THEOREM ProxyOneTurnPerBatch == ProxySpec => []OneTurnPerBatch
<1>1. ProxyInv => OneTurnPerBatch
  <2> SUFFICES ASSUME ProxyInv, NEW e \in Peers, batch[e] = "event", batch[Other[e]] = "event"
               PROVE  FALSE
    BY DEF OneTurnPerBatch
  <2> DEFINE o == Other[e]
  <2>1. /\ Founded(sock[e], conn[e], "event", "event") /\ Founded(sock[o], conn[o], "event", "event")
        /\ Paired(e, sock[e], conn[e], conn[o]) /\ Paired(o, sock[o], conn[o], conn[e])
        /\ (o \in Clients <=> e \notin Clients)
    BY OtherEnd DEF ProxyInv, Ends, EndInv
  <2>2. Busy(conn[e]) /\ Busy(conn[o])
    BY <2>1 DEF Founded
  <2>3. conn[e].context = FALSE /\ conn[o].context = FALSE
    <3>1. conn[e].context \in BOOLEAN /\ conn[o].context \in BOOLEAN
      BY OtherEnd DEF ProxyInv, Ends, ProxyConns
    <3> QED BY <2>1, <2>2, <3>1 DEF Paired, Busy
  <2> QED BY <2>1, <2>2, <2>3 DEF Paired, Busy
<1> QED BY <1>1, ProxyInvariance, PTL

-----------------------------------------------------------------------------
(* A step frees an open end only if a handler of the context does.         *)
LEMMA WhoFrees ==
  ASSUME ProxyInv, [ProxyNext]_vars, NEW e \in Peers,
         pc = "batch", sock[e].state = "open", sock'[e].state = "closed"
  PROVE  \E d \in {e, Other[e]} : ProxyError(d) \/ ProxyReadStops(d) \/ ProxyWriteStops(d)
<1> SUFFICES ASSUME \A d \in {e, Other[e]} :
                      ~(ProxyError(d) \/ ProxyReadStops(d) \/ ProxyWriteStops(d))
             PROVE  FALSE
  OBVIOUS
<1>0. sock \in [Peers -> ProxySocks] /\ conn \in [Peers -> ProxyConns]
  BY DEF ProxyInv, Ends
<1>1. CASE UNCHANGED vars
  BY <1>1 DEF vars
<1>2. CASE Wait \/ EndBatch \/ EndTimers \/ EndAccept
  BY <1>2 DEF Wait, EndBatch, EndTimers, EndAccept
<1>3. ASSUME NEW q \in Peers, ProxyNetwork(q) PROVE FALSE
  <2>1. PICK t : (sock' = [sock EXCEPT ![q] = t] /\ t.state # "closed") \/ sock'[e].state = sock[e].state
    BY <1>0, <1>3 DEF ProxyNetwork, Talks, Call, Connect, Established, Refused, Send, Finish,
                      Reset, Take, ProxySocks
  <2> QED BY <1>0, <2>1
<1>4. ASSUME NEW q \in Peers, ConnectFails(q) \/ StaleEvent(q) PROVE FALSE
  BY <1>4 DEF ConnectFails, StaleEvent
<1>5. ASSUME NEW q \in Peers, Accept(q) PROVE FALSE
  BY <1>0, <1>5 DEF Accept, Polled, ProxySocks
<1>6. ASSUME NEW q \in Peers, ProxyWrite(q) PROVE FALSE
  BY <1>0, <1>6 DEF ProxyWrite, Write, Polled, ProxySocks
<1>7. ASSUME NEW q \in Peers, ProxyRead(q) PROVE FALSE
  <2>1. CASE e = Other[q]
    <3>1. OtherSock(q) \in ProxySocks /\ (OtherSock(q).state = "connecting" \/ OtherSock(q) = sock[e])
      BY <1>0, <2>1, ConnectingInv, OtherEnd DEF OtherSock
    <3>2. sock'[e] = Polled(OtherSock(q), conn'[e])
      BY <1>0, <1>7, <2>1 DEF ProxyRead
    <3> QED BY <3>1, <3>2 DEF Polled, ProxySocks
  <2>2. CASE e # Other[q]
    BY <1>0, <1>7, <2>2 DEF ProxyRead, Polled, ProxySocks
  <2> QED BY <2>1, <2>2
<1>8. ASSUME NEW q \in Peers, ProxyTimeout(q) PROVE FALSE
  BY <1>8 DEF ProxyTimeout
<1>9. ASSUME NEW q \in Peers, ProxyError(q) \/ ProxyReadStops(q) \/ ProxyWriteStops(q)
      PROVE  FALSE
  <2>1. StopPair(q) \/ sock' = sock
    BY <1>9 DEF ProxyError, ProxyReadStops, ProxyWriteStops
  <2>2. q = e \/ Other[q] = e
    BY <1>0, <2>1 DEF StopPair
  <2>3. q \in {e, Other[e]}
    BY <2>2, OtherEnd
  <2> QED BY <1>9, <2>3
<1> QED BY <1>1, <1>2, <1>3, <1>4, <1>5, <1>6, <1>7, <1>8, <1>9
  DEF ProxyNext, ProxyThread, ProxyHandler

(* An event in the batch is never spurious, so an end whose handler frees  *)
(* the context has failed, closed, or sent too much.                       *)
LEMMA WhyFreed ==
  ASSUME ProxyInv, NEW d \in Peers,
         ProxyError(d) \/ ProxyReadStops(d) \/ ProxyWriteStops(d)
  PROVE  sock[d].fin \/ sock[d].rst \/ sock[d].inq >= BufSize
<1>1. /\ Founded(sock[d], conn[d], batch[d], batch[Other[d]])
      /\ sock[d] \in ProxySocks /\ conn[d] \in ProxyConns
  BY DEF ProxyInv, Ends, EndInv
<1>2. CASE ProxyError(d)
  BY <1>1, <1>2 DEF ProxyError, Handles, Founded
<1>3. CASE ProxyReadStops(d)
  <2>1. Ready(sock[d], conn[d]) /\ conn[d].armed = "read" /\ conn[Other[d]].buf = <<>>
    BY <1>3, ReadKnows DEF ProxyReadStops, Handles
  <2>2. HearingEnds(d) /\ Len(conn[Other[d]].buf) = 0 /\ sock[d].inq \in 0 .. MaxBytes
    BY <1>1, <1>3, <2>1 DEF ProxyReadStops, ProxySocks
  <2> QED BY <2>1, <2>2, SizeAssumption DEF HearingEnds, Ready, WantsIn, WantsOut
<1>4. CASE ProxyWriteStops(d)
  <2>1. Ready(sock[d], conn[d]) /\ conn[d].armed = "write"
    BY <1>1, <1>4 DEF ProxyWriteStops, Handles, Founded
  <2>2. Len(conn[d].buf) > 0 /\ sock[d].outq \in 0 .. SendRoom
    <3>1. conn[d].buf # <<>> /\ conn[d].buf \in Seq(Bytes)
      BY <2>1, DebtOfEnd
    <3> QED BY <1>1, <3>1 DEF ProxySocks
  <2>3. Len(conn[d].buf) \in Int
    BY <1>1 DEF ProxyConns
  <2>4. sock[d].rst \/ Sendable(d) = 0
    BY <1>4 DEF ProxyWriteStops
  <2> QED BY <2>1, <2>2, <2>3, <2>4, SizeAssumption DEF Sendable, Ready, WantsIn, WantsOut
<1> QED BY <1>2, <1>3, <1>4

(* A healthy context is never given up by a handler.                       *)
THEOREM ProxyNeverClosesFalsely == ProxySpec => ProxyNoFalseClose
<1> DEFINE Fair(e) == pc = "batch" /\ sock[e].state = "open" /\ sock'[e].state = "closed" =>
                        \E d \in {e, Other[e]} : sock[d].fin \/ sock[d].rst \/ sock[d].inq >= BufSize
<1>1. ProxyInv /\ [ProxyNext]_vars => [\A e \in Peers : Fair(e)]_vars
  <2> SUFFICES ASSUME ProxyInv, [ProxyNext]_vars, NEW e \in Peers,
                      pc = "batch", sock[e].state = "open", sock'[e].state = "closed"
               PROVE  \E d \in {e, Other[e]} : sock[d].fin \/ sock[d].rst \/ sock[d].inq >= BufSize
    OBVIOUS
  <2>1. PICK d \in {e, Other[e]} : ProxyError(d) \/ ProxyReadStops(d) \/ ProxyWriteStops(d)
    BY WhoFrees
  <2>2. d \in Peers
    BY OtherEnd
  <2> QED BY <2>1, <2>2, WhyFreed
<1> QED BY <1>1, ProxyInvariance, PTL DEF ProxySpec, ProxyNoFalseClose

-----------------------------------------------------------------------------
(***************************************************************************)
(* The refinement of Relay.                                                *)
(***************************************************************************)
TurnMap  == [c \in Clients |-> TurnOf(c)]
HeldMap  == [c \in Clients |-> HeldBy(c)]
HeardMap == [c \in Clients |-> [client |-> conn[c].rcvd, remote |-> conn[Other[c]].rcvd]]

(* The context of an end.                                                  *)
ClientOf(e) == IF e \in Clients THEN e ELSE Other[e]

(* A step that changes the connections of one context changes its place in *)
(* the mapping only.                                                       *)
LEMMA MapOfPair ==
  ASSUME ProxyInv, NEW e \in Peers,
         \A q \in Peers : q # e /\ q # Other[e] => conn'[q] = conn[q],
         NEW c, c = ClientOf(e)
  PROVE  /\ c \in Clients
         /\ TurnMap' = [TurnMap EXCEPT ![c] = TurnOf(c)']
         /\ HeldMap' = [HeldMap EXCEPT ![c] = HeldBy(c)']
         /\ HeardMap' = [HeardMap EXCEPT ![c] =
                           [client |-> conn'[c].rcvd, remote |-> conn'[Other[c]].rcvd]]
<1>1. c \in Clients /\ c \in {e, Other[e]}
  BY OtherEnd DEF ClientOf
<1>2. ASSUME NEW q \in Clients, q # c
      PROVE  /\ TurnOf(q)' = TurnOf(q) /\ HeldBy(q)' = HeldBy(q)
             /\ conn'[q].rcvd = conn[q].rcvd /\ conn'[Other[q]].rcvd = conn[Other[q]].rcvd
  <2>1. q \in Peers /\ q # e /\ q # Other[e] /\ Other[q] # e /\ Other[q] # Other[e]
    BY <1>2, PairAssumption DEF ClientOf
  <2>2. conn'[q] = conn[q] /\ conn'[Other[q]] = conn[Other[q]]
    BY <2>1, OtherEnd
  <2> QED BY <2>2 DEF TurnOf, HeldBy
<1>3. TurnMap' = [TurnMap EXCEPT ![c] = TurnOf(c)']
  BY <1>1, <1>2 DEF TurnMap
<1>4. HeldMap' = [HeldMap EXCEPT ![c] = HeldBy(c)']
  BY <1>1, <1>2 DEF HeldMap
<1>5. HeardMap' = [HeardMap EXCEPT ![c] =
                    [client |-> conn'[c].rcvd, remote |-> conn'[Other[c]].rcvd]]
  BY <1>1, <1>2 DEF HeardMap
<1> QED BY <1>1, <1>3, <1>4, <1>5

(* A step that leaves the connections alone.                               *)
LEMMA MapStutters ==
  ASSUME UNCHANGED conn
  PROVE  UNCHANGED R!relayVars
BY DEF R!relayVars, TurnOf, HeldBy

(* Both ends of a context freed.                                           *)
LEMMA StopGivesUp ==
  ASSUME ProxyInv, NEW e \in Peers, StopPair(e)
  PROVE  R!Next
<1> DEFINE c == ClientOf(e)
<1>1. /\ conn'[c] = NoConn /\ conn'[Other[c]] = NoConn
      /\ \A q \in Peers : q # e /\ q # Other[e] => conn'[q] = conn[q]
  BY OtherEnd DEF ProxyInv, Ends, StopPair, ClientOf
<1> HIDE DEF c
<1>2. TurnOf(c)' = "none" /\ HeldBy(c)' = <<>> /\ conn'[c].rcvd = 0 /\ conn'[Other[c]].rcvd = 0
  <2>1. TurnOf(c)' = "none"
    BY <1>1 DEF TurnOf, NoConn
  <2>2. HeldBy(c)' = conn'[c].buf \o conn'[Other[c]].buf
    BY <2>1 DEF HeldBy
  <2> QED BY <1>1, <2>1, <2>2 DEF NoConn
<1>3. /\ c \in Clients
      /\ TurnMap' = [TurnMap EXCEPT ![c] = "none"]
      /\ HeldMap' = [HeldMap EXCEPT ![c] = <<>>]
      /\ HeardMap' = [HeardMap EXCEPT ![c] = R!Silence]
  BY <1>1, <1>2, MapOfPair DEF c, R!Silence
<1>4. R!GiveUp(c)
  BY <1>3 DEF R!GiveUp, TurnMap, HeldMap, HeardMap
<1> QED BY <1>3, <1>4 DEF R!Next

(* A client that is accepted has no relay yet.                             *)
LEMMA AcceptStutters ==
  ASSUME ProxyInv, NEW e \in Peers, Accept(e)
  PROVE  UNCHANGED R!relayVars
<1>1. EndInv(e, sock[e], conn[e], batch[e], conn[Other[e]], batch[Other[e]]) /\ sock[e].state = "backlog"
  BY DEF ProxyInv, Ends, Accept, Accepting, Backlog
<1>2. ~conn[e].context /\ e \in Clients
  BY <1>1 DEF EndInv, Paired
<1>3. /\ conn'[e].context = conn[e].context /\ conn'[e].buf = conn[e].buf /\ conn'[e].rcvd = conn[e].rcvd
      /\ \A q \in Peers : q # e => conn'[q] = conn[q]
  BY DEF ProxyInv, Ends, ProxyConns, Accept
<1>4. conn'[Other[e]] = conn[Other[e]]
  BY <1>3, OtherEnd
<1>5. TurnOf(e)' = TurnOf(e) /\ TurnOf(e) = "none"
  BY <1>2, <1>3 DEF TurnOf
<1>6. HeldBy(e)' = HeldBy(e)
  BY <1>3, <1>4, <1>5 DEF HeldBy
<1>7. ClientOf(e) = e
  BY <1>2 DEF ClientOf
<1>8. /\ TurnMap' = [TurnMap EXCEPT ![e] = TurnOf(e)]
      /\ HeldMap' = [HeldMap EXCEPT ![e] = HeldBy(e)]
      /\ HeardMap' = [HeardMap EXCEPT ![e] =
                        [client |-> conn[e].rcvd, remote |-> conn[Other[e]].rcvd]]
  BY <1>3, <1>4, <1>5, <1>6, <1>7, MapOfPair
<1>9. TurnMap' = TurnMap
  BY <1>2, <1>8 DEF TurnMap
<1>10. HeldMap' = HeldMap
  BY <1>2, <1>8 DEF HeldMap
<1>11. HeardMap' = HeardMap
  BY <1>2, <1>8 DEF HeardMap
<1> QED BY <1>9, <1>10, <1>11 DEF R!relayVars, TurnMap, HeldMap, HeardMap

(* A step of one relay.                                                    *)
LEMMA RelayStep ==
  ASSUME NEW c \in Clients, NEW end \in {"client", "remote"}, NEW n \in 1 .. MaxBytes,
         R!Hear(c, end, n) \/ R!Tell(c, end, n)
  PROVE  R!Next
BY DEF R!Next

(* do_echo_read hears an end whose turn it is.                             *)
LEMMA ReadHears ==
  ASSUME ProxyInv, NEW e \in Peers, ProxyRead(e)
  PROVE  R!Next
<1> DEFINE o == Other[e]
           c == ClientOf(e)
           r == conn[e].rcvd
<1>1. conn[e].armed = "read" /\ batch[e] = "event"
  BY DEF ProxyRead, Handles
<1>2. /\ conn[o].buf = <<>> /\ conn[e].context = conn[o].context
      /\ conn[e].context => conn[o].armed = "idle"
      /\ ~conn[e].context => e \in Clients
  BY <1>1, ReadKnows
<1>3. o \in Peers /\ o # e /\ Other[o] = e /\ (o \in Clients <=> e \notin Clients)
  BY OtherEnd
<1>4. PICK n \in 1 .. MaxBytes : n = sock[e].inq
  <2>1. sock[e].inq \in 0 .. MaxBytes /\ sock[e].inq # 0
    BY DEF ProxyInv, Ends, ProxySocks, ProxyRead, HearingEnds
  <2> QED BY <2>1, SizeAssumption
<1> DEFINE new == [i \in 1 .. n |-> r + i]
<1>5. new \in Seq(Int) /\ <<>> \o new = new
  <2>1. r \in 0 .. MaxBytes
    BY DEF ProxyInv, Ends, ProxyConns
  <2>2. new \in Seq(Int)
    BY <1>4, <2>1, SizeAssumption
  <2> HIDE DEF new
  <2> QED BY <2>2
<1>6. /\ conn'[e].armed = "idle" /\ conn'[e].context /\ conn'[e].rcvd = r + n
      /\ conn'[o].armed = "write" /\ conn'[o].context /\ conn'[o].rcvd = conn[o].rcvd
      /\ conn'[o].buf = new
      /\ \A q \in Peers : q # e /\ q # o => conn'[q] = conn[q]
  <2> DEFINE c1 == [conn[e] EXCEPT !.armed = "idle", !.context = TRUE, !.rcvd = @ + n]
             d1 == [conn[o] EXCEPT !.armed = "write", !.context = TRUE, !.buf = @ \o new]
  <2>1. conn' = [conn EXCEPT ![e] = c1, ![o] = d1] /\ conn \in [Peers -> ProxyConns]
    BY <1>3, <1>4 DEF ProxyRead, ProxyInv, Ends, Heard
  <2>2. /\ conn'[e] = c1 /\ conn'[o] = d1
        /\ \A q \in Peers : q # e /\ q # o => conn'[q] = conn[q]
    BY <1>3, <2>1
  <2>3. conn[e] \in ProxyConns /\ conn[o] \in ProxyConns
    BY <1>3, <2>1
  <2> HIDE DEF new, r
  <2>4. c1.armed = "idle" /\ c1.context /\ c1.rcvd = r + n
    BY <2>3 DEF ProxyConns, r
  <2>5. d1.armed = "write" /\ d1.context /\ d1.rcvd = conn[o].rcvd /\ d1.buf = conn[o].buf \o new
    BY <2>3 DEF ProxyConns
  <2>6. d1.buf = new
    BY <1>2, <1>5, <2>5
  <2> QED BY <2>2, <2>4, <2>5, <2>6
<1>7. CASE e \in Clients
  <2>1. c = e
    BY <1>7 DEF ClientOf
  <2>2. TurnOf(c) \in {"none", "clientRead"}
    BY <1>1, <1>2, <2>1 DEF TurnOf
  <2>3. TurnOf(c)' = "remoteWrite"
    BY <1>6, <2>1 DEF TurnOf
  <2>4. HeldBy(c)' = new
    BY <1>6, <2>1, <2>3 DEF HeldBy
  <2> HIDE DEF new
  <2>5. /\ c \in Clients
        /\ TurnMap' = [TurnMap EXCEPT ![c] = "remoteWrite"]
        /\ HeldMap' = [HeldMap EXCEPT ![c] = new]
        /\ HeardMap' = [HeardMap EXCEPT ![c] = [client |-> r + n, remote |-> conn[o].rcvd]]
    BY <1>6, <2>1, <2>3, <2>4, MapOfPair
  <2>6. HeardMap[c] = [client |-> r, remote |-> conn[o].rcvd] /\ TurnMap[c] = TurnOf(c)
    BY <2>1, <2>5 DEF HeardMap, TurnMap
  <2> HIDE DEF c, r, o
  <2>7. HeardMap' = [HeardMap EXCEPT ![c]["client"] = @ + n]
    BY <2>5, <2>6 DEF HeardMap
  <2>8. new = [i \in 1 .. n |-> HeardMap[c]["client"] + i]
    BY <2>6 DEF new
  <2>9. R!Hear(c, "client", n)
    BY <2>2, <2>5, <2>6, <2>7, <2>8, Zenon DEF R!Hear, R!Said, TurnMap, HeldMap, HeardMap
  <2>10. c \in Clients
    BY <2>5
  <2> QED BY <2>9, <2>10, RelayStep
<1>8. CASE e \notin Clients
  <2>1. c = o /\ Other[c] = e
    BY <1>3, <1>8 DEF ClientOf
  <2>2. TurnOf(c) = "remoteRead"
    BY <1>1, <1>2, <1>8, <2>1 DEF TurnOf
  <2>3. TurnOf(c)' = "clientWrite"
    BY <1>6, <2>1 DEF TurnOf
  <2>4. HeldBy(c)' = new
    BY <1>6, <2>1, <2>3 DEF HeldBy
  <2> HIDE DEF new
  <2>5. /\ c \in Clients
        /\ TurnMap' = [TurnMap EXCEPT ![c] = "clientWrite"]
        /\ HeldMap' = [HeldMap EXCEPT ![c] = new]
        /\ HeardMap' = [HeardMap EXCEPT ![c] = [client |-> conn[o].rcvd, remote |-> r + n]]
    BY <1>6, <2>1, <2>3, <2>4, MapOfPair
  <2>6. HeardMap[c] = [client |-> conn[o].rcvd, remote |-> r] /\ TurnMap[c] = TurnOf(c)
    BY <2>1, <2>5 DEF HeardMap, TurnMap
  <2> HIDE DEF c, r, o
  <2>7. HeardMap' = [HeardMap EXCEPT ![c]["remote"] = @ + n]
    BY <2>5, <2>6 DEF HeardMap
  <2>8. new = [i \in 1 .. n |-> HeardMap[c]["remote"] + i]
    BY <2>6 DEF new
  <2>9. R!Hear(c, "remote", n)
    BY <2>2, <2>5, <2>6, <2>7, <2>8, Zenon DEF R!Hear, R!Said, TurnMap, HeldMap, HeardMap
  <2>10. c \in Clients
    BY <2>5
  <2> QED BY <2>9, <2>10, RelayStep
<1> QED BY <1>7, <1>8

(* do_echo_write tells an end whose turn it is a front part of what is     *)
(* held, or all of it.                                                     *)
LEMMA WriteTells ==
  ASSUME ProxyInv, NEW e \in Peers, ProxyWrite(e)
  PROVE  R!Next
<1> DEFINE o == Other[e]
           c == ClientOf(e)
           q == conn[e].buf
           u == Unsent(e)
<1>1. conn[e].armed = "write" /\ ~sock[e].rst /\ Sendable(e) # 0
  BY DEF ProxyWrite, Write
<1>2. o \in Peers /\ o # e /\ Other[o] = e /\ (o \in Clients <=> e \notin Clients)
  BY OtherEnd
<1>3. conn[e].context /\ conn[o].context /\ conn[o].armed = "idle"
  <2>1. Paired(e, sock[e], conn[e], conn[o])
    BY DEF ProxyInv, Ends, EndInv
  <2>2. conn[e].context \in BOOLEAN
    BY DEF ProxyInv, Ends, ProxyConns
  <2> QED BY <1>1, <2>1, <2>2 DEF Paired, Busy
<1>4. conn[o].buf = <<>>
  BY <1>2, <1>3, DebtOfEnd
<1>5. q \in Seq(Bytes) /\ Len(q) \in 1 .. MaxBytes /\ q # <<>>
  <2>1. conn[o].rcvd \in 0 .. MaxBytes /\ conn[e].echoed \in 0 .. MaxBytes
    BY <1>2 DEF ProxyInv, Ends, ProxyConns
  <2>2. q \in Seq(Bytes) /\ q # <<>> /\ Len(q) = conn[o].rcvd - conn[e].echoed
    BY <1>1, DebtOfEnd
  <2> QED BY <2>1, <2>2, SizeAssumption
<1>6. PICK k \in 1 .. MaxBytes : k = Sendable(e) /\ k <= Len(q)
  <2>1. sock[e].outq \in 0 .. SendRoom
    BY DEF ProxyInv, Ends, ProxySocks
  <2> QED BY <1>1, <1>5, <2>1, SizeAssumption DEF Sendable
<1>7. u = SubSeq(q, k + 1, Len(q)) /\ u \in Seq(Bytes) /\ (u = <<>> <=> k = Len(q))
  <2>1. u = SubSeq(q, k + 1, Len(q))
    BY <1>6 DEF Unsent
  <2> HIDE DEF q, u
  <2> QED BY <1>5, <1>6, <2>1
<1>8. /\ conn'[e].armed = (IF u = <<>> THEN "read" ELSE "write") /\ conn'[e].buf = u
      /\ conn'[e].context /\ conn'[e].rcvd = conn[e].rcvd
      /\ \A p \in Peers : p # e => conn'[p] = conn[p]
  <2>1. /\ conn' = [conn EXCEPT ![e].armed = NextArmed(e), ![e].buf = Unsent(e),
                                 ![e].echoed = @ + Sendable(e)]
        /\ conn \in [Peers -> ProxyConns]
    BY DEF ProxyWrite, Write, ProxyInv, Ends
  <2> HIDE DEF u
  <2> QED BY <1>3, <2>1 DEF ProxyConns, NextArmed, u
<1>9. conn'[o] = conn[o] /\ \A p \in Peers : p # e /\ p # o => conn'[p] = conn[p]
  BY <1>2, <1>8
<1>10. CASE e \in Clients
  <2>1. c = e
    BY <1>10 DEF ClientOf
  <2>2. TurnOf(c) = "clientWrite" /\ HeldBy(c) = q
    <3>1. TurnOf(c) = "clientWrite"
      BY <1>1, <1>3, <2>1 DEF TurnOf
    <3> QED BY <2>1, <3>1 DEF HeldBy
  <2>3. TurnOf(c)' = IF k < Len(q) THEN "clientWrite" ELSE "clientRead"
    <3>1. TurnOf(c)' = IF u = <<>> THEN "clientRead" ELSE "clientWrite"
      BY <1>3, <1>8, <1>9, <2>1 DEF TurnOf
    <3> HIDE DEF c, q, u
    <3> QED BY <1>5, <1>6, <1>7, <3>1
  <2>4. HeldBy(c)' = u
    <3>1. CASE TurnOf(c)' = "clientWrite"
      BY <1>8, <2>1, <3>1 DEF HeldBy
    <3>2. CASE TurnOf(c)' = "clientRead"
      <4>1. HeldBy(c)' = conn'[e].buf \o conn'[o].buf /\ u = <<>>
        BY <1>3, <1>8, <1>9, <2>1, <3>2 DEF HeldBy, TurnOf
      <4> QED BY <1>4, <1>8, <1>9, <4>1
    <3> QED BY <2>3, <3>1, <3>2
  <2> HIDE DEF u, q
  <2>5. /\ c \in Clients
        /\ TurnMap' = [TurnMap EXCEPT ![c] = IF k < Len(q) THEN "clientWrite" ELSE "clientRead"]
        /\ HeldMap' = [HeldMap EXCEPT ![c] = u]
        /\ HeardMap' = [HeardMap EXCEPT ![c] = [client |-> conn[e].rcvd, remote |-> conn[o].rcvd]]
    BY <1>8, <1>9, <2>1, <2>3, <2>4, MapOfPair
  <2>6. /\ HeardMap[c] = [client |-> conn[e].rcvd, remote |-> conn[o].rcvd]
        /\ TurnMap[c] = "clientWrite" /\ HeldMap[c] = q
    BY <2>1, <2>2, <2>5 DEF HeardMap, TurnMap, HeldMap
  <2> HIDE DEF c, o
  <2>7. HeardMap' = HeardMap
    BY <2>5, <2>6 DEF HeardMap
  <2>8. HeldMap' = [HeldMap EXCEPT ![c] = SubSeq(@, k + 1, Len(@))]
    BY <1>7, <2>5, <2>6 DEF HeldMap
  <2>9. TurnMap' = [TurnMap EXCEPT ![c] = IF k < Len(HeldMap[c]) THEN @ ELSE "clientRead"]
    BY <2>5, <2>6 DEF TurnMap
  <2>10. k <= Len(HeldMap[c]) /\ c \in Clients
    BY <1>6, <2>5, <2>6
  <2>11. R!Tell(c, "client", k)
    BY <2>6, <2>7, <2>8, <2>9, <2>10, Zenon DEF R!Tell, TurnMap, HeldMap, HeardMap
  <2> QED BY <2>10, <2>11, RelayStep
<1>11. CASE e \notin Clients
  <2>1. c = o /\ Other[c] = e
    BY <1>2, <1>11 DEF ClientOf
  <2>2. TurnOf(c) = "remoteWrite" /\ HeldBy(c) = q
    <3>1. TurnOf(c) = "remoteWrite"
      BY <1>1, <1>3, <2>1 DEF TurnOf
    <3> QED BY <2>1, <3>1 DEF HeldBy
  <2>3. TurnOf(c)' = IF k < Len(q) THEN "remoteWrite" ELSE "remoteRead"
    <3>1. TurnOf(c)' = IF u = <<>> THEN "remoteRead" ELSE "remoteWrite"
      BY <1>3, <1>8, <1>9, <2>1 DEF TurnOf
    <3> HIDE DEF c, q, u
    <3> QED BY <1>5, <1>6, <1>7, <3>1
  <2>4. HeldBy(c)' = u
    <3>1. CASE TurnOf(c)' = "remoteWrite"
      BY <1>8, <2>1, <3>1 DEF HeldBy
    <3>2. CASE TurnOf(c)' = "remoteRead"
      <4>1. HeldBy(c)' = conn'[o].buf \o conn'[e].buf /\ u = <<>>
        BY <1>3, <1>8, <1>9, <2>1, <3>2 DEF HeldBy, TurnOf
      <4> QED BY <1>4, <1>8, <1>9, <4>1
    <3> QED BY <2>3, <3>1, <3>2
  <2> HIDE DEF u, q
  <2>5. /\ c \in Clients
        /\ TurnMap' = [TurnMap EXCEPT ![c] = IF k < Len(q) THEN "remoteWrite" ELSE "remoteRead"]
        /\ HeldMap' = [HeldMap EXCEPT ![c] = u]
        /\ HeardMap' = [HeardMap EXCEPT ![c] = [client |-> conn[o].rcvd, remote |-> conn[e].rcvd]]
    BY <1>8, <1>9, <2>1, <2>3, <2>4, MapOfPair
  <2>6. /\ HeardMap[c] = [client |-> conn[o].rcvd, remote |-> conn[e].rcvd]
        /\ TurnMap[c] = "remoteWrite" /\ HeldMap[c] = q
    BY <2>1, <2>2, <2>5 DEF HeardMap, TurnMap, HeldMap
  <2> HIDE DEF c, o
  <2>7. HeardMap' = HeardMap
    BY <2>5, <2>6 DEF HeardMap
  <2>8. HeldMap' = [HeldMap EXCEPT ![c] = SubSeq(@, k + 1, Len(@))]
    BY <1>7, <2>5, <2>6 DEF HeldMap
  <2>9. TurnMap' = [TurnMap EXCEPT ![c] = IF k < Len(HeldMap[c]) THEN @ ELSE "remoteRead"]
    BY <2>5, <2>6 DEF TurnMap
  <2>10. k <= Len(HeldMap[c]) /\ c \in Clients
    BY <1>6, <2>5, <2>6
  <2>11. R!Tell(c, "remote", k)
    BY <2>6, <2>7, <2>8, <2>9, <2>10, Zenon DEF R!Tell, TurnMap, HeldMap, HeardMap
  <2> QED BY <2>10, <2>11, RelayStep
<1> QED BY <1>10, <1>11

(* Every step of the proxy is a step of the relay, or none.                *)
LEMMA RelayOfStep == ProxyInv /\ [ProxyNext]_vars => [R!Next]_(R!relayVars)
<1> SUFFICES ASSUME ProxyInv, [ProxyNext]_vars PROVE R!Next \/ UNCHANGED R!relayVars
  OBVIOUS
<1>1. CASE UNCHANGED vars
  BY <1>1, MapStutters DEF vars
<1>2. CASE Wait \/ EndBatch \/ EndTimers \/ EndAccept
  BY <1>2, MapStutters DEF Wait, EndBatch, EndTimers, EndAccept
<1>3. ASSUME NEW e \in Peers, ProxyHandler(e)
      PROVE  R!Next \/ UNCHANGED R!relayVars
  <2>1. CASE Accept(e) \/ ProxyRead(e) \/ ProxyWrite(e)
    BY <2>1, AcceptStutters, ReadHears, WriteTells
  <2>2. CASE ConnectFails(e) \/ StaleEvent(e)
    BY <2>2, MapStutters DEF ConnectFails, StaleEvent
  <2>3. CASE ProxyError(e) \/ ProxyReadStops(e) \/ ProxyWriteStops(e)
    BY <2>3, MapStutters, StopGivesUp DEF ProxyError, ProxyReadStops, ProxyWriteStops
  <2> QED BY <1>3, <2>1, <2>2, <2>3 DEF ProxyHandler
<1>4. ASSUME NEW e \in Peers, ProxyNetwork(e)
      PROVE  UNCHANGED R!relayVars
  BY <1>4, MapStutters DEF ProxyNetwork, Talks, Call, Connect, Established, Refused,
                           Send, Finish, Reset, Take
<1>5. ASSUME NEW e \in Peers, ProxyTimeout(e)
      PROVE  R!Next
  BY <1>5, StopGivesUp DEF ProxyTimeout
<1> QED BY <1>1, <1>2, <1>3, <1>4, <1>5 DEF ProxyNext, ProxyThread

(* The ends speak in turns, and each is told exactly what the other said.  *)
THEOREM ProxyImplementsRelay == ProxySpec => ImplementsRelay
<1>1. Init => R!Init
  <2> SUFFICES ASSUME Init PROVE R!Init
    OBVIOUS
  <2>1. ASSUME NEW c \in Clients
        PROVE  /\ TurnOf(c) = "none" /\ HeldBy(c) = <<>>
               /\ conn[c].rcvd = 0 /\ conn[Other[c]].rcvd = 0
    <3>1. conn[c] = NoConn /\ conn[Other[c]] = NoConn
      BY PairAssumption DEF Init
    <3>2. TurnOf(c) = "none"
      BY <3>1 DEF TurnOf, NoConn
    <3>3. HeldBy(c) = conn[c].buf \o conn[Other[c]].buf
      BY <3>2 DEF HeldBy
    <3> QED BY <3>1, <3>2, <3>3 DEF NoConn
  <2> QED BY <2>1 DEF R!Init, R!Silence
<1> QED BY <1>1, RelayOfStep, ProxyInvariance, PTL DEF ProxySpec, ImplementsRelay, R!Spec

=============================================================================
