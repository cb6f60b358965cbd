-------------------------- MODULE EventLoopProofs --------------------------
(***************************************************************************)
(* Proofs about the timer heap and the main loop around it, for every set  *)
(* of owners, capacity and delay, with timers restarted in place: first    *)
(* the pool and the handles, then the order of the array and what the      *)
(* sweep and the wait rely on, which the history variable of TimerHistory  *)
(* states, and last the loop.                                              *)
(***************************************************************************)
EXTENDS TimerHistory, LeastNumber, SequenceTheorems

(***************************************************************************)
(* The pool, the array and the handles.                                    *)
(***************************************************************************)
(* The array h and the flags u agree: PoolMatchesHeap for any two values.  *)
Consistent(h, u) ==
  /\ h \in Seq(Slots)
  /\ \A i, j \in 1 .. Len(h) : h[i] = h[j] => i = j
  /\ \A s \in Slots : u[s] <=> \E i \in 1 .. Len(h) : h[i] = s

(* The running loop stands on a cell of the array.                         *)
SiftInRange ==
  /\ sift.dir = "up" => sift.at \in 1 .. Len(heap)
  /\ sift.dir = "down" => sift.at = 1 \/ sift.at \in 1 .. Len(heap)

(* The strengthening that is inductive: the faults a run can end with are  *)
(* excluded only because the pool, the array and the handles agree.        *)
IInv ==
  /\ TypeOK
  /\ PoolMatchesHeap
  /\ HandlesAreLive
  /\ SiftInRange
  /\ fault \in {"none", "exhausted"}

-----------------------------------------------------------------------------
(* Lemmas on the array.                                                    *)

(* w is h with the cells i and j exchanged.                                *)
IsSwap(w, h, i, j) ==
  /\ w \in Seq(Slots) /\ Len(w) = Len(h)
  /\ \A k \in 1 .. Len(h) :
       w[k] = IF k = j THEN h[i] ELSE IF k = i THEN h[j] ELSE h[k]

LEMMA SwapCells ==
  ASSUME NEW h \in Seq(Slots), NEW i \in 1 .. Len(h), NEW j \in 1 .. Len(h)
  PROVE  IsSwap(Swap(h, i, j), h, i, j)
<1> DEFINE g == [h EXCEPT ![i] = h[j]]
<1>1. h[i] \in Slots /\ h[j] \in Slots
  BY ElementOfSeq
<1>2. /\ g \in Seq(Slots) /\ Len(g) = Len(h)
      /\ \A k \in 1 .. Len(h) : g[k] = IF k = i THEN h[j] ELSE h[k]
  BY <1>1, ExceptSeq
<1>3. Swap(h, i, j) = [g EXCEPT ![j] = h[i]]
  BY DEF Swap
<1> HIDE DEF g
<1>4. /\ [g EXCEPT ![j] = h[i]] \in Seq(Slots)
      /\ Len([g EXCEPT ![j] = h[i]]) = Len(g)
      /\ \A k \in 1 .. Len(g) : [g EXCEPT ![j] = h[i]][k] = IF k = j THEN h[i] ELSE g[k]
  BY <1>1, <1>2, ExceptSeq
<1> QED
  BY <1>2, <1>3, <1>4 DEF IsSwap

(* One iteration of a sift loop keeps the array and the pool consistent.   *)
LEMMA SwapConsistent ==
  ASSUME NEW h, NEW u, Consistent(h, u),
         NEW i \in 1 .. Len(h), NEW j \in 1 .. Len(h)
  PROVE  Consistent(Swap(h, i, j), u) /\ Len(Swap(h, i, j)) = Len(h)
<1> DEFINE w == Swap(h, i, j)
<1>0. h \in Seq(Slots) /\ Len(h) \in Nat
  BY LenProperties DEF Consistent
<1>1. /\ w \in Seq(Slots) /\ Len(w) = Len(h)
      /\ \A k \in 1 .. Len(h) :
           w[k] = IF k = j THEN h[i] ELSE IF k = i THEN h[j] ELSE h[k]
  <2>1. IsSwap(Swap(h, i, j), h, i, j)
    BY <1>0, SwapCells
  <2> QED BY <2>1 DEF IsSwap
<1> HIDE DEF w
<1>2. \A k, l \in 1 .. Len(w) : w[k] = w[l] => k = l
  BY <1>0, <1>1 DEF Consistent
<1>3. ASSUME NEW s \in Slots
      PROVE  (\E k \in 1 .. Len(h) : h[k] = s) <=> (\E k \in 1 .. Len(w) : w[k] = s)
  BY <1>0, <1>1
<1> QED
  BY <1>0, <1>1, <1>2, <1>3 DEF Consistent, w

(* jk_th_add puts a free slot after the last cell.                         *)
LEMMA AppendConsistent ==
  ASSUME NEW h, NEW u \in [Slots -> BOOLEAN], Consistent(h, u),
         NEW s \in Slots, ~u[s]
  PROVE  Consistent(Append(h, s), [u EXCEPT ![s] = TRUE])
         /\ Len(Append(h, s)) = Len(h) + 1
<1> DEFINE w == Append(h, s)
<1>1. h \in Seq(Slots) /\ Len(h) \in Nat
  BY LenProperties DEF Consistent
<1>2. /\ w \in Seq(Slots) /\ Len(w) = Len(h) + 1
      /\ \A k \in 1 .. Len(h) : w[k] = h[k]
      /\ w[Len(h) + 1] = s
  BY <1>1, AppendProperties
<1> HIDE DEF w
<1>3. \A k \in 1 .. Len(h) : h[k] # s
  BY <1>1 DEF Consistent
<1>4. \A k, l \in 1 .. Len(w) : w[k] = w[l] => k = l
  BY <1>1, <1>2, <1>3 DEF Consistent
<1>5. ASSUME NEW r \in Slots
      PROVE  [u EXCEPT ![s] = TRUE][r] <=> \E k \in 1 .. Len(w) : w[k] = r
  <2>1. CASE r = s
    BY <1>1, <1>2, <2>1
  <2>2. CASE r # s
    <3>1. (\E k \in 1 .. Len(h) : h[k] = r) <=> (\E k \in 1 .. Len(w) : w[k] = r)
      BY <1>1, <1>2, <2>2
    <3> QED BY <3>1, <2>2 DEF Consistent
  <2> QED BY <2>1, <2>2
<1> QED
  BY <1>2, <1>4, <1>5 DEF Consistent, w

(* jk_th_pop releases the root's slot and moves the last cell to the root. *)
LEMMA PopConsistent ==
  ASSUME NEW h, NEW u \in [Slots -> BOOLEAN], Consistent(h, u), h # <<>>
  PROVE  LET w == SubSeq([h EXCEPT ![1] = h[Len(h)]], 1, Len(h) - 1)
         IN  /\ Consistent(w, [u EXCEPT ![h[1]] = FALSE])
             /\ Len(w) = Len(h) - 1
             /\ Len(h) \in Nat \ {0}
<1> DEFINE n == Len(h)
           g == [h EXCEPT ![1] = h[n]]
           w == SubSeq(g, 1, n - 1)
<1>1. h \in Seq(Slots) /\ n \in Nat \ {0}
  BY EmptySeq DEF Consistent
<1>2. 1 \in 1 .. n /\ n \in 1 .. n /\ h[1] \in Slots /\ h[n] \in Slots
  BY <1>1, ElementOfSeq
<1>3. /\ g \in Seq(Slots) /\ Len(g) = n
      /\ \A k \in 1 .. n : g[k] = IF k = 1 THEN h[n] ELSE h[k]
  BY <1>1, <1>2, ExceptSeq
<1>4. /\ w \in Seq(Slots) /\ Len(w) = n - 1
      /\ \A k \in 1 .. n - 1 : w[k] = g[k]
  <2> HIDE DEF g
  <2>1. \A k \in 1 .. n - 1 : g[k] \in Slots
    BY <1>1, <1>3, ElementOfSeq
  <2>2. /\ SubSeq(g, 1, n - 1) \in Seq(Slots)
        /\ Len(SubSeq(g, 1, n - 1)) = IF 1 <= n - 1 THEN (n - 1) - 1 + 1 ELSE 0
        /\ \A k \in 1 .. (n - 1) - 1 + 1 : SubSeq(g, 1, n - 1)[k] = g[1 + k - 1]
    <3> HIDE DEF n
    <3> QED BY <1>1, <2>1, SubSeqProperties
  <2> HIDE DEF n
  <2> QED BY <1>1, <2>2
<1>5. \A k \in 1 .. n - 1 : w[k] = IF k = 1 THEN h[n] ELSE h[k]
  BY <1>1, <1>3, <1>4
<1> HIDE DEF w, g
<1>6. \A k, l \in 1 .. Len(w) : w[k] = w[l] => k = l
  BY <1>1, <1>4, <1>5 DEF Consistent
<1>7. ASSUME NEW r \in Slots
      PROVE  [u EXCEPT ![h[1]] = FALSE][r] <=> \E k \in 1 .. Len(w) : w[k] = r
  <2>1. CASE r = h[1]
    <3>1. \A k \in 1 .. n - 1 : w[k] # r
      BY <1>1, <1>2, <1>5, <2>1 DEF Consistent
    <3> QED BY <1>1, <1>2, <1>4, <2>1, <3>1
  <2>2. CASE r # h[1]
    <3>1. ASSUME NEW k \in 1 .. n, h[k] = r
          PROVE  \E l \in 1 .. Len(w) : w[l] = r
      BY <1>1, <1>4, <1>5, <2>2, <3>1
    <3>2. ASSUME NEW l \in 1 .. Len(w), w[l] = r
          PROVE  \E k \in 1 .. n : h[k] = r
      BY <1>1, <1>2, <1>4, <1>5, <3>2
    <3> QED BY <1>2, <2>2, <3>1, <3>2 DEF Consistent
  <2> QED BY <2>1, <2>2
<1> QED
  BY <1>1, <1>4, <1>6, <1>7 DEF Consistent, w, g

(* An array that is not full leaves a slot of the pool free: distinct      *)
(* cells hold distinct slots, so all slots used means a full array.        *)
LEMMA RoomMeansFreeSlot ==
  ASSUME NEW h, NEW u, Consistent(h, u), Len(h) < Capacity
  PROVE  \E s \in Slots : ~u[s]
<1>1. h \in Seq(Slots) /\ Len(h) \in Nat
  BY LenProperties DEF Consistent
<1>2. SUFFICES ASSUME \A s \in Slots : u[s] PROVE FALSE
  OBVIOUS
<1>3. h \in Surjection(1 .. Len(h), Slots)
  <2>1. h \in [1 .. Len(h) -> Slots]
    BY <1>1, LenProperties
  <2>2. \A s \in Slots : \E k \in 1 .. Len(h) : h[k] = s
    BY <1>2 DEF Consistent
  <2> QED BY <2>1, <2>2 DEF Surjection
<1>4. Cardinality(Slots) <= Len(h)
  BY <1>1, <1>3, FS_SurjCardinalityBound DEF ExistsSurjection
<1>5. Cardinality(Slots) = Capacity
  BY CapacityAssumption, FS_Interval DEF Slots
<1> QED BY <1>1, <1>4, <1>5, CapacityAssumption

(* What jk_timer_start writes is a timer.                                  *)
LEMMA NewTimerType ==
  ASSUME TypeOK, NEW o \in Owners
  PROVE  /\ NewTimer(o) \in Timers
         /\ NewTimer(o).enabled = TRUE /\ NewTimer(o).data = o
  BY DelayAssumption DEF NewTimer, Timers, TypeOK

(* And so is what disabling one leaves.                                    *)
LEMMA DisabledTimerType ==
  ASSUME NEW t \in Timers
  PROVE  [t EXCEPT !.enabled = FALSE] \in Timers
BY DEF Timers

(* TypeOK and PoolMatchesHeap make the array and the pool consistent.      *)
LEMMA ConsistentState ==
  ASSUME TypeOK
  PROVE  PoolMatchesHeap <=> Consistent(heap, used)
  BY DEF TypeOK, PoolMatchesHeap, Consistent

LEMMA ConsistentStatePrime ==
  ASSUME TypeOK'
  PROVE  PoolMatchesHeap' <=> Consistent(heap', used')
  BY DEF TypeOK, PoolMatchesHeap, Consistent

-----------------------------------------------------------------------------
(* The inductive step, one lemma per action.                               *)

LEMMA InitIInv == ASSUME Init PROVE IInv
<1>1. TypeOK
  BY CapacityAssumption, EmptySeq DEF Init, TypeOK, NoSift, Timers, Faults, Slots
<1>2. PoolMatchesHeap
  BY EmptySeq DEF Init, PoolMatchesHeap
<1>3. HandlesAreLive
  BY DEF Init, HandlesAreLive
<1>4. SiftInRange /\ fault \in {"none", "exhausted"}
  BY DEF Init, SiftInRange, NoSift
<1> QED BY <1>1, <1>2, <1>3, <1>4 DEF IInv

(* Starting a timer: a slot that was free cannot be any context's, and the *)
(* pool has one whenever the array has room.                               *)
LEMMA StartTimerIInv ==
  ASSUME IInv, NEW o \in Owners, StartTimer(o)
  PROVE  IInv'
<1> USE DEF IInv
<1>1. Consistent(heap, used) /\ used \in [Slots -> BOOLEAN]
  BY ConsistentState DEF TypeOK
<1>2. CASE Len(heap) < Capacity
  <2>1. PICK s \in Slots : /\ IsFirstFree(s)
                           /\ HeapAdd(s, NewTimer(o))
                           /\ handle' = [handle EXCEPT ![o] = s]
                           /\ UNCHANGED fault
    BY <1>1, <1>2, RoomMeansFreeSlot DEF StartTimer
  <2>2. ~used[s] /\ heap' = Append(heap, s) /\ used' = [used EXCEPT ![s] = TRUE]
    BY <2>1 DEF IsFirstFree, HeapAdd
  <2>3. Consistent(heap', used') /\ Len(heap') = Len(heap) + 1
    BY <1>1, <2>2, AppendConsistent
  <2>4. Len(heap) \in Nat
    BY <1>1, LenProperties DEF Consistent
  <2>5. /\ NewTimer(o) \in Timers
        /\ NewTimer(o).enabled = TRUE /\ NewTimer(o).data = o
    BY NewTimerType
  <2>6. TypeOK'
    <3>1. heap' \in Seq(Slots) /\ Len(heap') <= Capacity
      BY <1>2, <2>3, <2>4, CapacityAssumption DEF Consistent
    <3>2. timer' \in [Slots -> Timers]
      BY <2>1, <2>5 DEF TypeOK, HeapAdd
    <3>3. sift' \in [dir : {"none", "up", "down"}, at : Nat]
      BY <2>1, <2>4 DEF HeapAdd
    <3> QED
      BY <2>1, <2>2, <3>1, <3>2, <3>3 DEF TypeOK, StartTimer
  <2>7. PoolMatchesHeap'
    BY <2>3, <2>6, ConsistentStatePrime
  <2>8. HandlesAreLive'
    <3>1. timer' = [timer EXCEPT ![s] = NewTimer(o)]
      BY <2>1 DEF HeapAdd
    <3>2. s # NULL /\ handle[o] = NULL
      BY NullAssumption, CapacityAssumption DEF Slots, StartTimer
    <3>3. \A p \in Owners : handle[p] # s
      BY <2>2, <3>2 DEF HandlesAreLive
    <3>4. ASSUME NEW p \in Owners, handle'[p] # NULL
          PROVE  used'[handle'[p]] /\ timer'[handle'[p]].enabled /\ timer'[handle'[p]].data = p
      <4>1. CASE p = o
        BY <2>1, <2>2, <2>5, <3>1, <4>1 DEF TypeOK
      <4>2. CASE p # o
        BY <2>1, <2>2, <3>1, <3>3, <3>4, <4>2 DEF TypeOK, HandlesAreLive
      <4> QED BY <4>1, <4>2
    <3>5. ASSUME NEW r \in Slots, used'[r], timer'[r].enabled
          PROVE  timer'[r].data \in Owners /\ handle'[timer'[r].data] = r
      <4>1. CASE r = s
        BY <2>1, <2>5, <3>1, <4>1 DEF TypeOK
      <4>2. CASE r # s
        <5>1. used[r] /\ timer'[r] = timer[r]
          BY <2>2, <3>1, <3>5, <4>2 DEF TypeOK
        <5>2. timer[r].data \in Owners /\ handle[timer[r].data] = r
          BY <3>5, <5>1 DEF HandlesAreLive
        <5>3. r # NULL
          BY NullAssumption, CapacityAssumption DEF Slots
        <5>4. handle'[timer[r].data] = r
          BY <2>1, <3>2, <5>2, <5>3 DEF TypeOK
        <5> QED BY <5>1, <5>2, <5>4
      <4> QED BY <4>1, <4>2
    <3> QED BY <3>4, <3>5 DEF HandlesAreLive
  <2>9. SiftInRange' /\ fault' \in {"none", "exhausted"}
    BY <2>1, <2>3, <2>4 DEF HeapAdd, SiftInRange
  <2> QED BY <2>6, <2>7, <2>8, <2>9
<1>3. CASE ~(Len(heap) < Capacity)
  <2>1. fault' = "exhausted" /\ UNCHANGED <<heap, timer, used, sift, handle, now, sweep>>
    BY <1>3 DEF StartTimer
  <2> QED
    BY <2>1 DEF TypeOK, PoolMatchesHeap, HandlesAreLive, SiftInRange, Faults
<1> QED BY <1>2, <1>3

(* Restarting a timer rewrites an enabled slot for the same owner.         *)
LEMMA RestartTimerIInv ==
  ASSUME IInv, NEW o \in Owners, RestartTimer(o)
  PROVE  IInv'
<1> USE DEF IInv, RestartTimer
<1>1. /\ NewTimer(o) \in Timers
      /\ NewTimer(o).enabled = TRUE /\ NewTimer(o).data = o
  BY NewTimerType
<1>2. handle[o] \in Slots
  BY DEF TypeOK
<1>3. TypeOK'
  BY <1>1, <1>2 DEF TypeOK
<1>4. HandlesAreLive'
  BY <1>1, <1>2 DEF HandlesAreLive, TypeOK
<1> QED
  BY <1>3, <1>4 DEF PoolMatchesHeap, SiftInRange

(* Stopping a context drops its handle and its enabled flag together.      *)
LEMMA StopContextIInv ==
  ASSUME IInv, NEW o \in Owners, StopContext(o)
  PROVE  IInv'
<1> USE DEF IInv, StopContext
<1>1. handle[o] \in Slots
  BY DEF TypeOK
<1>2. TypeOK'
  <2>1. [timer[handle[o]] EXCEPT !.enabled = FALSE] \in Timers
    BY <1>1, DisabledTimerType DEF TypeOK
  <2> QED BY <1>1, <2>1 DEF TypeOK
<1>3. HandlesAreLive'
  BY <1>1, NullAssumption DEF HandlesAreLive, TypeOK, Timers
<1> QED
  BY <1>2, <1>3 DEF PoolMatchesHeap, SiftInRange

(* A pop with the root's timer record left as it is, or disabled by its     *)
(* handler: the part that the two sweep steps share.                       *)
LEMMA PopKeepsPool ==
  ASSUME IInv, heap # <<>>, HeapPop
  PROVE  /\ Consistent(heap', used')
         /\ used' \in [Slots -> BOOLEAN]
         /\ Len(heap') \in Nat /\ Len(heap') <= Capacity
         /\ sift' \in [dir : {"none", "up", "down"}, at : Nat]
         /\ SiftInRange'
         /\ heap[1] \in Slots /\ used[heap[1]]
         /\ used' = [used EXCEPT ![heap[1]] = FALSE]
<1>1. Consistent(heap, used) /\ used \in [Slots -> BOOLEAN] /\ Len(heap) <= Capacity
  BY ConsistentState DEF IInv, TypeOK
<1>2. /\ Consistent(heap', used')
      /\ Len(heap') = Len(heap) - 1
      /\ Len(heap) \in Nat \ {0}
  BY <1>1, PopConsistent DEF HeapPop
<1>3. heap[1] \in Slots
  BY <1>1, <1>2, ElementOfSeq DEF Consistent
<1>4. used[heap[1]]
  BY <1>1, <1>2, <1>3 DEF Consistent
<1>5. /\ sift' = [dir |-> "down", at |-> 1]
      /\ used' = [used EXCEPT ![heap[1]] = FALSE]
  BY DEF HeapPop
<1> QED
  BY <1>1, <1>2, <1>3, <1>4, <1>5, CapacityAssumption DEF SiftInRange

(* A disabled timer belongs to no context, so its slot may be released.    *)
LEMMA SweepDiscardIInv ==
  ASSUME IInv, SweepDiscard
  PROVE  IInv'
<1>1. /\ heap # <<>> /\ HeapPop /\ ~timer[heap[1]].enabled
      /\ UNCHANGED <<timer, handle, now, sweep, fault>>
  BY DEF SweepDiscard
<1>2. /\ Consistent(heap', used')
      /\ used' \in [Slots -> BOOLEAN]
      /\ Len(heap') \in Nat /\ Len(heap') <= Capacity
      /\ sift' \in [dir : {"none", "up", "down"}, at : Nat]
      /\ SiftInRange'
      /\ heap[1] \in Slots /\ used[heap[1]]
      /\ used' = [used EXCEPT ![heap[1]] = FALSE]
  BY <1>1, PopKeepsPool
<1>3. TypeOK'
  BY <1>1, <1>2 DEF IInv, TypeOK, Consistent
<1>4. PoolMatchesHeap'
  BY <1>2, <1>3, ConsistentStatePrime
<1>5. HandlesAreLive'
  BY <1>1, <1>2 DEF IInv, HandlesAreLive, TypeOK
<1> QED
  BY <1>1, <1>2, <1>3, <1>4, <1>5 DEF IInv

(* The root that fires belongs to a live context: its handler frees that   *)
(* context, so no handle is left on the slot that the pop releases.        *)
LEMMA SweepFireIInv ==
  ASSUME IInv, SweepFire
  PROVE  IInv'
<1> DEFINE o == timer[heap[1]].data
<1>1. heap # <<>> /\ timer[heap[1]].enabled /\ UNCHANGED <<now, sweep>>
  BY DEF SweepFire, RootExpired
<1>2. heap[1] \in Slots /\ used[heap[1]]
  <2>1. Consistent(heap, used)
    BY ConsistentState DEF IInv
  <2>2. heap \in Seq(Slots) /\ 1 \in 1 .. Len(heap)
    BY <1>1, <2>1, EmptySeq DEF Consistent
  <2>3. heap[1] \in Slots
    BY <2>2, ElementOfSeq
  <2> QED BY <2>1, <2>2, <2>3 DEF Consistent
<1>3. o \in Owners /\ handle[o] = heap[1] /\ handle[o] # NULL
  BY <1>1, <1>2, NullAssumption, CapacityAssumption DEF IInv, HandlesAreLive, Slots
<1>4. /\ HeapPop
      /\ timer'  = [timer EXCEPT ![heap[1]].enabled = FALSE]
      /\ handle' = [handle EXCEPT ![o] = NULL]
      /\ UNCHANGED fault
  BY <1>3 DEF SweepFire
<1>5. /\ Consistent(heap', used')
      /\ used' \in [Slots -> BOOLEAN]
      /\ Len(heap') \in Nat /\ Len(heap') <= Capacity
      /\ sift' \in [dir : {"none", "up", "down"}, at : Nat]
      /\ SiftInRange'
      /\ used' = [used EXCEPT ![heap[1]] = FALSE]
  BY <1>1, <1>4, PopKeepsPool
<1> HIDE DEF o
<1>6. TypeOK'
  <2>1. timer' \in [Slots -> Timers]
    <3>1. timer \in [Slots -> Timers] /\ timer[heap[1]] \in Timers
      BY <1>2 DEF IInv, TypeOK
    <3>2. [timer[heap[1]] EXCEPT !.enabled = FALSE] \in Timers
      BY <3>1, DisabledTimerType
    <3> QED BY <1>4, <3>1, <3>2
  <2>2. handle' \in [Owners -> Slots \cup {NULL}]
    BY <1>1, <1>3, <1>4 DEF IInv, TypeOK
  <2>3. now' \in Nat /\ sweep' \in Nat \cup {NULL} /\ fault' \in Faults
    BY <1>1, <1>4 DEF IInv, TypeOK
  <2>4. heap' \in Seq(Slots)
    BY <1>5 DEF Consistent
  <2> QED BY <1>5, <2>1, <2>2, <2>3, <2>4 DEF TypeOK
<1>7. PoolMatchesHeap'
  BY <1>5, <1>6, ConsistentStatePrime
<1>8. HandlesAreLive'
  <2>1. ASSUME NEW p \in Owners, handle'[p] # NULL
        PROVE  used'[handle'[p]] /\ timer'[handle'[p]].enabled /\ timer'[handle'[p]].data = p
    <3>1. p # o /\ handle'[p] = handle[p]
      BY <1>3, <1>4, <2>1 DEF IInv, TypeOK
    <3>2. handle[p] \in Slots /\ timer[handle[p]].data = p
      BY <2>1, <3>1 DEF IInv, TypeOK, HandlesAreLive
    <3>3. handle[p] # heap[1]
      BY <3>1, <3>2 DEF o
    <3> QED
      BY <1>2, <1>4, <1>5, <2>1, <3>1, <3>2, <3>3 DEF IInv, TypeOK, HandlesAreLive
  <2>2. ASSUME NEW r \in Slots, used'[r], timer'[r].enabled
        PROVE  timer'[r].data \in Owners /\ handle'[timer'[r].data] = r
    <3>1. r # heap[1]
      BY <1>2, <1>5, <2>2 DEF IInv, TypeOK
    <3>2. used[r] /\ timer'[r] = timer[r]
      BY <1>2, <1>4, <1>5, <2>2, <3>1 DEF IInv, TypeOK
    <3>3. timer[r].data \in Owners /\ handle[timer[r].data] = r
      BY <2>2, <3>2 DEF IInv, HandlesAreLive
    <3>4. timer[r].data # o
      BY <1>3, <3>1, <3>3
    <3> QED
      BY <1>4, <3>2, <3>3, <3>4 DEF IInv, TypeOK
  <2> QED BY <2>1, <2>2 DEF HandlesAreLive
<1> QED
  BY <1>4, <1>5, <1>6, <1>7, <1>8 DEF IInv

(* The loops only swap cells of the array.                                 *)
LEMMA LoopsIInv ==
  ASSUME IInv, Loops
  PROVE  IInv'
<1>1. Consistent(heap, used) /\ Len(heap) \in Nat
  BY ConsistentState, LenProperties DEF IInv, Consistent
<1>2. UNCHANGED <<timer, used, handle, now, sweep, fault>>
  BY DEF Loops, SiftUp, SiftDown
<1>3. \/ heap' = heap /\ sift' = NoSift
      \/ \E i, j \in 1 .. Len(heap) :
           /\ heap' = Swap(heap, i, j)
           /\ sift' = [sift EXCEPT !.at = j]
  <2>1. CASE SiftUp
    <3>1. sift.at \in 1 .. Len(heap)
      BY <2>1 DEF SiftUp, IInv, SiftInRange
    <3>2. sift.at # 1 => Parent(sift.at) \in 1 .. Len(heap)
      BY <1>1, <3>1 DEF Parent
    <3> QED BY <2>1, <3>1, <3>2 DEF SiftUp
  <2>2. CASE SiftDown
    <3>1. sift.at = 1 \/ sift.at \in 1 .. Len(heap)
      BY <2>2 DEF SiftDown, IInv, SiftInRange
    <3>2. 2 * sift.at <= Len(heap) =>
            /\ sift.at \in 1 .. Len(heap)
            /\ SmallestChild(sift.at) \in 1 .. Len(heap)
      BY <1>1, <3>1 DEF SmallestChild
    <3>3. ~(2 * sift.at > Len(heap)) => 2 * sift.at <= Len(heap)
      BY <1>1, <3>1
    <3> QED BY <2>2, <3>2, <3>3 DEF SiftDown
  <2> QED BY <2>1, <2>2 DEF Loops
<1>4. Consistent(heap', used') /\ Len(heap') = Len(heap)
  BY <1>1, <1>2, <1>3, SwapConsistent
<1>5. /\ sift' \in [dir : {"none", "up", "down"}, at : Nat]
      /\ SiftInRange'
  BY <1>1, <1>3, <1>4 DEF IInv, TypeOK, SiftInRange, NoSift
<1>6. TypeOK'
  BY <1>2, <1>4, <1>5 DEF IInv, TypeOK, Consistent
<1>7. PoolMatchesHeap'
  BY <1>4, <1>6, ConsistentStatePrime
<1> QED
  BY <1>2, <1>5, <1>6, <1>7 DEF IInv, HandlesAreLive

(* The steps that touch neither the array nor the pool nor the handles.    *)
LEMMA ClockIInv ==
  ASSUME IInv, BeginSweep \/ EndSweep \/ Tick \/ UNCHANGED vars
  PROVE  IInv'
<1>1. /\ UNCHANGED <<heap, timer, used, sift, handle, fault>>
      /\ now' \in Nat /\ sweep' \in Nat \cup {NULL}
  BY DEF BeginSweep, EndSweep, Tick, vars, IInv, TypeOK
<1> QED
  BY <1>1 DEF IInv, TypeOK, PoolMatchesHeap, HandlesAreLive, SiftInRange

-----------------------------------------------------------------------------
LEMMA NextIInv == IInv /\ [Next]_vars => IInv'
<1> SUFFICES ASSUME IInv, [Next]_vars PROVE IInv'
  OBVIOUS
<1>1. ASSUME NEW o \in Owners, StartTimer(o) PROVE IInv'
  BY <1>1, StartTimerIInv
<1>2. ASSUME NEW o \in Owners, RestartTimer(o) PROVE IInv'
  BY <1>2, RestartTimerIInv
<1>3. ASSUME NEW o \in Owners, StopContext(o) PROVE IInv'
  BY <1>3, StopContextIInv
<1>4. CASE SweepDiscard BY <1>4, SweepDiscardIInv
<1>5. CASE SweepFire BY <1>5, SweepFireIInv
<1>6. CASE Loops BY <1>6, LoopsIInv
<1>7. CASE BeginSweep \/ EndSweep \/ Tick \/ UNCHANGED vars BY <1>7, ClockIInv
<1> QED
  BY <1>1, <1>2, <1>3, <1>4, <1>5, <1>6, <1>7 DEF Next, Sweep

LEMMA Invariance == Spec => []IInv
<1>1. Init => IInv BY InitIInv
<1> QED BY <1>1, NextIInv, PTL DEF Spec

(* Type correctness, the bound of the array included, for every capacity.  *)
THEOREM TypeCorrect == Spec => []TypeOK
<1>1. IInv => TypeOK BY DEF IInv
<1> QED BY <1>1, Invariance, PTL

(* jk_th_add and jk_th_pop neither leak nor share a slot of the pool.      *)
THEOREM PoolAndHeapAgree == Spec => []PoolMatchesHeap
<1>1. IInv => PoolMatchesHeap BY DEF IInv
<1> QED BY <1>1, Invariance, PTL

(* ctx->timer always points to an enabled timer of that very context.      *)
THEOREM HandlesNeverStale == Spec => []HandlesAreLive
<1>1. IInv => HandlesAreLive BY DEF IInv
<1> QED BY <1>1, Invariance, PTL

(* The CHECK "get_new_timer failed" of jk_th_add never fails.              *)
THEOREM PoolSuffices == Spec => []PoolNeverRunsDry
<1>1. IInv => PoolNeverRunsDry BY DEF IInv, PoolNeverRunsDry
<1> QED BY <1>1, Invariance, PTL

(* No timeout handler runs for a connection whose context is gone.         *)
THEOREM TimeoutsAreSafe == Spec => []NoTimeoutAfterStop
<1>1. IInv => NoTimeoutAfterStop BY DEF IInv, NoTimeoutAfterStop
<1> QED BY <1>1, Invariance, PTL

-----------------------------------------------------------------------------
(***************************************************************************)
(* The order of the array.  e is the expiry in each of n cells, and L the  *)
(* cells whose timer may be later than one below it.                       *)
(***************************************************************************)
InOrder(e, n, L) == \A i \in 2 .. n : Parent(i) \in L \/ e[Parent(i)] <= e[i]

(* Around the cell a of a running loop: only a may be earlier than its     *)
(* parent while the loop goes up, only a may be later than its children    *)
(* while it goes down, and a's parent and children are in order always.    *)
UpFrom(e, n, L, a) ==
  /\ \A i \in 2 .. n : i # a => Parent(i) \in L \/ e[Parent(i)] <= e[i]
  /\ a # 1 => \A i \in 2 .. n : Parent(i) = a =>
       a \in L \/ Parent(a) \in L \/ e[Parent(a)] <= e[i]

DownFrom(e, n, L, a) ==
  /\ \A i \in 2 .. n : Parent(i) # a => Parent(i) \in L \/ e[Parent(i)] <= e[i]
  /\ a # 1 => \A i \in 2 .. n : Parent(i) = a =>
       Parent(a) \in L \/ e[Parent(a)] <= e[i]

Swapped(e, n, i, j) ==
  [k \in 1 .. n |-> IF k = j THEN e[i] ELSE IF k = i THEN e[j] ELSE e[k]]

(* What a swap of the cells i and j makes of the late ones, up and down.   *)
Climbed(L, M, i, j) ==
  /\ \A k : k # i /\ k # j => (k \in M <=> k \in L)
  /\ i \in M <=> i \in L \/ j \in L
  /\ j \in M <=> i \in L \/ j \in L

Sunk(L, M, i, j) ==
  /\ \A k : k # i /\ k # j => (k \in M <=> k \in L)
  /\ i \in M <=> j \in L
  /\ j \in M <=> i \in L

LEMMA ParentIsBefore ==
  \A n \in Nat : \A i \in 2 .. n : Parent(i) \in 1 .. n /\ Parent(i) < i
BY DEF Parent

LEMMA UpRound ==
  ASSUME NEW n \in Nat, NEW e \in [1 .. n -> Nat], NEW L, NEW M, NEW a \in 2 .. n,
         UpFrom(e, n, L, a), e[a] < e[Parent(a)], Climbed(L, M, a, Parent(a))
  PROVE  UpFrom(Swapped(e, n, a, Parent(a)), n, M, Parent(a))
<1> DEFINE p == Parent(a)
           f == Swapped(e, n, a, p)
<1>1. p \in 1 .. n /\ p < a /\ p # a
  BY ParentIsBefore
<1>2. /\ f[p] = e[a] /\ f[a] = e[p]
      /\ \A k \in 1 .. n : k # p /\ k # a => f[k] = e[k]
  BY <1>1 DEF Swapped
<1>0. /\ \A k : k # p /\ k # a => (k \in M <=> k \in L)
      /\ p \in M <=> a \in L \/ p \in L
      /\ a \in M <=> a \in L \/ p \in L
  BY DEF Climbed
<1> HIDE DEF p, f
<1>3. \A k \in 1 .. n : e[k] \in Nat
  OBVIOUS
<1>4. ASSUME NEW i \in 2 .. n, i # p, Parent(i) \notin M
      PROVE  f[Parent(i)] <= f[i]
  <2>1. Parent(i) \in 1 .. n /\ Parent(i) # i /\ i \in 1 .. n
    BY ParentIsBefore
  <2>2. CASE i = a
    BY <1>1, <1>2, <1>3, <2>2 DEF p
  <2>3. CASE i # a /\ Parent(i) = a
    <3>1. e[p] <= e[i]
      BY <1>1, <1>4, <1>0, <2>3 DEF UpFrom, p
    <3> QED BY <1>2, <1>4, <2>1, <2>3, <3>1
  <2>4. CASE i # a /\ Parent(i) = p
    <3>1. e[p] <= e[i]
      BY <1>4, <1>0, <2>4 DEF UpFrom
    <3>2. e[a] <= e[i]
      BY <1>1, <1>3, <2>1, <3>1 DEF p
    <3> QED BY <1>2, <1>4, <2>1, <2>4, <3>2
  <2>5. CASE i # a /\ Parent(i) # a /\ Parent(i) # p
    <3>1. e[Parent(i)] <= e[i]
      BY <1>4, <1>0, <2>5 DEF UpFrom
    <3> QED BY <1>2, <1>4, <2>1, <2>5, <3>1
  <2> QED BY <2>2, <2>3, <2>4, <2>5
<1>5. ASSUME p # 1, NEW i \in 2 .. n, Parent(i) = p, p \notin M, Parent(p) \notin M
      PROVE  f[Parent(p)] <= f[i]
  <2>1. p \in 2 .. n
    BY <1>1, <1>5
  <2>2. Parent(p) \in 1 .. n /\ Parent(p) < p
    BY <2>1, ParentIsBefore
  <2>3. f[Parent(p)] = e[Parent(p)] /\ Parent(p) # p /\ Parent(p) # a
    BY <1>1, <1>2, <2>2
  <2>4. e[Parent(p)] <= e[p]
    BY <1>1, <1>5, <1>0, <2>1, <2>3 DEF UpFrom
  <2>5. CASE i = a
    BY <1>2, <2>3, <2>4, <2>5
  <2>6. CASE i # a
    <3>1. e[p] <= e[i] /\ i # p /\ i \in 1 .. n
      BY <1>5, <1>0, <2>6, ParentIsBefore DEF UpFrom
    <3>2. f[i] = e[i]
      BY <1>2, <2>6, <3>1
    <3> QED BY <1>1, <1>3, <2>2, <2>3, <2>4, <3>1, <3>2
  <2> QED BY <2>5, <2>6
<1> QED BY <1>4, <1>5 DEF UpFrom, p, f

(* c is the child that SmallestChild takes.                                *)
LEMMA DownRound ==
  ASSUME NEW n \in Nat, NEW e \in [1 .. n -> Nat], NEW L, NEW M,
         NEW a \in 1 .. n, NEW c \in 2 .. n,
         DownFrom(e, n, L, a), Parent(c) = a, e[c] < e[a],
         \A i \in 2 .. n : Parent(i) = a => e[c] <= e[i],
         Sunk(L, M, a, c)
  PROVE  DownFrom(Swapped(e, n, a, c), n, M, c)
<1> DEFINE f == Swapped(e, n, a, c)
<1>1. a < c /\ a # c /\ c \in 1 .. n
  BY ParentIsBefore
<1>2. /\ f[c] = e[a] /\ f[a] = e[c]
      /\ \A k \in 1 .. n : k # c /\ k # a => f[k] = e[k]
  BY <1>1 DEF Swapped
<1>0. /\ \A k : k # c /\ k # a => (k \in M <=> k \in L)
      /\ a \in M <=> c \in L
  BY DEF Sunk
<1> HIDE DEF f
<1>3. \A k \in 1 .. n : e[k] \in Nat
  OBVIOUS
<1>4. ASSUME NEW i \in 2 .. n, Parent(i) # c, Parent(i) \notin M
      PROVE  f[Parent(i)] <= f[i]
  <2>1. Parent(i) \in 1 .. n /\ Parent(i) # i /\ i \in 1 .. n
    BY ParentIsBefore
  <2>2. CASE i = c
    BY <1>1, <1>2, <1>3, <2>2
  <2>3. CASE i # c /\ Parent(i) = a
    <3>1. e[c] <= e[i] /\ i # a
      BY <2>1, <2>3
    <3> QED BY <1>2, <2>1, <2>3, <3>1
  <2>4. CASE i = a
    <3>1. a # 1
      BY <2>4
    <3>2. e[Parent(a)] <= e[c]
      BY <1>4, <1>0, <2>1, <2>4, <3>1 DEF DownFrom
    <3> QED BY <1>2, <1>4, <2>1, <2>4, <3>2
  <2>5. CASE i # c /\ i # a /\ Parent(i) # a
    <3>1. e[Parent(i)] <= e[i]
      BY <1>4, <1>0, <2>5 DEF DownFrom
    <3> QED BY <1>2, <1>4, <2>1, <2>5, <3>1
  <2> QED BY <2>2, <2>3, <2>4, <2>5
<1>5. ASSUME NEW i \in 2 .. n, Parent(i) = c, a \notin M
      PROVE  f[Parent(c)] <= f[i]
  <2>1. e[c] <= e[i] /\ i \in 1 .. n /\ c < i
    BY <1>1, <1>5, <1>0, ParentIsBefore DEF DownFrom
  <2>2. i # c /\ i # a
    BY <1>1, <2>1
  <2> QED BY <1>2, <2>1, <2>2
<1> QED BY <1>4, <1>5 DEF DownFrom, f

(* The root is the earliest of the cells of S, when S holds the parents of *)
(* its cells and no late cell is one of them: a cell earlier than the root *)
(* would have a parent earlier than the root.                              *)
LEMMA RootIsEarliest ==
  ASSUME NEW n \in Nat, NEW e \in [1 .. n -> Nat], NEW L, InOrder(e, n, L),
         NEW S \in SUBSET (1 .. n),
         \A i \in S : i = 1 \/ (Parent(i) \in S /\ Parent(i) \notin L)
  PROVE  \A i \in S : e[1] <= e[i]
<1> DEFINE Earlier == {i \in S : ~(e[1] <= e[i])}
<1>1. SUFFICES ASSUME Earlier # {} PROVE FALSE
  OBVIOUS
<1>2. Earlier \subseteq Nat
  <2>1. Earlier \subseteq 1 .. n
    OBVIOUS
  <2> HIDE DEF Earlier
  <2> QED BY <2>1
<1> HIDE DEF Earlier
<1>3. PICK i \in Earlier : \A j \in Earlier : i <= j
  BY <1>1, <1>2, HasLeast
<1>4. i \in S /\ i \in 1 .. n /\ ~(e[1] <= e[i])
  BY DEF Earlier
<1>5. i \in 2 .. n
  <2>1. 1 \in 1 .. n /\ e[1] \in Nat
    BY <1>4
  <2>2. i # 1
    BY <1>4, <2>1
  <2> QED BY <1>4, <2>2
<1>6. /\ Parent(i) \in 1 .. n /\ Parent(i) < i
      /\ Parent(i) \in S /\ Parent(i) \notin L
  BY <1>4, <1>5, ParentIsBefore
<1>7. Parent(i) \notin Earlier
  BY <1>3, <1>4, <1>6
<1>8. e[1] <= e[Parent(i)] /\ e[Parent(i)] <= e[i]
  BY <1>5, <1>6, <1>7 DEF Earlier, InOrder
<1>9. 1 \in 1 .. n /\ e[1] \in Nat /\ e[i] \in Nat /\ e[Parent(i)] \in Nat
  BY <1>4, <1>6
<1> QED BY <1>4, <1>8, <1>9

(***************************************************************************)
(* The order through the steps of the heap, watched by the history: a      *)
(* restart rewrites an expiry in place and never makes it smaller, so it   *)
(* disorders the array only below the cell it makes late.                  *)
(***************************************************************************)
Expiries(h, t) == [i \in 1 .. Len(h) |-> t[h[i]].expiry]
LateCells      == {i \in 1 .. Len(heap) : heap[i] \in late}

Shape ==
  /\ sift.dir = "none" => InOrder(Expiries(heap, timer), Len(heap), LateCells)
  /\ sift.dir = "up" => UpFrom(Expiries(heap, timer), Len(heap), LateCells, sift.at)
  /\ sift.dir = "down" => DownFrom(Expiries(heap, timer), Len(heap), LateCells, sift.at)

(* No context's timer expires later than a restart would make it expire.   *)
NotAhead ==
  \A o \in Owners : handle[o] # NULL => timer[handle[o]].expiry <= now + Delay[o]

LEMMA ExpiriesType ==
  ASSUME TypeOK
  PROVE  /\ Len(heap) \in Nat /\ heap \in Seq(Slots)
         /\ \A i \in 1 .. Len(heap) : heap[i] \in Slots
         /\ Expiries(heap, timer) \in [1 .. Len(heap) -> Nat]
<1>1. heap \in Seq(Slots) /\ Len(heap) \in Nat
  BY LenProperties DEF TypeOK
<1>2. ASSUME NEW i \in 1 .. Len(heap) PROVE heap[i] \in Slots /\ timer[heap[i]].expiry \in Nat
  <2>1. heap[i] \in Slots
    BY <1>1, ElementOfSeq
  <2> QED BY <2>1 DEF TypeOK, Timers
<1> QED BY <1>1, <1>2 DEF Expiries

LEMMA SwapExpiries ==
  ASSUME NEW h \in Seq(Slots), NEW t, NEW i \in 1 .. Len(h), NEW j \in 1 .. Len(h)
  PROVE  /\ Len(Swap(h, i, j)) = Len(h)
         /\ Expiries(Swap(h, i, j), t) = Swapped(Expiries(h, t), Len(h), i, j)
<1>1. /\ Len(Swap(h, i, j)) = Len(h)
      /\ \A k \in 1 .. Len(h) :
           Swap(h, i, j)[k] = IF k = j THEN h[i] ELSE IF k = i THEN h[j] ELSE h[k]
  BY SwapCells DEF IsSwap
<1> QED BY <1>1 DEF Expiries, Swapped

(* Cells of the new array are in use, so the history speaks of all of them.*)
LEMMA WatchedCells ==
  ASSUME IInv', Watch, NEW i \in 1 .. Len(heap')
  PROVE  /\ i \in LateCells' <=> heap'[i] \in (late \cup Restarted \cup Passed) \ Settled
         /\ heap'[i] \in Slots
<1>1. Consistent(heap', used')
  BY ConsistentStatePrime DEF IInv
<1>2. heap'[i] \in Slots /\ used'[heap'[i]]
  BY <1>1, ElementOfSeq DEF Consistent
<1>3. i \in LateCells' <=> heap'[i] \in late'
  BY DEF LateCells
<1> QED BY <1>2, <1>3 DEF Watch

(* Outside of the sift loops, restarts alone make a cell late.             *)
LEMMA WatchedIdle ==
  ASSUME IInv', Watch, sift.dir = "none" \/ UNCHANGED <<heap, sift>>,
         NEW i \in 1 .. Len(heap')
  PROVE  i \in LateCells' <=> heap'[i] \in late \/ heap'[i] \in Restarted
<1>1. Passed = {} /\ Settled = {}
  BY DEF Passed, Settled
<1> QED BY <1>1, WatchedCells

(* A step that leaves the array and every expiry in it alone.              *)
LEMMA KeptShape ==
  ASSUME IInv, IInv', Shape, Watch, UNCHANGED <<heap, sift>>,
         \A s \in Slots : timer'[s].expiry = timer[s].expiry
  PROVE  Shape'
<1>1. Expiries(heap', timer') = Expiries(heap, timer)
  BY ExpiriesType DEF Expiries, IInv
<1>2. Restarted = {}
  BY DEF Restarted
<1>3. LateCells' = LateCells
  <2>1. \A i \in 1 .. Len(heap') : i \in LateCells' <=> heap'[i] \in late
    BY <1>2, WatchedIdle
  <2>2. LateCells' \subseteq 1 .. Len(heap') /\ LateCells \subseteq 1 .. Len(heap)
    BY DEF LateCells
  <2> QED BY <2>1, <2>2 DEF LateCells
<1> QED BY <1>1, <1>3 DEF Shape

(* A restart in place makes the cell of its timer late, and only that one. *)
LEMMA RestartTimerShape ==
  ASSUME IInv, IInv', Shape, NotAhead, Watch, NEW o \in Owners, RestartTimer(o)
  PROVE  Shape'
<1> DEFINE n == Len(heap)
           e == Expiries(heap, timer)
           f == Expiries(heap', timer')
           r == handle[o]
<1>1. /\ TypeOK /\ Idle /\ UNCHANGED <<heap, sift>> /\ r # NULL
      /\ timer' = [timer EXCEPT ![r] = NewTimer(o)]
  BY DEF IInv, RestartTimer, InHandler
<1>2. /\ r \in Slots /\ NewTimer(o).expiry = now + Delay[o]
      /\ timer[r].expiry <= now + Delay[o]
  BY <1>1 DEF TypeOK, NotAhead, NewTimer
<1>3. /\ timer'[r].expiry = now + Delay[o]
      /\ \A s \in Slots : s # r => timer'[s] = timer[s]
  BY <1>1, <1>2 DEF TypeOK
<1>4. /\ n \in Nat /\ \A i \in 1 .. n : heap[i] \in Slots
      /\ \A i \in 1 .. n : e[i] \in Nat
      /\ \A i \in 1 .. n : e[i] = timer[heap[i]].expiry /\ f[i] = timer'[heap[i]].expiry
  BY <1>1, ExpiriesType DEF Expiries
<1>5. now + Delay[o] \in Nat
  BY <1>1, DelayAssumption DEF TypeOK
<1>6. InOrder(e, n, LateCells)
  BY <1>1 DEF Shape, Idle
<1> HIDE DEF n, e, f
<1>7. ASSUME NEW i \in 2 .. n, Parent(i) \notin LateCells' PROVE f[Parent(i)] <= f[i]
  <2>1. Parent(i) \in 1 .. n /\ i \in 1 .. n
    BY <1>4, ParentIsBefore
  <2>2. heap[Parent(i)] \notin late /\ heap[Parent(i)] \notin Restarted
    BY <1>1, <1>7, <2>1, WatchedIdle DEF Idle, n
  <2>3. e[Parent(i)] <= e[i]
    BY <1>6, <2>1, <2>2 DEF InOrder, LateCells, n
  <2>4. f[Parent(i)] = e[Parent(i)]
    <3>1. used[heap[Parent(i)]]
      BY <1>4, <2>1 DEF IInv, PoolMatchesHeap, n
    <3> QED BY <1>4, <2>1, <2>2, <3>1 DEF Restarted
  <2>5. e[i] <= f[i] /\ f[i] \in Nat
    BY <1>2, <1>3, <1>4, <1>5, <2>1
  <2> QED BY <1>4, <2>1, <2>3, <2>4, <2>5
<1> QED BY <1>1, <1>7 DEF Shape, InOrder, Idle, f, n

LEMMA StartTimerShape ==
  ASSUME IInv, IInv', Shape, Watch, NEW o \in Owners, StartTimer(o)
  PROVE  Shape'
<1>1. TypeOK /\ Consistent(heap, used) /\ Idle
  BY ConsistentState DEF IInv, StartTimer, InHandler
<1>2. CASE UNCHANGED <<heap, timer, sift>>
  BY <1>1, <1>2, KeptShape
<1>3. CASE ~ UNCHANGED <<heap, timer, sift>>
  <2>1. PICK s \in Slots : IsFirstFree(s) /\ HeapAdd(s, NewTimer(o))
    BY <1>3 DEF StartTimer
  <2>2. /\ heap' = Append(heap, s) /\ timer' = [timer EXCEPT ![s] = NewTimer(o)]
        /\ sift' = [dir |-> "up", at |-> Len(heap) + 1] /\ ~used[s]
    BY <2>1 DEF HeapAdd, IsFirstFree
  <2> DEFINE n == Len(heap)
             e == Expiries(heap, timer)
             f == Expiries(heap', timer')
  <2>3. n \in Nat /\ heap \in Seq(Slots) /\ \A i \in 1 .. n : heap[i] \in Slots
    BY <1>1, ExpiriesType
  <2>4. Len(heap') = n + 1 /\ \A i \in 1 .. n : heap'[i] = heap[i]
    BY <2>2, <2>3, AppendProperties
  <2>5. \A i \in 1 .. n : heap[i] # s
    BY <1>1, <2>2 DEF Consistent
  <2>6. \A i \in 1 .. n : f[i] = e[i]
    <3>1. \A r \in Slots : r # s => timer'[r] = timer[r]
      BY <1>1, <2>2 DEF TypeOK
    <3>2. \A i \in 1 .. n : i \in 1 .. n + 1
      BY <2>3
    <3> HIDE DEF n
    <3> QED BY <2>3, <2>4, <2>5, <3>1, <3>2 DEF Expiries, n
  <2>7. InOrder(e, n, LateCells)
    BY <1>1 DEF Shape, Idle
  <2>0. \A i \in 1 .. n : i \in LateCells' <=> i \in LateCells
    <3>1. \A r \in Slots : used[r] => timer'[r].expiry = timer[r].expiry
      BY <1>1, <2>2 DEF TypeOK
    <3>2. Restarted = {}
      BY <3>1 DEF Restarted
    <3>3. \A i \in 1 .. n : i \in 1 .. Len(heap')
      BY <2>3, <2>4
    <3>4. \A i \in 1 .. n : i \in LateCells' <=> heap'[i] \in late
      BY <1>1, <3>2, <3>3, WatchedIdle DEF Idle
    <3> QED BY <2>4, <3>4 DEF LateCells
  <2> HIDE DEF n, e, f
  <2>8. UpFrom(f, n + 1, LateCells', n + 1)
    <3>1. \A i \in 2 .. n + 1 : i # n + 1 => i \in 2 .. n /\ i \in 1 .. n /\ Parent(i) \in 1 .. n
      BY <2>3, ParentIsBefore
    <3>2. \A i \in 2 .. n + 1 : Parent(i) # n + 1
      <4>1. n + 1 \in Nat
        BY <2>3
      <4> QED BY <2>3, <4>1, ParentIsBefore
    <3> QED BY <2>6, <2>7, <2>0, <3>1, <3>2 DEF UpFrom, InOrder
  <2> QED BY <2>2, <2>4, <2>8 DEF Shape, n, f
<1> QED BY <1>2, <1>3

(* A pop from an ordered array, by whatever step of the sweep.             *)
LEMMA PopShape ==
  ASSUME IInv, IInv', Shape, Watch, Idle, heap # <<>>, HeapPop,
         \A s \in Slots : timer'[s].expiry = timer[s].expiry
  PROVE  Shape'
<1> DEFINE n == Len(heap)
           e == Expiries(heap, timer)
           f == Expiries(heap', timer')
           g == [heap EXCEPT ![1] = heap[n]]
<1>1. TypeOK /\ InOrder(e, n, LateCells)
  BY DEF IInv, Shape, Idle
<1>2. n \in Nat /\ n # 0 /\ heap \in Seq(Slots) /\ \A i \in 1 .. n : heap[i] \in Slots
  BY <1>1, ExpiriesType, EmptySeq
<1>3. 1 \in 1 .. n /\ n \in 1 .. n
  BY <1>2
<1>4. g \in Seq(Slots) /\ Len(g) = n /\ \A k \in 1 .. n : k # 1 => g[k] = heap[k]
  BY <1>2, <1>3, ExceptSeq
<1>5. heap' = SubSeq(g, 1, n - 1) /\ sift' = [dir |-> "down", at |-> 1]
  BY DEF HeapPop
<1> HIDE DEF n, e, f, g
<1>6. Len(heap') = n - 1 /\ \A k \in 1 .. n - 1 : heap'[k] = g[k]
  <2>1. \A k \in 1 .. n - 1 : g[k] \in Slots
    BY <1>2, <1>4, ElementOfSeq
  <2>2. /\ Len(SubSeq(g, 1, n - 1)) = IF 1 <= n - 1 THEN (n - 1) - 1 + 1 ELSE 0
        /\ \A k \in 1 .. (n - 1) - 1 + 1 : SubSeq(g, 1, n - 1)[k] = g[1 + k - 1]
    BY <1>2, <1>4, <2>1, SubSeqProperties
  <2> QED BY <1>2, <1>5, <2>2
<1>7. \A k \in 2 .. n - 1 : f[k] = e[k]
  <2>1. \A k \in 2 .. n - 1 : k \in 1 .. n /\ k \in 1 .. n - 1 /\ k # 1
    BY <1>2
  <2> QED BY <1>2, <1>4, <1>6, <2>1 DEF Expiries, e, f, n
<1>0. \A k \in 2 .. n - 1 : k \in LateCells' <=> k \in LateCells
  <2>1. Restarted = {}
    BY DEF Restarted
  <2>2. \A k \in 2 .. n - 1 : k \in 1 .. n /\ k \in 1 .. n - 1 /\ k # 1
    BY <1>2
  <2>3. \A k \in 2 .. n - 1 : k \in LateCells' <=> heap'[k] \in late
    BY <1>6, <2>1, <2>2, WatchedIdle DEF Idle
  <2> QED BY <1>4, <1>6, <2>2, <2>3 DEF LateCells, n
<1>8. DownFrom(f, n - 1, LateCells', 1)
  <2>1. \A i \in 2 .. n - 1 : i \in 2 .. n
    BY <1>2
  <2>2. \A i \in 2 .. n - 1 : Parent(i) # 1 => Parent(i) \in 2 .. n - 1
    <3>1. \A i \in 2 .. n - 1 : Parent(i) \in 1 .. n /\ Parent(i) < i
      BY <1>2, <2>1, ParentIsBefore
    <3> QED BY <1>2, <3>1
  <2> QED BY <1>1, <1>7, <1>0, <2>1, <2>2 DEF DownFrom, InOrder
<1> QED BY <1>5, <1>6, <1>8 DEF Shape, f

LEMMA SiftUpShape ==
  ASSUME IInv, IInv', Shape, Watch, SiftUp
  PROVE  Shape'
<1> DEFINE n == Len(heap)
           e == Expiries(heap, timer)
           a == sift.at
<1>1. TypeOK /\ UpFrom(e, n, LateCells, a) /\ a \in 1 .. n /\ UNCHANGED timer
  BY DEF IInv, SiftInRange, Shape, SiftUp
<1>2. n \in Nat /\ heap \in Seq(Slots) /\ e \in [1 .. n -> Nat]
  BY <1>1, ExpiriesType
<1>3. \A i \in 1 .. n : ExpiryAt(i) = e[i]
  BY DEF Expiries, ExpiryAt
<1>4. \/ /\ a = 1 \/ ExpiryAt(Parent(a)) <= ExpiryAt(a)
         /\ heap' = heap /\ sift' = NoSift
      \/ /\ a # 1 /\ ~(ExpiryAt(Parent(a)) <= ExpiryAt(a))
         /\ heap' = Swap(heap, a, Parent(a)) /\ sift' = [sift EXCEPT !.at = Parent(a)]
  BY DEF SiftUp
<1>5. sift.dir = "up" /\ sift \in [dir : {"none", "up", "down"}, at : Nat]
  BY <1>1 DEF SiftUp, TypeOK
<1> HIDE DEF n, e, a
<1>6. a # 1 => a \in 2 .. n /\ Parent(a) \in 1 .. n /\ Parent(a) < a
  BY <1>1, <1>2, ParentIsBefore
<1>watch. \A k \in 1 .. Len(heap') : k \in LateCells' <=> heap'[k] \in late \cup Passed
  <2>1. Restarted = {} /\ Settled = {}
    BY <1>1, <1>5 DEF Restarted, Settled
  <2> QED BY <2>1, WatchedCells
<1>7. CASE /\ a = 1 \/ ExpiryAt(Parent(a)) <= ExpiryAt(a)
           /\ heap' = heap /\ sift' = NoSift
  <2>1. a # 1 => e[Parent(a)] <= e[a]
    BY <1>1, <1>3, <1>6, <1>7
  <2>2. InOrder(e, n, LateCells)
    <3>1. \A i \in 2 .. n : i # 1
      OBVIOUS
    <3> QED BY <1>1, <2>1, <3>1 DEF InOrder, UpFrom
  <2>3. LateCells' = LateCells
    <3>1. Passed = {}
      BY <1>7 DEF Passed
    <3> QED BY <1>7, <1>watch, <3>1 DEF LateCells
  <2> QED BY <1>1, <1>7, <2>2, <2>3 DEF Shape, NoSift, e, n
<1>8. CASE /\ a # 1 /\ ~(ExpiryAt(Parent(a)) <= ExpiryAt(a))
           /\ heap' = Swap(heap, a, Parent(a)) /\ sift' = [sift EXCEPT !.at = Parent(a)]
  <2>1. e[a] < e[Parent(a)]
    <3>1. e[a] \in Nat /\ e[Parent(a)] \in Nat
      BY <1>1, <1>2, <1>6, <1>8
    <3> QED BY <1>1, <1>3, <1>6, <1>8, <3>1
  <2>climb. Climbed(LateCells, LateCells', a, Parent(a))
    <3> DEFINE q == Parent(a)
    <3>1. a \in 1 .. n /\ q \in 1 .. n /\ q # a
      BY <1>1, <1>6, <1>8
    <3>2. /\ Len(heap') = n /\ heap'[a] = heap[q] /\ heap'[q] = heap[a]
          /\ \A k \in 1 .. n : k # a /\ k # q => heap'[k] = heap[k]
      <4>1. IsSwap(Swap(heap, a, q), heap, a, q)
        BY <1>2, <3>1, SwapCells DEF n
      <4>2. heap' = Swap(heap, a, q)
        BY <1>8
      <4> HIDE DEF q
      <4> QED BY <3>1, <4>1, <4>2 DEF IsSwap, n
    <3>3. \A i, j \in 1 .. n : heap[i] = heap[j] => i = j
      BY DEF IInv, PoolMatchesHeap, n
    <3> HIDE DEF q
    <3>4. heap' # heap
      BY <3>1, <3>2, <3>3
    <3>5. Passed = IF {heap[a], heap[q]} \cap late # {} THEN {heap[a], heap[q]} ELSE {}
      BY <1>5, <3>4 DEF Passed, a, q
    <3>6. \A k : k \in LateCells <=> k \in 1 .. n /\ heap[k] \in late
      BY DEF LateCells, n
    <3>7. \A k : k \in LateCells' <=> k \in 1 .. n /\ heap'[k] \in late \cup Passed
      BY <1>watch, <3>2 DEF LateCells
    <3>8. ASSUME NEW k, k # a, k # q PROVE k \in LateCells' <=> k \in LateCells
      BY <3>1, <3>2, <3>3, <3>5, <3>6, <3>7, <3>8
    <3>9. /\ a \in LateCells' <=> a \in LateCells \/ q \in LateCells
          /\ q \in LateCells' <=> a \in LateCells \/ q \in LateCells
      BY <3>1, <3>2, <3>5, <3>6, <3>7
    <3> QED BY <3>8, <3>9 DEF Climbed, q
  <2>2. UpFrom(Swapped(e, n, a, Parent(a)), n, LateCells', Parent(a))
    BY <1>1, <1>2, <1>6, <1>8, <2>1, <2>climb, UpRound
  <2>3. Len(heap') = n /\ Expiries(heap', timer') = Swapped(e, n, a, Parent(a))
    BY <1>1, <1>2, <1>6, <1>8, SwapExpiries DEF n, e
  <2>4. sift'.dir = "up" /\ sift'.at = Parent(a)
    BY <1>5, <1>8
  <2> QED BY <2>2, <2>3, <2>4 DEF Shape
<1> QED BY <1>4, <1>7, <1>8

LEMMA SiftDownShape ==
  ASSUME IInv, IInv', Shape, Watch, SiftDown
  PROVE  Shape'
<1> DEFINE n == Len(heap)
           e == Expiries(heap, timer)
           a == sift.at
           c == SmallestChild(a)
<1>1. TypeOK /\ DownFrom(e, n, LateCells, a) /\ (a = 1 \/ a \in 1 .. n) /\ UNCHANGED timer
  BY DEF IInv, SiftInRange, Shape, SiftDown
<1>2. n \in Nat /\ heap \in Seq(Slots) /\ e \in [1 .. n -> Nat]
  BY <1>1, ExpiriesType
<1>3. \A i \in 1 .. n : ExpiryAt(i) = e[i]
  BY DEF Expiries, ExpiryAt
<1>4. \/ /\ 2 * a > n \/ ExpiryAt(a) <= ExpiryAt(c)
         /\ heap' = heap /\ sift' = NoSift
      \/ /\ ~(2 * a > n) /\ ~(ExpiryAt(a) <= ExpiryAt(c))
         /\ heap' = Swap(heap, a, c) /\ sift' = [sift EXCEPT !.at = c]
  BY DEF SiftDown
<1>5. sift.dir = "down" /\ sift \in [dir : {"none", "up", "down"}, at : Nat]
  BY <1>1 DEF SiftDown, TypeOK
<1>watch. \A k \in 1 .. Len(heap') :
        k \in LateCells' <=> heap'[k] \in late /\ heap'[k] \notin Settled
  <2>1. Restarted = {} /\ Passed = {}
    BY <1>1, <1>5 DEF Restarted, Passed
  <2> QED BY <2>1, WatchedCells
<1>6. c = IF 2 * a + 1 <= n /\ ExpiryAt(2 * a + 1) <= ExpiryAt(2 * a) THEN 2 * a + 1 ELSE 2 * a
  BY DEF SmallestChild
<1> HIDE DEF n, e, a, c
<1>7. ASSUME ~(2 * a > n)
      PROVE  /\ a \in 1 .. n /\ c \in 2 .. n /\ Parent(c) = a
             /\ \A i \in 2 .. n : Parent(i) = a => e[c] <= e[i]
  <2>1. a \in 1 .. n /\ 2 * a \in 2 .. n
    BY <1>1, <1>2, <1>7
  <2>2. c \in 2 .. n /\ (c = 2 * a \/ c = 2 * a + 1)
    BY <1>2, <1>6, <2>1
  <2>3. Parent(c) = a
    BY <2>1, <2>2 DEF Parent
  <2>4. ASSUME NEW i \in 2 .. n, Parent(i) = a PROVE e[c] <= e[i]
    <3>1. i = 2 * a \/ i = 2 * a + 1
      BY <2>1, <2>4 DEF Parent
    <3>2. e[2 * a] \in Nat /\ 2 * a \in 1 .. n
      BY <1>2, <2>1
    <3>3. CASE 2 * a + 1 <= n
      <4>1. 2 * a + 1 \in 1 .. n
        BY <2>1, <3>3
      <4>2. e[2 * a + 1] \in Nat
        BY <1>2, <4>1
      <4>3. /\ ExpiryAt(2 * a) = e[2 * a] /\ ExpiryAt(2 * a + 1) = e[2 * a + 1]
        BY <1>3, <3>2, <4>1
      <4>4. CASE e[2 * a + 1] <= e[2 * a]
        <5>1. c = 2 * a + 1
          BY <1>6, <3>3, <4>3, <4>4
        <5> QED BY <3>1, <3>2, <4>2, <4>4, <5>1
      <4>5. CASE ~(e[2 * a + 1] <= e[2 * a])
        <5>1. c = 2 * a
          BY <1>6, <4>3, <4>5
        <5> QED BY <3>1, <3>2, <4>2, <4>5, <5>1
      <4> QED BY <4>4, <4>5
    <3>4. CASE ~(2 * a + 1 <= n)
      BY <1>6, <2>4, <3>1, <3>2, <3>4
    <3> QED BY <3>3, <3>4
  <2> QED BY <2>1, <2>2, <2>3, <2>4
<1>8. CASE /\ 2 * a > n \/ ExpiryAt(a) <= ExpiryAt(c)
           /\ heap' = heap /\ sift' = NoSift
  <2>1. ASSUME NEW i \in 2 .. n, Parent(i) = a PROVE e[a] <= e[i]
    <3>1. ~(2 * a > n)
      BY <1>1, <1>2, <2>1 DEF Parent
    <3>2. e[a] <= e[c] /\ e[c] <= e[i]
      <4>1. a \in 1 .. n /\ c \in 1 .. n
        BY <1>7, <3>1
      <4> QED BY <1>3, <1>7, <1>8, <2>1, <3>1, <4>1
    <3>3. e[a] \in Nat /\ e[c] \in Nat /\ e[i] \in Nat
      <4>1. a \in 1 .. n /\ c \in 1 .. n /\ i \in 1 .. n
        BY <1>7, <3>1
      <4> QED BY <1>2, <4>1
    <3> QED BY <3>2, <3>3
  <2>3. \A k : k # a => (k \in LateCells' <=> k \in LateCells)
    <3>1. Settled = IF a <= n THEN {heap[a]} ELSE {}
      BY <1>5, <1>8 DEF Settled, NoSift, a, n
    <3>2. \A i, j \in 1 .. n : heap[i] = heap[j] => i = j
      BY DEF IInv, PoolMatchesHeap, n
    <3>3. a <= n => a \in 1 .. n
      BY <1>1, <1>2
    <3>4. \A k : k \in LateCells <=> k \in 1 .. n /\ heap[k] \in late
      BY DEF LateCells, n
    <3>5. \A k : k \in LateCells' <=> k \in 1 .. n /\ heap[k] \in late /\ heap[k] \notin Settled
      BY <1>8, <1>watch DEF LateCells, n
    <3> QED BY <3>1, <3>2, <3>3, <3>4, <3>5
  <2>2. InOrder(e, n, LateCells')
    BY <1>1, <2>1, <2>3 DEF InOrder, DownFrom
  <2> QED BY <1>1, <1>8, <2>2 DEF Shape, NoSift, e, n
<1>9. CASE /\ ~(2 * a > n) /\ ~(ExpiryAt(a) <= ExpiryAt(c))
           /\ heap' = Swap(heap, a, c) /\ sift' = [sift EXCEPT !.at = c]
  <2>1. /\ a \in 1 .. n /\ c \in 2 .. n /\ c \in 1 .. n /\ Parent(c) = a
        /\ \A i \in 2 .. n : Parent(i) = a => e[c] <= e[i]
    BY <1>7, <1>9
  <2>2. e[c] < e[a]
    <3>1. e[a] \in Nat /\ e[c] \in Nat /\ ExpiryAt(a) = e[a] /\ ExpiryAt(c) = e[c]
      BY <1>2, <1>3, <2>1
    <3> QED BY <1>9, <3>1
  <2>sunk. Sunk(LateCells, LateCells', a, c)
    <3>1. c # a
      BY <2>1, ParentIsBefore, <1>2
    <3>2. /\ Len(heap') = n /\ heap'[a] = heap[c] /\ heap'[c] = heap[a]
          /\ \A k \in 1 .. n : k # a /\ k # c => heap'[k] = heap[k]
      <4>1. IsSwap(Swap(heap, a, c), heap, a, c)
        BY <1>2, <2>1, SwapCells DEF n
      <4>2. heap' = Swap(heap, a, c) /\ a \in 1 .. n /\ c \in 1 .. n
        BY <1>9, <2>1
      <4> QED BY <3>1, <4>1, <4>2 DEF IsSwap, n
    <3>3. Settled = {}
      BY <1>5, <1>9 DEF Settled
    <3>4. \A k : k \in LateCells <=> k \in 1 .. n /\ heap[k] \in late
      BY DEF LateCells, n
    <3>5. \A k : k \in LateCells' <=> k \in 1 .. n /\ heap'[k] \in late
      BY <1>watch, <3>2, <3>3 DEF LateCells
    <3>6. ASSUME NEW k, k # a, k # c PROVE k \in LateCells' <=> k \in LateCells
      BY <3>2, <3>4, <3>5, <3>6
    <3>7. a \in 1 .. n /\ c \in 1 .. n
      BY <2>1
    <3>8. (a \in LateCells' <=> c \in LateCells) /\ (c \in LateCells' <=> a \in LateCells)
      BY <3>2, <3>4, <3>5, <3>7
    <3> QED BY <3>6, <3>8 DEF Sunk
  <2>3. DownFrom(Swapped(e, n, a, c), n, LateCells', c)
    BY <1>1, <1>2, <2>1, <2>2, <2>sunk, DownRound
  <2>4. Len(heap') = n /\ Expiries(heap', timer') = Swapped(e, n, a, c)
    BY <1>1, <1>2, <1>9, <2>1, SwapExpiries DEF n, e
  <2>5. sift'.dir = "down" /\ sift'.at = c
    BY <1>5, <1>9
  <2> QED BY <2>3, <2>4, <2>5 DEF Shape
<1> QED BY <1>4, <1>8, <1>9

LEMMA ShapeStep ==
  ASSUME IInv, NotAhead, Shape, Watch, [Next]_vars
  PROVE  Shape'
<1>0. TypeOK /\ IInv'
  BY NextIInv DEF IInv
<1>1. ASSUME NEW o \in Owners, StartTimer(o) PROVE Shape'
  BY <1>0, <1>1, StartTimerShape
<1>2. ASSUME NEW o \in Owners, RestartTimer(o) PROVE Shape'
  BY <1>0, <1>2, RestartTimerShape
<1>3. ASSUME NEW o \in Owners, StopContext(o) PROVE Shape'
  <2>1. \A s \in Slots : timer'[s].expiry = timer[s].expiry
    BY <1>0, <1>3 DEF StopContext, TypeOK, Timers
  <2> QED BY <1>0, <1>3, <2>1, KeptShape DEF StopContext
<1>4. CASE SweepDiscard
  BY <1>0, <1>4, PopShape DEF SweepDiscard, Sweeping
<1>5. CASE SweepFire
  <2>1. \A s \in Slots : timer'[s].expiry = timer[s].expiry
    <3>1. timer' = timer \/ \E r : timer' = [timer EXCEPT ![r].enabled = FALSE]
      BY <1>5 DEF SweepFire
    <3>2. ASSUME NEW r, NEW s \in Slots
          PROVE  [timer EXCEPT ![r].enabled = FALSE][s].expiry = timer[s].expiry
      BY <1>0 DEF TypeOK, Timers
    <3>3. CASE timer' = timer
      BY <3>3
    <3>4. CASE \E r : timer' = [timer EXCEPT ![r].enabled = FALSE]
      <4>1. PICK r : timer' = [timer EXCEPT ![r].enabled = FALSE]
        BY <3>4
      <4> QED BY <3>2, <4>1
    <3> QED BY <3>1, <3>3, <3>4
  <2>2. CASE UNCHANGED <<heap, sift>>
    BY <1>0, <2>1, <2>2, KeptShape
  <2>3. CASE ~UNCHANGED <<heap, sift>>
    BY <1>0, <1>5, <2>1, <2>3, PopShape DEF SweepFire, Sweeping, RootExpired
  <2> QED BY <2>2, <2>3
<1>6. CASE Loops
  BY <1>0, <1>6, SiftUpShape, SiftDownShape DEF Loops
<1>7. CASE BeginSweep \/ EndSweep \/ Tick \/ UNCHANGED vars
  <2>1. UNCHANGED <<heap, timer, sift>>
    BY <1>7 DEF BeginSweep, EndSweep, Tick, vars
  <2> QED BY <1>0, <2>1, KeptShape
<1> QED
  BY <1>1, <1>2, <1>3, <1>4, <1>5, <1>6, <1>7 DEF Next, Sweep

(* A restart sets an expiry to the latest it may have, and the clock only  *)
(* moves on; no context's timer is another's.                              *)
LEMMA NotAheadStep ==
  ASSUME IInv, NotAhead, [Next]_vars
  PROVE  NotAhead'
<1>0. TypeOK /\ HandlesAreLive
  BY DEF IInv
<1>1. SUFFICES ASSUME NEW p \in Owners, handle'[p] # NULL
               PROVE  timer'[handle'[p]].expiry <= now' + Delay[p]
  BY DEF NotAhead
<1>2. handle[p] # NULL => /\ handle[p] \in Slots /\ timer[handle[p]].expiry <= now + Delay[p]
                          /\ timer[handle[p]].expiry \in Nat
  BY <1>0 DEF NotAhead, TypeOK, Timers
<1>3. now \in Nat /\ Delay[p] \in Nat
  BY <1>0, DelayAssumption DEF TypeOK
<1>4. ASSUME NEW o \in Owners, StartTimer(o) PROVE timer'[handle'[p]].expiry <= now' + Delay[p]
  <2>1. CASE UNCHANGED <<timer, handle>>
    BY <1>1, <1>2, <1>4, <2>1 DEF StartTimer
  <2>2. CASE ~UNCHANGED <<timer, handle>>
    <3>1. PICK s \in Slots : /\ IsFirstFree(s) /\ HeapAdd(s, NewTimer(o))
                             /\ handle' = [handle EXCEPT ![o] = s]
      BY <1>4, <2>2 DEF StartTimer
    <3>2. ~used[s] /\ timer' = [timer EXCEPT ![s] = NewTimer(o)] /\ now' = now
      BY <1>4, <3>1 DEF IsFirstFree, HeapAdd, StartTimer
    <3>3. CASE p = o
      BY <1>0, <1>3, <3>1, <3>2, <3>3 DEF NewTimer, TypeOK
    <3>4. CASE p # o
      <4>1. handle'[p] = handle[p] /\ handle[p] # s
        BY <1>0, <1>1, <3>1, <3>2, <3>4 DEF TypeOK, HandlesAreLive
      <4> QED BY <1>0, <1>1, <1>2, <3>2, <4>1 DEF TypeOK
    <3> QED BY <3>3, <3>4
  <2> QED BY <2>1, <2>2
<1>5. ASSUME NEW o \in Owners, RestartTimer(o) PROVE timer'[handle'[p]].expiry <= now' + Delay[p]
  <2>1. /\ timer' = [timer EXCEPT ![handle[o]] = NewTimer(o)] /\ UNCHANGED <<handle, now>>
        /\ handle[o] \in Slots /\ handle[o] # NULL
    BY <1>0, <1>5 DEF RestartTimer, TypeOK
  <2>2. CASE p = o
    BY <1>0, <1>3, <2>1, <2>2 DEF NewTimer, TypeOK
  <2>3. CASE p # o
    <3>1. handle[p] # handle[o]
      BY <1>0, <1>1, <2>1, <2>3 DEF HandlesAreLive
    <3> QED BY <1>0, <1>1, <1>2, <2>1, <3>1 DEF TypeOK
  <2> QED BY <2>2, <2>3
<1>6. ASSUME \A s \in Slots : timer'[s].expiry = timer[s].expiry,
             handle'[p] = handle[p], now <= now', now' \in Nat
      PROVE  timer'[handle'[p]].expiry <= now' + Delay[p]
  BY <1>1, <1>2, <1>3, <1>6
<1>7. ASSUME NEW o \in Owners, StopContext(o) PROVE timer'[handle'[p]].expiry <= now' + Delay[p]
  <2>1. \A s \in Slots : timer'[s].expiry = timer[s].expiry
    BY <1>0, <1>7 DEF StopContext, TypeOK, Timers
  <2>2. handle'[p] = handle[p] /\ now' = now
    BY <1>0, <1>1, <1>7 DEF StopContext, TypeOK
  <2> QED BY <1>3, <1>6, <2>1, <2>2
<1>8. CASE SweepFire
  <2>1. CASE UNCHANGED <<timer, handle>>
    BY <1>3, <1>6, <1>8, <2>1 DEF SweepFire
  <2>2. CASE ~UNCHANGED <<timer, handle>>
    <3>1. PICK o : /\ timer' = [timer EXCEPT ![handle[o]].enabled = FALSE]
                   /\ handle' = [handle EXCEPT ![o] = NULL]
      BY <1>8, <2>2 DEF SweepFire
    <3>2. \A s \in Slots : timer'[s].expiry = timer[s].expiry
      BY <1>0, <3>1 DEF TypeOK, Timers
    <3>3. handle'[p] = handle[p] /\ now' = now
      BY <1>0, <1>1, <1>8, <3>1 DEF SweepFire, TypeOK
    <3> QED BY <1>3, <1>6, <3>2, <3>3
  <2> QED BY <2>1, <2>2
<1>9. CASE BeginSweep \/ SweepDiscard \/ EndSweep \/ Loops \/ Tick \/ UNCHANGED vars
  <2>1. UNCHANGED <<timer, handle>> /\ now <= now' /\ now' \in Nat
    BY <1>3, <1>9 DEF BeginSweep, SweepDiscard, EndSweep, Loops, SiftUp, SiftDown, Tick, vars
  <2> QED BY <1>6, <2>1
<1> QED
  BY <1>4, <1>5, <1>7, <1>8, <1>9 DEF Next, Sweep

(* The root of an idle heap expires before every timer that no late timer  *)
(* lies above.                                                             *)
LEMMA RootBeforeVisible ==
  ASSUME IInv, Shape, Idle, NEW i \in Visible
  PROVE  /\ heap # <<>> /\ i \in 1 .. Len(heap)
         /\ ExpiryAt(1) <= ExpiryAt(i) /\ ExpiryAt(i) \in Nat /\ ExpiryAt(1) \in Nat
<1> DEFINE n == Len(heap)
           e == Expiries(heap, timer)
<1>1. /\ n \in Nat /\ heap \in Seq(Slots) /\ e \in [1 .. n -> Nat]
      /\ InOrder(e, n, LateCells)
  BY ExpiriesType DEF IInv, Shape, Idle
<1>2. \A k \in 1 .. n : ExpiryAt(k) = e[k] /\ e[k] \in Nat
  BY <1>1 DEF Expiries, ExpiryAt
<1>3. PICK S \in SUBSET (1 .. n) :
        /\ i \in S
        /\ \A k \in S : k = 1 \/ (Parent(k) \in S /\ heap[Parent(k)] \notin late)
  BY DEF Visible
<1>4. \A k \in S : k = 1 \/ (Parent(k) \in S /\ Parent(k) \notin LateCells)
  BY <1>3 DEF LateCells
<1>5. i \in 1 .. n /\ 1 \in 1 .. n
  BY <1>1, <1>3
<1>6. heap # <<>>
  BY <1>5, EmptySeq
<1> HIDE DEF n, e
<1>7. e[1] <= e[i]
  BY <1>1, <1>3, <1>4, RootIsEarliest
<1> QED BY <1>2, <1>5, <1>6, <1>7 DEF n

-----------------------------------------------------------------------------
(***************************************************************************)
(* The loop.                                                               *)
(***************************************************************************)
(* Every step of the loop is a step of the timer heap, or leaves it alone. *)
LEMMA LoopStepIsTimerStep == [LoopNext]_loopVars => [Next]_vars
<1> SUFFICES ASSUME [LoopNext]_loopVars PROVE [Next]_vars
  OBVIOUS
<1>1. CASE Poll \/ WakeTimeout \/ WakeEvents \/ WakeError \/ EndBatch \/ UNCHANGED loopVars
  BY <1>1 DEF Poll, WakeTimeout, WakeEvents, WakeError, EndBatch, loopVars
<1>2. CASE Handler
  BY <1>2 DEF Handler, Next
<1>3. CASE TimersBegin \/ TimersStep \/ TimersEnd
  BY <1>3 DEF TimersBegin, TimersStep, TimersEnd, Next, Sweep
<1>4. CASE HeapLoops \/ Clock
  BY <1>4 DEF HeapLoops, Clock, Next
<1> QED
  BY <1>1, <1>2, <1>3, <1>4 DEF LoopNext, ThreadStep

(* The loop refines the timer heap: main.c composes process_events and     *)
(* process_timers without ever stepping the heap outside their protocol.   *)
LEMMA LoopImplementsTimers == LoopSpec => Spec
<1>1. LoopInit => Init BY DEF LoopInit
<1> QED BY <1>1, LoopStepIsTimerStep, PTL DEF LoopSpec, Spec

(* So no timeout handler of the loop ever runs on a freed context.         *)
THEOREM LoopTimeoutsAreSafe == LoopSpec => []NoTimeoutAfterStop
BY LoopImplementsTimers, TimeoutsAreSafe, PTL

(* And every context of the loop has its own live timer.                   *)
THEOREM LoopHandlesNeverStale == LoopSpec => []HandlesAreLive
BY LoopImplementsTimers, HandlesNeverStale, PTL

(* What LoopTypeOK adds to TypeOK.                                         *)
PhaseOK ==
  /\ phase \in Phases
  /\ wakeAt \in Nat \cup {Forever}
  /\ sweep # NULL => phase = "timers"

(* When the root is there, its expiry is a number.                         *)
LEMMA TimeoutType ==
  ASSUME TypeOK PROVE Timeout \in Int
<1>1. CASE heap = <<>>
  BY <1>1, DefaultTimeoutAssumption DEF Timeout
<1>2. CASE heap # <<>>
  <2>1. heap[1] \in Slots
    BY <1>2, EmptySeq, ElementOfSeq DEF TypeOK
  <2>2. ExpiryAt(1) - now \in Int
    BY <2>1 DEF ExpiryAt, TypeOK, Timers
  <2> QED BY <2>2, DefaultTimeoutAssumption DEF Timeout
<1> QED BY <1>1, <1>2

LEMMA PhaseStep ==
  ASSUME TypeOK, PhaseOK, [LoopNext]_loopVars
  PROVE  PhaseOK'
<1> USE DEF PhaseOK, Phases, Forever
<1>1. CASE Poll
  <2>1. Timeout \in Int /\ now \in Nat
    BY TimeoutType DEF TypeOK
  <2>2. wakeAt' \in Nat \cup {-1}
    BY <1>1, <2>1 DEF Poll
  <2> QED BY <1>1, <2>2 DEF Poll, vars
<1>2. CASE WakeTimeout \/ WakeEvents \/ WakeError \/ EndBatch \/ UNCHANGED loopVars
  BY <1>2 DEF WakeTimeout, WakeEvents, WakeError, EndBatch, loopVars, vars
<1>3. CASE Handler
  BY <1>3 DEF Handler, StartTimer, RestartTimer, StopContext
<1>4. CASE TimersBegin \/ TimersStep \/ TimersEnd
  BY <1>4 DEF TimersBegin, TimersStep, TimersEnd, BeginSweep, SweepDiscard, SweepFire, EndSweep
<1>5. CASE HeapLoops \/ Clock
  BY <1>5 DEF HeapLoops, Clock, Loops, SiftUp, SiftDown, Tick
<1> QED
  BY <1>1, <1>2, <1>3, <1>4, <1>5 DEF LoopNext, ThreadStep

(* The sweep runs in its own phase of the loop, never beside a handler.    *)
THEOREM LoopTypeCorrect == LoopSpec => []LoopTypeOK
<1>1. LoopInit => PhaseOK
  BY DEF LoopInit, Init, PhaseOK, Phases, Forever
<1>2. LoopSpec => []TypeOK
  BY LoopImplementsTimers, TypeCorrect, PTL
<1>3. TypeOK /\ PhaseOK /\ [LoopNext]_loopVars => PhaseOK'
  BY PhaseStep
<1>4. LoopSpec => []PhaseOK
  BY <1>1, <1>2, <1>3, PTL DEF LoopSpec
<1>5. TypeOK /\ PhaseOK => LoopTypeOK
  BY DEF PhaseOK, LoopTypeOK
<1> QED BY <1>2, <1>4, <1>5, PTL

(***************************************************************************)
(* The loop with its history.                                              *)
(***************************************************************************)
LEMMA HistIsLoop == HistSpec => LoopSpec
<1>1. HistInit => LoopInit
  BY DEF HistInit
<1>2. [HistNext]_histVars => [LoopNext]_loopVars
  BY DEF HistNext, histVars
<1> QED BY <1>1, <1>2, PTL DEF HistSpec, LoopSpec

HistInv == IInv /\ NotAhead /\ Shape

LEMMA HistStep ==
  ASSUME HistInv, [HistNext]_histVars
  PROVE  HistInv'
<1>1. [Next]_vars
  BY LoopStepIsTimerStep DEF HistNext, histVars, loopVars
<1>2. IInv' /\ NotAhead'
  BY <1>1, NextIInv, NotAheadStep DEF HistInv
<1>3. CASE HistNext
  BY <1>1, <1>2, <1>3, ShapeStep DEF HistInv, HistNext
<1>4. CASE UNCHANGED histVars
  <2>1. UNCHANGED <<heap, timer, sift, late>>
    BY <1>4 DEF histVars, loopVars, vars
  <2> QED BY <1>2, <2>1 DEF HistInv, Shape, LateCells
<1> QED BY <1>3, <1>4

LEMMA HistInvariance == HistSpec => []HistInv
<1>1. HistInit => HistInv
  <2> SUFFICES ASSUME HistInit PROVE HistInv
    OBVIOUS
  <2>1. Init
    BY DEF HistInit, LoopInit
  <2>2. heap = <<>> /\ sift.dir = "none" /\ \A o \in Owners : handle[o] = NULL
    BY <2>1 DEF Init, NoSift
  <2> QED BY <2>1, <2>2, InitIInv DEF HistInv, Shape, InOrder, NotAhead
<1> QED BY <1>1, HistStep, PTL DEF HistSpec

(* A restart disorders the array only below the timer it restarts: every   *)
(* other timer of time.c expires no later than its two children between    *)
(* operations, for every capacity, every delay and any restarts.           *)
THEOREM OrderHoldsUpToRestarts == HistSpec => []OrderUpToRestarts
<1>1. HistInv => OrderUpToRestarts
  <2> SUFFICES ASSUME HistInv, Idle, NEW i \in 2 .. Len(heap), heap[Parent(i)] \notin late
               PROVE  ExpiryAt(Parent(i)) <= ExpiryAt(i)
    BY DEF OrderUpToRestarts
  <2> DEFINE e == Expiries(heap, timer)
  <2>1. Len(heap) \in Nat /\ InOrder(e, Len(heap), LateCells)
    BY ExpiriesType DEF HistInv, IInv, Shape, Idle
  <2>2. Parent(i) \in 1 .. Len(heap) /\ i \in 1 .. Len(heap)
    BY <2>1, ParentIsBefore
  <2>3. ExpiryAt(i) = e[i] /\ ExpiryAt(Parent(i)) = e[Parent(i)]
    BY <2>2 DEF Expiries, ExpiryAt
  <2>4. Parent(i) \notin LateCells
    BY DEF LateCells
  <2> QED BY <2>1, <2>3, <2>4 DEF InOrder
<1> QED BY <1>1, HistInvariance, PTL

(* When epoll_process_timers stops at a root that is enabled and has not   *)
(* expired, nothing that no late timer lies above has expired either.      *)
THEOREM SweepsReachVisible == HistSpec => SweepReachesVisible
<1>1. HistInv /\ EndSweep =>
        \A i \in Visible : timer[heap[i]].enabled => ExpiryAt(i) > sweep
  <2> SUFFICES ASSUME HistInv, EndSweep, NEW i \in Visible
               PROVE  ExpiryAt(i) > sweep
    OBVIOUS
  <2>1. Idle /\ sweep \in Nat
    BY DEF HistInv, IInv, TypeOK, EndSweep, Sweeping
  <2>2. /\ heap # <<>> /\ ExpiryAt(1) <= ExpiryAt(i)
        /\ ExpiryAt(i) \in Nat /\ ExpiryAt(1) \in Nat
    BY <2>1, RootBeforeVisible DEF HistInv
  <2>3. ExpiryAt(1) > sweep
    BY <2>2 DEF EndSweep
  <2> QED BY <2>1, <2>2, <2>3
<1> QED BY <1>1, HistInvariance, PTL DEF SweepReachesVisible

(* No sift loop runs while the thread polls or waits.                      *)
PollsIdle == phase \in {"poll", "wait"} => Idle

LEMMA PollsIdleStep ==
  ASSUME PollsIdle, [LoopNext]_loopVars
  PROVE  PollsIdle'
<1> USE DEF PollsIdle, Idle
<1>1. CASE Poll
  BY <1>1 DEF Poll, vars
<1>2. CASE WakeTimeout \/ WakeEvents \/ WakeError \/ EndBatch \/ UNCHANGED loopVars
  BY <1>2 DEF WakeTimeout, WakeEvents, WakeError, EndBatch, loopVars, vars
<1>3. CASE Handler
  BY <1>3 DEF Handler
<1>4. CASE TimersBegin \/ TimersStep
  BY <1>4 DEF TimersBegin, TimersStep
<1>5. CASE TimersEnd
  BY <1>5 DEF TimersEnd, EndSweep, Sweeping
<1>6. CASE HeapLoops
  BY <1>6 DEF HeapLoops, Loops, SiftUp, SiftDown
<1>7. CASE Clock
  BY <1>7 DEF Clock, Tick
<1> QED
  BY <1>1, <1>2, <1>3, <1>4, <1>5, <1>6, <1>7 DEF LoopNext, ThreadStep

(* Nothing but the clock moves while the thread polls and waits, so no     *)
(* timer comes into view.                                                  *)
LEMMA StillVisible ==
  ASSUME IInv, IInv', Watch \/ UNCHANGED late, UNCHANGED <<heap, timer, sift>>
  PROVE  Visible' \subseteq Visible
<1>1. \A k \in 1 .. Len(heap) : heap[k] \in late <=> heap[k] \in late'
  <2>1. CASE UNCHANGED late
    BY <2>1
  <2>2. CASE Watch
    <3>1. Restarted = {}
      BY DEF Restarted
    <3>2. \A k \in 1 .. Len(heap) : k \in LateCells' <=> heap[k] \in late
      BY <2>2, <3>1, WatchedIdle
    <3> QED BY <3>2 DEF LateCells
  <2> QED BY <2>1, <2>2
<1>2. ASSUME NEW i \in Visible' PROVE i \in Visible
  <2>1. PICK S \in SUBSET (1 .. Len(heap)) :
          /\ i \in S
          /\ \A k \in S : k = 1 \/ (Parent(k) \in S /\ heap[Parent(k)] \notin late')
    BY DEF Visible
  <2>2. \A k \in S : k = 1 \/ (Parent(k) \in S /\ heap[Parent(k)] \notin late)
    BY <1>1, <2>1
  <2> QED BY <2>1, <2>2 DEF Visible
<1> QED BY <1>2

LEMMA NoOversleepStep ==
  ASSUME HistInv, HistInv', PollsIdle, NoOversleep, [HistNext]_histVars
  PROVE  NoOversleep'
<1>0. LoopNext \/ UNCHANGED loopVars
  BY DEF HistNext, histVars
<1>seen. UNCHANGED <<heap, timer, sift>> => Visible' \subseteq Visible
  BY StillVisible DEF HistInv, HistNext, histVars
<1>1. CASE Poll
  <2>1. UNCHANGED <<heap, timer, sift>> /\ Idle
        /\ wakeAt' = IF Timeout < 0 THEN Forever ELSE now + Timeout
    BY <1>1 DEF Poll, vars, PollsIdle
  <2>2. SUFFICES ASSUME wakeAt' # Forever, NEW i \in Visible'
                 PROVE  wakeAt' <= ExpiryAt(i)
    BY <2>1 DEF NoOversleep, ExpiryAt
  <2>3. wakeAt' = now + Timeout
    BY <2>1, <2>2
  <2>4. i \in Visible
    BY <1>seen, <2>1
  <2>5. /\ heap # <<>> /\ ExpiryAt(1) <= ExpiryAt(i)
        /\ ExpiryAt(i) \in Nat /\ ExpiryAt(1) \in Nat /\ now \in Nat
    BY <2>1, <2>4, RootBeforeVisible DEF HistInv, IInv, TypeOK
  <2>6. Timeout \in Int /\ Timeout <= ExpiryAt(1) - now
    BY <2>5, DefaultTimeoutAssumption DEF Timeout
  <2> QED BY <2>3, <2>5, <2>6
<1>2. CASE WakeTimeout \/ WakeEvents \/ WakeError \/ EndBatch
  BY <1>2 DEF WakeTimeout, WakeEvents, WakeError, EndBatch, NoOversleep
<1>3. CASE Handler
  BY <1>3 DEF Handler, NoOversleep
<1>4. CASE TimersBegin \/ TimersStep \/ TimersEnd
  BY <1>4 DEF TimersBegin, TimersStep, TimersEnd, NoOversleep
<1>5. CASE HeapLoops
  BY <1>5 DEF HeapLoops, Loops, SiftUp, SiftDown, PollsIdle, Idle, NoOversleep
<1>6. CASE Clock \/ UNCHANGED loopVars
  <2>1. UNCHANGED <<heap, timer, sift, phase, wakeAt>>
    BY <1>6 DEF Clock, Tick, loopVars, vars
  <2> QED BY <1>seen, <2>1 DEF NoOversleep, ExpiryAt
<1> QED
  BY <1>0, <1>1, <1>2, <1>3, <1>4, <1>5, <1>6 DEF LoopNext, ThreadStep

(* epoll_wait is never given a bounded timeout that outlasts an enabled    *)
(* timer that no late timer lies above, whatever is restarted.             *)
THEOREM LoopNeverOversleeps == HistSpec => []NoOversleep
<1>1. HistInit => PollsIdle /\ NoOversleep
  BY DEF HistInit, LoopInit, Init, PollsIdle, Idle, NoSift, NoOversleep
<1>2. PollsIdle /\ [LoopNext]_loopVars => PollsIdle'
  BY PollsIdleStep
<1>3. HistSpec => []PollsIdle
  BY <1>1, <1>2, HistIsLoop, PTL DEF LoopSpec, HistSpec
<1>4. HistInv /\ HistInv' /\ PollsIdle /\ NoOversleep /\ [HistNext]_histVars => NoOversleep'
  BY NoOversleepStep
<1> QED BY <1>1, <1>3, <1>4, HistInvariance, PTL DEF HistSpec
=============================================================================
