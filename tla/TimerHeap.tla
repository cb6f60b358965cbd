------------------------------ MODULE TimerHeap ------------------------------
(***************************************************************************)
(* The timer heap of jkdns: src/core/time.c, the timer sweep of            *)
(* epoll_process_timers (src/os/linux/backends/epoll_backend.c) and the    *)
(* three ways a connection context uses its timer (start, restart in       *)
(* place, disable), as src/echo/echo_handler.c does.                       *)
(*                                                                         *)
(* A timer lives in a slot of a fixed pool; the heap is an array of        *)
(* pointers to pool slots.  A context keeps a bare pointer to its slot.    *)
(* Restarting a timer writes a new expiry into the slot and leaves the     *)
(* heap array as it is; disabling one clears a flag, and the slot goes     *)
(* back to the pool only when the sweep pops it from the root.             *)
(*                                                                         *)
(* The loops of jk_th_add and jk_th_pop swap two array cells per           *)
(* iteration.  One iteration is one step here, and while such a loop runs  *)
(* (Idle is FALSE) no other step of the program can be taken.              *)
(***************************************************************************)
EXTENDS Integers, Sequences, FiniteSets

CONSTANTS
  Owners,    (* Contexts that may own a timer.                             *)
  Active,    (* The owners whose connection sees traffic after the first   *)
             (* event, which restarts their timer.                         *)
  Capacity,  (* th->capacity and pool.capacity (4096 in main).             *)
  Delay,     (* The timeout of each owner, in clock units.                 *)
  MaxTime,   (* Bound of the clock, for model checking.                    *)
  NULL

ASSUME CapacityAssumption == Capacity \in Nat \ {0}
ASSUME OwnersAssumption   == Active \subseteq Owners
ASSUME DelayAssumption    == Delay \in [Owners -> Nat] /\ MaxTime \in Nat
ASSUME NullAssumption     == NULL \notin Int /\ NULL \notin Owners

VARIABLES
  heap,    (* th->data[0 .. size-1], as a sequence of slots: heap[i+1].    *)
  timer,   (* th->pool.data: the timer record stored in each slot.         *)
  used,    (* th->pool.used.                                               *)
  sift,    (* Local idx of the running sift loop, and its direction.       *)
  handle,  (* ctx->timer of each owner, NULL when it has no context.       *)
  now,     (* jk_now().                                                    *)
  sweep,   (* Local `now` of epoll_process_timers, NULL outside of it.     *)
  fault    (* A failed CHECK_INVARIANT or an access to freed memory.       *)

vars == <<heap, timer, used, sift, handle, now, sweep, fault>>

Slots  == 0 .. Capacity - 1
Timers == [expiry : Nat, enabled : BOOLEAN, data : Owners \cup {NULL}]
Faults == {"none", "pool", "exhausted", "freed"}

NoSift == [dir |-> "none", at |-> 0]
Idle   == sift.dir = "none"

(* Nothing runs once the process has aborted.                              *)
Running == fault = "none"

(* Code that is not inside a sift loop and not inside the timer sweep:     *)
(* the event handlers.                                                     *)
InHandler == Running /\ Idle /\ sweep = NULL

ExpiryAt(i) == timer[heap[i]].expiry

(***************************************************************************)
(* Helpers of the heap array.  Indices count from 1: the code's parent     *)
(* (idx - 1) / 2 and children 2 * idx + 1 and + 2 become the ones below.   *)
(***************************************************************************)
Parent(i) == i \div 2
Swap(h, i, j) == [h EXCEPT ![i] = h[j], ![j] = h[i]]

(* Mutant of SmallestChild: takes the child with the later expiry.         *)
LargestChild(i) ==
  IF 2 * i + 1 <= Len(heap) /\ ExpiryAt(2 * i + 1) > ExpiryAt(2 * i)
    THEN 2 * i + 1 ELSE 2 * i

SmallestChild(i) ==
  IF 2 * i + 1 <= Len(heap) /\ ExpiryAt(2 * i + 1) <= ExpiryAt(2 * i)
    THEN 2 * i + 1 ELSE 2 * i

(* get_new_timer scans the pool for the first slot that is not in use.     *)
IsFirstFree(s) == ~used[s] /\ \A r \in Slots : r < s => used[r]

(***************************************************************************)
(* jk_th_add, up to its loop: a slot is taken from the pool, filled, and   *)
(* put after the last element.  The loop then runs from there (SiftUp).    *)
(***************************************************************************)
(* Mutant of HeapAdd: the slot is not marked as used.                      *)
HeapAddUnmarked(s, t) ==
  /\ used'  = used
  /\ timer' = [timer EXCEPT ![s] = t]
  /\ heap'  = Append(heap, s)
  /\ sift'  = [dir |-> "up", at |-> Len(heap) + 1]

HeapAdd(s, t) ==
  /\ used'  = [used EXCEPT ![s] = TRUE]
  /\ timer' = [timer EXCEPT ![s] = t]
  /\ heap'  = Append(heap, s)
  /\ sift'  = [dir |-> "up", at |-> Len(heap) + 1]

(* One iteration of the loop of jk_th_add.                                 *)
SiftUp ==
  /\ Running /\ sift.dir = "up"
  /\ LET i == sift.at
         p == Parent(i)
     IN  IF i = 1 \/ ExpiryAt(p) <= ExpiryAt(i)
           THEN heap' = heap /\ sift' = NoSift
           ELSE heap' = Swap(heap, i, p) /\ sift' = [sift EXCEPT !.at = p]
  /\ UNCHANGED <<timer, used, handle, now, sweep, fault>>

(***************************************************************************)
(* jk_th_pop, up to its loop: the root's slot goes back to the pool and    *)
(* the last element takes its place.  The loop then runs from the root.    *)
(***************************************************************************)
(* Mutant of HeapPop: releases the slot of the last element instead.       *)
HeapPopLast ==
  LET n == Len(heap) IN
  /\ used' = [used EXCEPT ![heap[n]] = FALSE]
  /\ heap' = SubSeq([heap EXCEPT ![1] = heap[n]], 1, n - 1)
  /\ sift' = [dir |-> "down", at |-> 1]

HeapPop ==
  LET n == Len(heap) IN
  /\ used' = [used EXCEPT ![heap[1]] = FALSE]
  /\ heap' = SubSeq([heap EXCEPT ![1] = heap[n]], 1, n - 1)
  /\ sift' = [dir |-> "down", at |-> 1]

(* One iteration of the loop of jk_th_pop.                                 *)
SiftDown ==
  /\ Running /\ sift.dir = "down"
  /\ LET i == sift.at
         c == SmallestChild(i)
     IN  IF 2 * i > Len(heap) \/ ExpiryAt(i) <= ExpiryAt(c)
           THEN heap' = heap /\ sift' = NoSift
           ELSE heap' = Swap(heap, i, c) /\ sift' = [sift EXCEPT !.at = c]
  /\ UNCHANGED <<timer, used, handle, now, sweep, fault>>

-----------------------------------------------------------------------------
(* jk_th_create: calloc'ed pool and array.                                 *)
Init ==
  /\ heap   = <<>>
  /\ timer  = [s \in Slots |-> [expiry |-> 0, enabled |-> FALSE, data |-> NULL]]
  /\ used   = [s \in Slots |-> FALSE]
  /\ sift   = NoSift
  /\ handle = [o \in Owners |-> NULL]
  /\ now    = 0
  /\ sweep  = NULL
  /\ fault  = "none"

(***************************************************************************)
(* Event handlers of the owners.                                           *)
(***************************************************************************)
(* Mutant of NewTimer: the delay has the wrong sign.                       *)
PastTimer(o) == [expiry |-> now - Delay[o], enabled |-> TRUE, data |-> o]

(* jk_timer_start: jk_now() + delay_ms.                                    *)
NewTimer(o) == [expiry |-> now + Delay[o], enabled |-> TRUE, data |-> o]

(* start_new_timer for a fresh context.  The pool is asked for a slot only *)
(* if the array has room; then the CHECK "get_new_timer failed" applies.   *)
(* A full array makes jk_th_add return NULL; the context keeps it and the  *)
(* CHECK of reschedule_timer or of destroy_context aborts the handler.     *)
StartTimer(o) ==
  /\ InHandler
  /\ handle[o] = NULL
  /\ IF Len(heap) < Capacity /\ \E s \in Slots : ~used[s]
       THEN \E s \in Slots :
              /\ IsFirstFree(s)
              /\ HeapAdd(s, NewTimer(o))
              /\ handle' = [handle EXCEPT ![o] = s]
              /\ UNCHANGED fault
       ELSE /\ fault' = IF Len(heap) < Capacity THEN "pool" ELSE "exhausted"
            /\ UNCHANGED <<heap, timer, used, sift, handle>>
  /\ UNCHANGED <<now, sweep>>

(* Mutant of RestartTimer: the new expiry is given to whatever timer is at *)
(* the root of the heap.                                                   *)
RestartRoot(o) ==
  /\ InHandler
  /\ o \in Active /\ handle[o] # NULL
  /\ timer' = [timer EXCEPT ![heap[1]] = NewTimer(o)]
  /\ UNCHANGED <<heap, used, sift, handle, now, sweep, fault>>

(* reschedule_timer -> jk_timer_start on the stored pointer: the slot is   *)
(* rewritten where it is and the heap array is not touched.                *)
RestartTimer(o) ==
  /\ InHandler
  /\ o \in Active /\ handle[o] # NULL
  /\ timer' = [timer EXCEPT ![handle[o]] = NewTimer(o)]
  /\ UNCHANGED <<heap, used, sift, handle, now, sweep, fault>>

(* Mutant of StopContext: the timer of the freed context stays enabled.    *)
StopContextArmed(o) ==
  /\ InHandler
  /\ handle[o] # NULL
  /\ handle' = [handle EXCEPT ![o] = NULL]
  /\ UNCHANGED <<heap, timer, used, sift, now, sweep, fault>>

(* stop_echo: the timer is disabled, not removed; the context is freed.    *)
StopContext(o) ==
  /\ InHandler
  /\ handle[o] # NULL
  /\ timer'  = [timer EXCEPT ![handle[o]].enabled = FALSE]
  /\ handle' = [handle EXCEPT ![o] = NULL]
  /\ UNCHANGED <<heap, used, sift, now, sweep, fault>>

(***************************************************************************)
(* epoll_process_timers: the clock is read once, then the root is handled  *)
(* until it is neither disabled nor expired.                               *)
(***************************************************************************)
BeginSweep ==
  /\ InHandler
  /\ sweep' = now
  /\ UNCHANGED <<heap, timer, used, sift, handle, now, fault>>

Sweeping == Running /\ Idle /\ sweep # NULL

SweepDiscard ==
  /\ Sweeping
  /\ heap # <<>> /\ ~timer[heap[1]].enabled
  /\ HeapPop
  /\ UNCHANGED <<timer, handle, now, sweep, fault>>

RootExpired == heap # <<>> /\ timer[heap[1]].enabled /\ ExpiryAt(1) <= sweep

(* The timeout handler frees the context of the timer's owner, after which *)
(* the root is popped; an owner without a context is freed memory.         *)
SweepFire ==
  /\ Sweeping /\ RootExpired
  /\ LET o == timer[heap[1]].data IN
       IF handle[o] = NULL
         THEN /\ fault' = "freed"
              /\ UNCHANGED <<heap, timer, used, sift, handle>>
         ELSE /\ timer'  = [timer EXCEPT ![handle[o]].enabled = FALSE]
              /\ handle' = [handle EXCEPT ![o] = NULL]
              /\ HeapPop
              /\ UNCHANGED fault
  /\ UNCHANGED <<now, sweep>>

(* Mutant of EndSweep: the sweep stops after any one timer.                *)
EndSweepEarly ==
  /\ Sweeping
  /\ sweep' = NULL
  /\ UNCHANGED <<heap, timer, used, sift, handle, now, fault>>

EndSweep ==
  /\ Sweeping
  /\ heap # <<>> => timer[heap[1]].enabled /\ ExpiryAt(1) > sweep
  /\ sweep' = NULL
  /\ UNCHANGED <<heap, timer, used, sift, handle, now, fault>>

(* The monotonic clock goes on whatever the program does.                  *)
Tick ==
  /\ Running /\ now < MaxTime
  /\ now' = now + 1
  /\ UNCHANGED <<heap, timer, used, sift, handle, sweep, fault>>

Sweep == BeginSweep \/ SweepDiscard \/ SweepFire \/ EndSweep
Loops == SiftUp \/ SiftDown

Next ==
  \/ \E o \in Owners : StartTimer(o) \/ RestartTimer(o) \/ StopContext(o)
  \/ Sweep
  \/ Loops
  \/ Tick

Spec == Init /\ [][Next]_vars

-----------------------------------------------------------------------------
(* The type invariant: every variable stays in its range.  In particular   *)
(* the array never outgrows its capacity, which jk_th_add guards.          *)
TypeOK ==
  /\ heap \in Seq(Slots) /\ Len(heap) <= Capacity
  /\ timer \in [Slots -> Timers]
  /\ used \in [Slots -> BOOLEAN]
  /\ sift \in [dir : {"none", "up", "down"}, at : Nat]
  /\ handle \in [Owners -> Slots \cup {NULL}]
  /\ now \in Nat
  /\ sweep \in Nat \cup {NULL}
  /\ fault \in Faults

(* The array holds each used slot of the pool exactly once and no other:   *)
(* jk_th_add and jk_th_pop, and every swap of their loops, keep the pool   *)
(* and the array together, so a slot is never leaked and never shared.     *)
PoolMatchesHeap ==
  /\ \A i, j \in 1 .. Len(heap) : heap[i] = heap[j] => i = j
  /\ \A s \in Slots : used[s] <=> \E i \in 1 .. Len(heap) : heap[i] = s

(* The bare pointer a context keeps to its timer is never stale: the slot  *)
(* is in use, enabled and its own, through sweeps and slot reuse by other  *)
(* contexts; and every enabled timer belongs to a live context.  These are *)
(* the CHECKs of reschedule_timer.                                         *)
HandlesAreLive ==
  /\ \A o \in Owners : handle[o] # NULL =>
       /\ used[handle[o]]
       /\ timer[handle[o]].enabled
       /\ timer[handle[o]].data = o
  /\ \A s \in Slots : used[s] /\ timer[s].enabled =>
       /\ timer[s].data \in Owners
       /\ handle[timer[s].data] = s

(* A disabled timer holds its slot until it reaches the root, yet the pool *)
(* never runs dry before the array does: the CHECK "get_new_timer failed"  *)
(* of jk_th_add cannot fail.                                               *)
PoolNeverRunsDry == fault # "pool"

(* A timeout handler never runs for a connection that was stopped, however *)
(* long its disabled timer stays in the heap: no use after free.           *)
NoTimeoutAfterStop == fault # "freed"

(* Min-heap order of the array between operations, as jk_th_debug_dump     *)
(* announces it.  It holds as long as no timer is restarted (Active = {}). *)
HeapOrder ==
  Idle => \A i \in 2 .. Len(heap) : ExpiryAt(Parent(i)) <= ExpiryAt(i)

(* A timer is available to every new context: the CHECK on ctx->timer in   *)
(* reschedule_timer never fails for want of a slot.                        *)
TimerAvailable == fault # "exhausted"
=============================================================================
