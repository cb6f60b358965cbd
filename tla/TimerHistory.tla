--------------------------- MODULE TimerHistory ---------------------------
(***************************************************************************)
(* The main loop with a history variable, for the properties of the timer  *)
(* heap that survive restarts in place.  Every context that sees traffic   *)
(* restarts its timer without moving it (reschedule_timer), so the array   *)
(* of jk_th_add and jk_th_pop is not a min-heap for long.  `late` names    *)
(* the timers that may expire after a timer below them.  It only watches   *)
(* the loop: no step of EventLoop is added, dropped or changed.            *)
(*                                                                         *)
(* A timer is late from its restart on, and two cells that swap while a    *)
(* new timer climbs are late when one of them is.  It stops being late     *)
(* when the loop of jk_th_pop leaves it at its place, or when its slot     *)
(* goes back to the pool.                                                  *)
(***************************************************************************)
EXTENDS EventLoop

VARIABLE late   (* The slots of the late timers.                           *)

histVars == <<loopVars, late>>

Restarted == {s \in Slots : used[s] /\ timer'[s].expiry # timer[s].expiry}

Passed ==
  LET pair == {heap[sift.at], heap[Parent(sift.at)]} IN
  IF sift.dir = "up" /\ heap' # heap /\ pair \cap late # {} THEN pair ELSE {}

Settled ==
  IF sift.dir = "down" /\ sift'.dir = "none" /\ sift.at <= Len(heap)
    THEN {heap[sift.at]} ELSE {}

Watch == late' = {s \in (late \cup Restarted \cup Passed) \ Settled : used'[s]}

HistInit == LoopInit /\ late = {}
HistNext == LoopNext /\ Watch
HistSpec == HistInit /\ [][HistNext]_histVars

-----------------------------------------------------------------------------
(* The cells that no late timer lies above.                                *)
Visible ==
  UNION {S \in SUBSET (1 .. Len(heap)) :
           \A i \in S : i = 1 \/ (Parent(i) \in S /\ heap[Parent(i)] \notin late)}

(* A restart disorders the array only below the timer it restarts: between *)
(* operations every other timer expires no later than its two children,    *)
(* whatever timers were added, popped and restarted around it.             *)
OrderUpToRestarts ==
  Idle => \A i \in 2 .. Len(heap) :
            heap[Parent(i)] \notin late => ExpiryAt(Parent(i)) <= ExpiryAt(i)

(* A sweep that ends leaves no enabled timer behind that had expired when  *)
(* it began, unless a late timer lies above it: one look at the root       *)
(* stands for all the timers that no restart hides.                        *)
SweepReachesVisible ==
  [][EndSweep => \A i \in Visible :
       timer[heap[i]].enabled => ExpiryAt(i) > sweep]_histVars

(* A bounded wait of epoll_wait never outlasts an enabled timer that no    *)
(* late timer lies above: the root stands for them when                    *)
(* epoll_process_events computes its timeout.                              *)
NoOversleep ==
  phase = "wait" /\ wakeAt # Forever =>
    \A i \in Visible : timer[heap[i]].enabled => wakeAt <= ExpiryAt(i)

(* The two ways the code loses a timeout: the owner's timer lies below one *)
(* that was restarted in place, or a root that expired between the sweep   *)
(* and the next Poll makes epoll_wait block for ever.                      *)
Hidden(o)      == handle[o] # NULL /\ \A i \in Visible : heap[i] # handle[o]
BlockedForever == phase = "wait" /\ wakeAt = Forever

(* They are the only two: a context that falls silent and whose timer does *)
(* not stay hidden ends, by its timeout or by its handler, whatever the    *)
(* others do, provided that a wait without end is always broken.           *)
SilentContextsEnd ==
  \A o \in Owners :
    <>[][~RestartTimer(o)]_vars /\ <>[]~Hidden(o) /\ []<>~BlockedForever =>
      (handle[o] # NULL ~> handle[o] = NULL \/ ~Running)
=============================================================================
