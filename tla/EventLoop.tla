----------------------------- MODULE EventLoop -----------------------------
(***************************************************************************)
(* The main loop of jkdns (main.c): process_events, then process_timers,   *)
(* for ever, on one thread.  It composes the timer heap with the wait of   *)
(* epoll_process_events, whose timeout is computed from the root timer.    *)
(*                                                                         *)
(* The timer heap steps only where the loop is: contexts start, restart    *)
(* and stop their timers in the handlers of a batch of events, and the     *)
(* sweep runs after them.  The clock and the traffic belong to the         *)
(* environment and go on at any time.                                      *)
(***************************************************************************)
EXTENDS TimerHeap

CONSTANT DefaultTimeout  (* The 10000 ms of epoll_process_events.          *)

ASSUME DefaultTimeoutAssumption == DefaultTimeout \in Nat \ {0}

VARIABLES
  phase,   (* Where the thread is in the loop.                             *)
  wakeAt   (* The time epoll_wait returns at the latest.                   *)

loopVars == <<vars, phase, wakeAt>>

Phases  == {"poll", "wait", "events", "timers"}

(* epoll_wait blocks for ever on a negative timeout.                       *)
Forever == -1

(* Mutant of Timeout: the comparison the wrong way round.                  *)
LaterTimeout ==
  IF heap = <<>> \/ ExpiryAt(1) - now < DefaultTimeout
    THEN DefaultTimeout
    ELSE ExpiryAt(1) - now

(* The timeout handed to epoll_wait: the default one, or the time left     *)
(* until the root timer expires, be it enabled or not.                     *)
Timeout ==
  IF heap = <<>> \/ ExpiryAt(1) - now >= DefaultTimeout
    THEN DefaultTimeout
    ELSE ExpiryAt(1) - now

LoopInit ==
  /\ Init
  /\ phase = "poll" /\ wakeAt = 0

(***************************************************************************)
(* epoll_process_events.                                                   *)
(***************************************************************************)
Poll ==
  /\ Running /\ phase = "poll"
  /\ phase' = "wait"
  /\ wakeAt' = IF Timeout < 0 THEN Forever ELSE now + Timeout
  /\ UNCHANGED vars

(* epoll_wait returns events: their handlers run.                          *)
WakeEvents ==
  /\ Running /\ phase = "wait"
  /\ phase' = "events" /\ wakeAt' = 0
  /\ UNCHANGED vars

(* Mutant of WakeTimeout: waits one unit longer on a zero timeout.         *)
WakeLate ==
  /\ Running /\ phase = "wait"
  /\ wakeAt # Forever /\ now > wakeAt
  /\ phase' = "timers" /\ wakeAt' = 0
  /\ UNCHANGED vars

(* epoll_wait times out: no event, on to the timers.                       *)
WakeTimeout ==
  /\ Running /\ phase = "wait"
  /\ wakeAt # Forever /\ now >= wakeAt
  /\ phase' = "timers" /\ wakeAt' = 0
  /\ UNCHANGED vars

(* epoll_wait fails (EINTR): process_events gives up, the timers run.      *)
WakeError ==
  /\ Running /\ phase = "wait"
  /\ phase' = "timers" /\ wakeAt' = 0
  /\ UNCHANGED vars

(* The handlers of the batch.  A timer is started or restarted only while  *)
(* its expiry is within MaxTime, the bound of the clock.                   *)
Handler ==
  /\ phase = "events"
  /\ \E o \in Owners :
       \/ now + Delay[o] <= MaxTime /\ (StartTimer(o) \/ RestartTimer(o))
       \/ StopContext(o)
  /\ UNCHANGED <<phase, wakeAt>>

EndBatch ==
  /\ Running /\ Idle /\ phase = "events"
  /\ phase' = "timers"
  /\ UNCHANGED <<vars, wakeAt>>

(***************************************************************************)
(* epoll_process_timers.                                                   *)
(***************************************************************************)
TimersBegin ==
  /\ phase = "timers" /\ BeginSweep
  /\ UNCHANGED <<phase, wakeAt>>

TimersStep ==
  /\ phase = "timers" /\ (SweepDiscard \/ SweepFire)
  /\ UNCHANGED <<phase, wakeAt>>

TimersEnd ==
  /\ phase = "timers" /\ EndSweep
  /\ phase' = "poll"
  /\ UNCHANGED wakeAt

HeapLoops == Loops /\ UNCHANGED <<phase, wakeAt>>

Clock == Tick /\ UNCHANGED <<phase, wakeAt>>

(* What the thread does by itself; handlers and events depend on traffic.  *)
ThreadStep ==
  Poll \/ WakeTimeout \/ EndBatch \/ TimersBegin \/ TimersStep \/ TimersEnd \/ HeapLoops

LoopNext == ThreadStep \/ WakeEvents \/ WakeError \/ Handler \/ Clock

LoopSpec == LoopInit /\ [][LoopNext]_loopVars

(* The thread runs when it can, and time passes.                           *)
LoopFairness == WF_loopVars(ThreadStep) /\ WF_loopVars(Clock)

-----------------------------------------------------------------------------
(* The loop stays in its phases, and the sweep runs in the last one only.  *)
LoopTypeOK ==
  /\ TypeOK
  /\ phase \in Phases
  /\ wakeAt \in Nat \cup {Forever}
  /\ sweep # NULL => phase = "timers"
=============================================================================
