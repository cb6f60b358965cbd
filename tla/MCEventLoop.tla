---------------------------- MODULE MCEventLoop ----------------------------
(* Instances of the main loop, with its history, for TLC.                  *)
EXTENDS TimerHistory

CONSTANTS c1, c2, c3

MCOwners == {c1, c2, c3}
MCPair   == {c1, c2}

(* Unequal delays, so that expiries come out of start order.               *)
MCDelay == [o \in Owners |-> IF o = c1 THEN 2 ELSE 1]

(* An endless clock in a bounded range: between two sweeps the origin of   *)
(* time moves up to now - 1.  The code only compares times, and what lies  *)
(* in the past stays there; so restarts never end for want of clock.       *)
Since(t) == IF t < now THEN 0 ELSE t - (now - 1)

Rebase ==
  /\ Running /\ Idle /\ sweep = NULL /\ now > 1
  /\ now'    = Since(now)
  /\ timer'  = [s \in Slots |-> [timer[s] EXCEPT !.expiry = Since(@)]]
  /\ wakeAt' = IF wakeAt = Forever THEN Forever ELSE Since(wakeAt)
  /\ UNCHANGED <<heap, used, sift, handle, sweep, fault, phase, late>>

EndlessNext == HistNext \/ Rebase

EndlessSpec ==
  HistInit /\ [][EndlessNext]_histVars /\ LoopFairness /\ WF_histVars(Rebase)
=============================================================================
