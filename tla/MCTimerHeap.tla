---------------------------- MODULE MCTimerHeap ----------------------------
(* Instances of TimerHeap for TLC.                                         *)
EXTENDS TimerHeap

CONSTANTS c1, c2

MCPair == {c1, c2}
MCOne  == {c1}

(* Unequal delays, so that expiries come out of start order.               *)
MCDelay == [o \in Owners |-> IF o = c1 THEN 2 ELSE 1]
=============================================================================
