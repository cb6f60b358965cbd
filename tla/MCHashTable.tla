---------------------------- MODULE MCHashTable ----------------------------
(* Instances of HashTable for TLC.  Two keys have one home in every        *)
(* capacity, the last slot, so that their chain goes round the end of the  *)
(* array into the home of the third.  The fourth can close the ring.       *)
EXTENDS HashTable, TLC

CONSTANTS k1, k2, k3, k4, v1, v2

MCKeys   == {k1, k2, k3, k4}
MCValues == {v1, v2}
MCHash   == k1 :> 31 @@ k2 :> 31 @@ k3 :> 32 @@ k4 :> 34

Symmetry == Permutations(MCValues)

=============================================================================
