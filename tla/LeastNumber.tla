---------------------------- MODULE LeastNumber ----------------------------
(***************************************************************************)
(* Every set of natural numbers that is not empty has a least element: the *)
(* form of induction that the proofs about arrays use, where an argument   *)
(* goes from an index to its predecessors.                                 *)
(***************************************************************************)
EXTENDS Integers, FiniteSets, TLAPS, FiniteSetTheorems, WellFoundedInduction

(* The sets of the elements up to each one are finite, so that one of them *)
(* is minimal; it is the one that belongs to the least element.            *)
LEMMA HasLeast ==
  ASSUME NEW T, T \subseteq Nat, T # {}
  PROVE  \E n \in T : \A m \in T : n <= m
<1> DEFINE Upto(n) == {k \in T : k <= n}
           Segments == {Upto(n) : n \in T}
           Less     == StrictSubsetOrdering(Nat)
<1>1. Segments \subseteq FiniteSubsetsOf(Nat) /\ Segments # {}
  <2>1. ASSUME NEW n \in T PROVE Upto(n) \in FiniteSubsetsOf(Nat)
    BY <2>1, FS_BoundedSetOfNaturals DEF FiniteSubsetsOf
  <2> QED BY <2>1
<1>2. PICK U \in Segments : \A V \in Segments : <<V, U>> \notin Less
  <2> HIDE DEF Segments, Less
  <2>1. IsWellFoundedOn(Less, FiniteSubsetsOf(Nat))
    BY FS_StrictSubsetOrderingWellFounded DEF Less
  <2> QED BY <1>1, <2>1, WFMin
<1>3. PICK n \in T : U = Upto(n)
  BY <1>2
<1>4. ASSUME NEW m \in T, m < n PROVE FALSE
  <2>1. Upto(m) \in Segments
    OBVIOUS
  <2>2. n \in Nat /\ m \in Nat
    OBVIOUS
  <2>3. Upto(m) \subseteq Upto(n) /\ n \in Upto(n) /\ n \notin Upto(m)
    <3>1. \A k \in Nat : k <= m => k <= n
      BY <1>4, <2>2
    <3>2. n <= n /\ ~(n <= m)
      BY <1>4, <2>2
    <3> QED BY <3>1, <3>2
  <2>4. <<Upto(m), U>> \in Less
    BY <1>3, <2>3 DEF StrictSubsetOrdering
  <2> QED BY <1>2, <2>1, <2>4
<1>5. n \in Nat /\ \A m \in T : m \in Nat
  OBVIOUS
<1> QED BY <1>4, <1>5
=============================================================================
