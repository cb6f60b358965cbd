-------------------------- MODULE HashTableProofs --------------------------
(***************************************************************************)
(* Proofs about the hash table, for every set of keys and values, hash     *)
(* function and initial capacity: its searches end, its entries stay       *)
(* reachable, and it implements a map.                                     *)
(***************************************************************************)
EXTENDS HashTable, LeastNumber

Places(t) == 0 .. t.capacity - 1

(* How far a slot is from the home of a key, going round.                  *)
Away(t, k, i) ==
  IF Home(t, k) <= i THEN i - Home(t, k) ELSE i + t.capacity - Home(t, k)

Distinct(t) ==
  \A i, j \in Entries(t) : t.slots[i].key = t.slots[j].key => i = j

(* No empty slot cuts the way from the home of an entry's key to the entry.*)
Unbroken(t) ==
  \A i \in Entries(t) : \A c \in 0 .. Away(t, t.slots[i].key, i) - 1 :
    At(t, t.slots[i].key, c).state # "empty"

Counted(t) ==
  t.tombstones = Cardinality(Graves(t)) /\ t.size >= Cardinality(Entries(t))

Sound(t) ==
  IsTable(t) /\ t.capacity # 0 /\ Distinct(t) /\ Unbroken(t) /\ Counted(t)

(* What the two thresholds of ht_insert keep, and ht_delete does not undo. *)
Roomy(t) == t.size + t.tombstones < t.capacity

(* After n rounds of the copying loop u holds what the first n slots of t  *)
(* hold, and has counted each once.                                        *)
EntriesBelow(t, n) == {i \in Entries(t) : i < n}

IsCopy(t, u, n) ==
  /\ u.capacity = 2 * t.capacity
  /\ u.size = Cardinality(EntriesBelow(t, n)) /\ u.tombstones = 0
  /\ \A i \in EntriesBelow(t, n) : \E j \in Entries(u) : u.slots[j] = t.slots[i]
  /\ \A j \in Entries(u) : \E i \in EntriesBelow(t, n) : u.slots[j] = t.slots[i]

HtInv ==
  /\ HtTypeOK
  /\ Sound(table) /\ Roomy(table)
  /\ ~NotResizing => Sound(copy) /\ IsCopy(table, copy, next)

-----------------------------------------------------------------------------
(***************************************************************************)
(* Probing.                                                                *)
(***************************************************************************)
LEMMA HomeIsPlace ==
  ASSUME NEW t, t.capacity \in Nat, t.capacity # 0, NEW k \in Keys
  PROVE  Home(t, k) \in Places(t)
<1>1. Hash[k] \in Nat
  BY HashAssumption
<1>2. Hash[k] % t.capacity \in 0 .. t.capacity - 1
  BY <1>1
<1> QED BY <1>2 DEF Home, Places

(* Probing goes through each slot once, and Away says when.                *)
LEMMA ProbeIsRound ==
  ASSUME NEW t, t.capacity \in Nat, t.capacity # 0, NEW k \in Keys
  PROVE  /\ \A d \in Places(t) : Probe(t, k, d) \in Places(t) /\ Away(t, k, Probe(t, k, d)) = d
         /\ \A i \in Places(t) : Away(t, k, i) \in Places(t) /\ Probe(t, k, Away(t, k, i)) = i
<1> DEFINE h == Home(t, k)
<1>1. h \in Places(t)
  BY HomeIsPlace
<1> HIDE DEF h
<1>2. ASSUME NEW d \in Places(t)
      PROVE  Probe(t, k, d) \in Places(t) /\ Away(t, k, Probe(t, k, d)) = d
  BY <1>1, <1>2 DEF Probe, Away, Places, h
<1>3. ASSUME NEW i \in Places(t)
      PROVE  Away(t, k, i) \in Places(t) /\ Probe(t, k, Away(t, k, i)) = i
  BY <1>1, <1>3 DEF Probe, Away, Places, h
<1> QED BY <1>2, <1>3

(* A slot of a table is one of three kinds; an occupied one has a key.     *)
LEMMA SlotKinds ==
  ASSUME NEW t, IsTable(t), NEW i \in Places(t)
  PROVE  \/ t.slots[i] = Free /\ t.slots[i].state = "empty"
         \/ t.slots[i] = Tombstone /\ t.slots[i].state = "tombstone"
         \/ /\ t.slots[i].state = "occupied"
            /\ t.slots[i].key \in Keys /\ t.slots[i].value \in Values
            /\ t.slots[i] = Occupied(t.slots[i].key, t.slots[i].value)
<1>1. t.slots[i] \in {Free, Tombstone} \cup {Occupied(k, v) : k \in Keys, v \in Values}
  BY DEF IsTable, Places
<1>2. Free.state = "empty" /\ Tombstone.state = "tombstone"
  BY DEF Free, Tombstone
<1>3. CASE t.slots[i] \in {Occupied(k, v) : k \in Keys, v \in Values}
  <2>1. PICK k \in Keys, v \in Values : t.slots[i] = Occupied(k, v)
    BY <1>3
  <2> QED BY <2>1 DEF Occupied
<1> QED BY <1>1, <1>2, <1>3

LEMMA EntryKey ==
  ASSUME NEW t, IsTable(t), NEW i \in Entries(t)
  PROVE  i \in Places(t) /\ t.slots[i].key \in Keys /\ t.slots[i].value \in Values
<1>1. i \in Places(t) /\ t.slots[i].state = "occupied"
  BY DEF Entries, Places
<1> QED BY <1>1, SlotKinds

(***************************************************************************)
(* Searching.                                                              *)
(***************************************************************************)
(* A key is found at its entry and nowhere else.                           *)
LEMMA FoundAtEntry ==
  ASSUME NEW t, Sound(t), NEW k \in Keys
  PROVE  /\ \A i \in Entries(t) : t.slots[i].key = k =>
              FoundAt(t, k, Away(t, k, i)) /\ Away(t, k, i) \in Places(t)
         /\ \A d \in Places(t) : Holds(t, k, d) =>
              Probe(t, k, d) \in Entries(t) /\ t.slots[Probe(t, k, d)].key = k
         /\ IsIn(t, k) <=> \E i \in Entries(t) : t.slots[i].key = k
<1>1. t.capacity \in Nat /\ t.capacity # 0
  BY DEF Sound, IsTable
<1>2. ASSUME NEW i \in Entries(t), t.slots[i].key = k
      PROVE  FoundAt(t, k, Away(t, k, i)) /\ Away(t, k, i) \in Places(t)
  <2> DEFINE d == Away(t, k, i)
  <2>1. i \in Places(t) /\ t.slots[i].state = "occupied"
    BY DEF Entries, Places
  <2>2. d \in Places(t) /\ Probe(t, k, d) = i
    BY <1>1, <2>1, ProbeIsRound
  <2>3. Holds(t, k, d)
    BY <1>2, <2>1, <2>2 DEF Holds, At
  <2>4. ASSUME NEW c \in 0 .. d - 1
        PROVE  At(t, k, c).state # "empty" /\ ~Holds(t, k, c)
    <3>1. At(t, k, c).state # "empty"
      BY <1>2 DEF Sound, Unbroken
    <3>2. c \in Places(t) /\ c # d
      BY <1>1, <2>2 DEF Places
    <3>3. Probe(t, k, c) \in Places(t) /\ Probe(t, k, c) # i
      BY <1>1, <2>2, <3>2, ProbeIsRound
    <3>4. ~Holds(t, k, c)
      BY <1>2, <3>3 DEF Sound, Distinct, Holds, At, Entries, Places
    <3> QED BY <3>1, <3>4
  <2> QED BY <2>2, <2>3, <2>4 DEF FoundAt, Places
<1>3. ASSUME NEW d \in Places(t), Holds(t, k, d)
      PROVE  Probe(t, k, d) \in Entries(t) /\ t.slots[Probe(t, k, d)].key = k
  <2>1. Probe(t, k, d) \in Places(t)
    BY <1>1, ProbeIsRound
  <2> QED BY <1>3, <2>1 DEF Holds, At, Entries, Places
<1>4. IsIn(t, k) <=> \E i \in Entries(t) : t.slots[i].key = k
  BY <1>2, <1>3 DEF IsIn, FoundAt, Places
<1> QED BY <1>2, <1>3, <1>4

(* With room left some slot is empty, and the nearest one ends the search. *)
LEMMA RoomyEnds ==
  ASSUME NEW t, Sound(t), Roomy(t)
  PROVE  Ends(t)
<1>1. /\ t.capacity \in Nat /\ t.capacity # 0 /\ IsTable(t) /\ t.size \in Nat /\ t.tombstones \in Nat
      /\ t.tombstones = Cardinality(Graves(t)) /\ t.size >= Cardinality(Entries(t))
  BY DEF Sound, IsTable, Counted
<1>2. PICK i \in Places(t) : t.slots[i].state = "empty"
  <2>1. IsFiniteSet(Places(t)) /\ Cardinality(Places(t)) = t.capacity
    <3>1. t.capacity - 1 \in Int /\ 0 \in Int
      BY <1>1
    <3>2. /\ IsFiniteSet(0 .. t.capacity - 1)
          /\ Cardinality(0 .. t.capacity - 1) =
               IF 0 > t.capacity - 1 THEN 0 ELSE (t.capacity - 1) - 0 + 1
      BY <3>1, FS_Interval
    <3> QED BY <1>1, <3>2 DEF Places
  <2>2. Entries(t) \in SUBSET Places(t) /\ Graves(t) \in SUBSET Places(t)
    BY DEF Entries, Graves, Places
  <2>3. /\ IsFiniteSet(Entries(t)) /\ IsFiniteSet(Graves(t))
        /\ Entries(t) \cap Graves(t) = {}
    BY <2>1, <2>2, FS_Subset DEF Entries, Graves
  <2>4. Cardinality(Entries(t) \cup Graves(t)) <= t.size + t.tombstones
    <3>1. Cardinality(Entries(t)) \in Nat /\ Cardinality(Graves(t)) \in Nat
      BY <2>3, FS_CardinalityType
    <3>2. Cardinality(Entries(t) \cup Graves(t))
            = Cardinality(Entries(t)) + Cardinality(Graves(t)) - Cardinality({})
      BY <2>3, FS_Union
    <3> QED BY <1>1, <3>1, <3>2, FS_EmptySet
  <2>5. Entries(t) \cup Graves(t) # Places(t)
    <3>1. CASE Entries(t) \cup Graves(t) = Places(t)
      BY <1>1, <2>1, <2>4, <3>1 DEF Roomy
    <3> QED BY <3>1
  <2>6. PICK i \in Places(t) : i \notin Entries(t) /\ i \notin Graves(t)
    BY <2>2, <2>5
  <2> QED BY <1>1, <2>6, SlotKinds DEF Entries, Graves, Places
<1>3. ASSUME NEW k \in Keys
      PROVE  \E d \in 0 .. t.capacity - 1 : EndsAt(t, k, d)
  <2> DEFINE Gaps == {d \in Places(t) : At(t, k, d).state = "empty"}
  <2>1. Away(t, k, i) \in Gaps /\ Gaps \subseteq Nat
    BY <1>1, <1>2, ProbeIsRound DEF At, Places
  <2> HIDE DEF Gaps
  <2>2. PICK d \in Gaps : \A c \in Gaps : d <= c
    BY <2>1, HasLeast
  <2>3. d \in Places(t) /\ At(t, k, d).state = "empty"
    BY DEF Gaps
  <2>4. ASSUME NEW c \in 0 .. d - 1 PROVE At(t, k, c).state # "empty"
    <3>1. c \in Places(t) /\ ~(d <= c)
      BY <1>1, <2>3 DEF Places
    <3> QED BY <2>2, <3>1 DEF Gaps
  <2> QED BY <2>3, <2>4 DEF EndsAt, Places
<1> QED BY <1>3 DEF Ends

-----------------------------------------------------------------------------
(***************************************************************************)
(* Writing a slot.                                                         *)
(***************************************************************************)
SlotValues == {Free, Tombstone} \cup {Occupied(k, v) : k \in Keys, v \in Values}

(* u is t with another slot value s at p.                                  *)
IsRewritten(t, p, s, u) ==
  /\ u.slots = [t.slots EXCEPT ![p] = s] /\ u.capacity = t.capacity
  /\ u.size \in Nat /\ u.tombstones \in Nat

LEMMA RewrittenSlots ==
  ASSUME NEW t, IsTable(t), NEW p \in Places(t), NEW s \in SlotValues,
         NEW u, IsRewritten(t, p, s, u)
  PROVE  /\ IsTable(u) /\ Places(u) = Places(t)
         /\ \A i \in Places(t) : u.slots[i] = IF i = p THEN s ELSE t.slots[i]
         /\ \A k, i : Away(u, k, i) = Away(t, k, i) /\ Probe(u, k, i) = Probe(t, k, i)
         /\ s.state = "occupied" =>
              Entries(u) = Entries(t) \cup {p} /\ Graves(u) = Graves(t) \ {p}
         /\ s.state = "tombstone" =>
              Entries(u) = Entries(t) \ {p} /\ Graves(u) = Graves(t) \cup {p}
<1>1. t.slots \in [Places(t) -> SlotValues] /\ u.slots = [t.slots EXCEPT ![p] = s]
  BY DEF IsTable, Places, SlotValues, IsRewritten
<1>2. u.capacity = t.capacity /\ Places(u) = Places(t)
  BY DEF IsRewritten, Places
<1>3. \A i \in Places(t) : u.slots[i] = IF i = p THEN s ELSE t.slots[i]
  BY <1>1
<1>4. IsTable(u)
  <2>1. u.slots \in [Places(t) -> SlotValues]
    BY <1>1
  <2> QED BY <1>2, <2>1 DEF IsTable, IsRewritten, Places, SlotValues
<1>5. \A k, i : Away(u, k, i) = Away(t, k, i) /\ Probe(u, k, i) = Probe(t, k, i)
  BY <1>2 DEF Away, Probe, Home
<1>6. /\ Entries(t) = {i \in Places(t) : t.slots[i].state = "occupied"}
      /\ Entries(u) = {i \in Places(t) : u.slots[i].state = "occupied"}
      /\ Graves(t) = {i \in Places(t) : t.slots[i].state = "tombstone"}
      /\ Graves(u) = {i \in Places(t) : u.slots[i].state = "tombstone"}
  BY <1>2 DEF Entries, Graves, Places
<1>7. ASSUME s.state = "occupied"
      PROVE  Entries(u) = Entries(t) \cup {p} /\ Graves(u) = Graves(t) \ {p}
  BY <1>3, <1>6, <1>7
<1>8. ASSUME s.state = "tombstone"
      PROVE  Entries(u) = Entries(t) \ {p} /\ Graves(u) = Graves(t) \cup {p}
  BY <1>3, <1>6, <1>8
<1> QED BY <1>2, <1>3, <1>4, <1>5, <1>7, <1>8

(* What is written is not empty, so no way that went round is cut.         *)
LEMMA RewrittenUnbroken ==
  ASSUME NEW t, Sound(t), NEW p \in Places(t), NEW s \in SlotValues, s.state # "empty",
         NEW u, IsRewritten(t, p, s, u),
         NEW i \in Entries(t), i # p
  PROVE  /\ u.slots[i] = t.slots[i]
         /\ \A c \in 0 .. Away(u, u.slots[i].key, i) - 1 :
              At(u, u.slots[i].key, c).state # "empty"
<1> DEFINE k == t.slots[i].key
<1>1. t.capacity \in Nat /\ t.capacity # 0 /\ IsTable(t)
  BY DEF Sound, IsTable
<1>2. /\ \A j \in Places(t) : u.slots[j] = IF j = p THEN s ELSE t.slots[j]
      /\ \A d : Away(u, k, d) = Away(t, k, d) /\ Probe(u, k, d) = Probe(t, k, d)
  BY <1>1, RewrittenSlots
<1>3. i \in Places(t) /\ k \in Keys
  BY <1>1, EntryKey
<1>4. u.slots[i] = t.slots[i]
  BY <1>2, <1>3
<1>5. ASSUME NEW c \in 0 .. Away(t, k, i) - 1
      PROVE  At(u, k, c).state # "empty"
  <2>1. At(t, k, c).state # "empty"
    BY DEF Sound, Unbroken
  <2>2. Away(t, k, i) \in Places(t)
    BY <1>1, <1>3, ProbeIsRound
  <2>3. c \in Places(t)
    BY <1>1, <2>2 DEF Places
  <2>4. Probe(t, k, c) \in Places(t)
    BY <1>1, <1>3, <2>3, ProbeIsRound
  <2> QED BY <1>2, <2>1, <2>4 DEF At
<1> QED BY <1>2, <1>4, <1>5

LEMMA EntriesAreFinite ==
  ASSUME NEW t, IsTable(t)
  PROVE  /\ IsFiniteSet(Entries(t)) /\ Cardinality(Entries(t)) \in Nat
         /\ IsFiniteSet(Graves(t)) /\ Cardinality(Graves(t)) \in Nat
<1>1. t.capacity - 1 \in Int /\ 0 \in Int
  BY DEF IsTable
<1>2. IsFiniteSet(0 .. t.capacity - 1)
  BY <1>1, FS_Interval
<1>3. Entries(t) \in SUBSET (0 .. t.capacity - 1) /\ Graves(t) \in SUBSET (0 .. t.capacity - 1)
  BY DEF Entries, Graves
<1>4. IsFiniteSet(Entries(t)) /\ IsFiniteSet(Graves(t))
  BY <1>2, <1>3, FS_Subset
<1> QED BY <1>4, FS_CardinalityType

(* An insertion ends with one slot written: the key's own slot, or one     *)
(* that was free while the key was nowhere in the table.                   *)
InsertedAt(t, k, v, u, p) ==
  /\ p \in Places(t)
  /\ IsRewritten(t, p, Occupied(k, v), u)
  /\ \A i \in Entries(t) : i = p <=> t.slots[i].key = k
  /\ u.size = t.size + 1 /\ u.tombstones <= t.tombstones

LEMMA InsertSound ==
  ASSUME NEW t, Sound(t), NEW k \in Keys, NEW v \in Values, NEW u, PlainInsert(t, k, v, u)
  PROVE  Sound(u) /\ \E p : InsertedAt(t, k, v, u, p)
<1>1. /\ t.capacity \in Nat /\ t.capacity # 0 /\ IsTable(t) /\ t.size \in Nat
      /\ t.tombstones \in Nat /\ Counted(t) /\ Distinct(t) /\ Unbroken(t)
  BY DEF Sound, IsTable
<1>0. PICK e \in Places(t) :
        /\ EndsAt(t, k, e)
        /\ \E d \in 0 .. e : InsertsAt(t, k, e, d) /\ u = Written(t, k, v, d)
  BY DEF PlainInsert, Places
<1>2. PICK d \in 0 .. e : EndsAt(t, k, e) /\ InsertsAt(t, k, e, d) /\ u = Written(t, k, v, d)
  BY <1>0
<1> DEFINE p == Probe(t, k, d)
           s == Occupied(k, v)
<1>3. d \in Places(t) /\ e \in Places(t) /\ e \in Nat /\ d \in Nat /\ d <= e
  BY <1>1, <1>2 DEF Places
<1>4. p \in Places(t) /\ Away(t, k, p) = d
  BY <1>1, <1>3, ProbeIsRound
<1>5. s \in SlotValues /\ s.state = "occupied" /\ s.key = k
  BY DEF SlotValues, Occupied
(* No entry for k lies beyond the end of its search.                       *)
<1>6. ASSUME NEW i \in Entries(t), t.slots[i].key = k
      PROVE  i = p
  <2>1. FoundAt(t, k, Away(t, k, i)) /\ Away(t, k, i) \in Places(t)
    BY <1>6, FoundAtEntry
  <2>2. At(t, k, e).state = "empty"
    BY <1>2 DEF EndsAt
  <2>3. Away(t, k, i) \in 0 .. e
    <3>1. ~(e \in 0 .. Away(t, k, i) - 1)
      BY <2>1, <2>2 DEF FoundAt
    <3> QED BY <1>1, <1>3, <2>1, <3>1 DEF Places
  <2>4. Holds(t, k, d)
    BY <1>2, <2>1, <2>3 DEF InsertsAt, FoundAt
  <2>5. p \in Entries(t) /\ t.slots[p].key = k
    BY <1>3, <2>4, FoundAtEntry
  <2> QED BY <1>1, <1>6, <2>5 DEF Distinct
<1>7. ASSUME p \in Entries(t)
      PROVE  t.slots[p].key = k
  <2>1. At(t, k, d).state = "occupied"
    BY <1>7 DEF At, Entries
  <2> QED BY <1>2, <2>1 DEF InsertsAt, Holds, At
(* The way to the slot is unbroken.                                        *)
<1>8. \A c \in 0 .. d - 1 : At(t, k, c).state # "empty"
  BY <1>1, <1>3, <1>2 DEF EndsAt, Places
<1>9. /\ u.slots = [t.slots EXCEPT ![p] = s] /\ u.capacity = t.capacity
      /\ u.size = t.size + 1
      /\ u.tombstones = IF At(t, k, d).state = "tombstone" THEN t.tombstones - 1 ELSE t.tombstones
  BY <1>2 DEF Written
<1> HIDE DEF p, s
<1>10. At(t, k, d).state = "tombstone" <=> p \in Graves(t)
  BY <1>4 DEF At, Graves, Places, p
<1>11. /\ IsFiniteSet(Entries(t)) /\ Cardinality(Entries(t)) \in Nat
       /\ IsFiniteSet(Graves(t)) /\ Cardinality(Graves(t)) \in Nat
       /\ t.tombstones = Cardinality(Graves(t)) /\ t.size >= Cardinality(Entries(t))
  BY <1>1, EntriesAreFinite DEF Counted
<1>12. u.tombstones = Cardinality(Graves(t) \ {p}) /\ u.tombstones \in Nat /\ u.tombstones <= t.tombstones
  <2>1. Cardinality(Graves(t) \ {p}) =
          IF p \in Graves(t) THEN Cardinality(Graves(t)) - 1 ELSE Cardinality(Graves(t))
    BY <1>11, FS_RemoveElement
  <2>2. IsFiniteSet(Graves(t) \ {p})
    BY <1>11, FS_RemoveElement
  <2>3. Cardinality(Graves(t) \ {p}) \in Nat
    BY <2>2, FS_CardinalityType
  <2> QED BY <1>9, <1>10, <1>11, <2>1, <2>3
<1>13. u.size >= Cardinality(Entries(t) \cup {p}) /\ u.size \in Nat
  <2>1. Cardinality(Entries(t) \cup {p}) =
          IF p \in Entries(t) THEN Cardinality(Entries(t)) ELSE Cardinality(Entries(t)) + 1
    BY <1>11, FS_AddElement
  <2> QED BY <1>1, <1>9, <1>11, <2>1
<1>14. IsRewritten(t, p, s, u)
  BY <1>9, <1>12, <1>13 DEF IsRewritten
<1>15. /\ IsTable(u) /\ Places(u) = Places(t)
       /\ \A i \in Places(t) : u.slots[i] = IF i = p THEN s ELSE t.slots[i]
       /\ \A l, i : Away(u, l, i) = Away(t, l, i) /\ Probe(u, l, i) = Probe(t, l, i)
       /\ Entries(u) = Entries(t) \cup {p} /\ Graves(u) = Graves(t) \ {p}
  BY <1>1, <1>4, <1>5, <1>14, RewrittenSlots
<1>16. Entries(t) \subseteq Places(t)
  BY DEF Entries, Places
<1>17. Distinct(u)
  BY <1>1, <1>4, <1>5, <1>6, <1>15, <1>16 DEF Distinct
<1>18. Unbroken(u)
  <2>1. ASSUME NEW i \in Entries(u), NEW c \in 0 .. Away(u, u.slots[i].key, i) - 1
        PROVE  At(u, u.slots[i].key, c).state # "empty"
    <3>1. CASE i # p
      <4>1. i \in Entries(t)
        BY <1>15, <3>1
      <4> QED BY <1>4, <1>5, <1>14, <2>1, <3>1, <4>1, RewrittenUnbroken
    <3>2. CASE i = p
      <4>1. u.slots[i].key = k /\ Away(u, k, i) = d
        BY <1>4, <1>5, <1>15, <3>2
      <4>2. c \in 0 .. d - 1
        BY <2>1, <4>1
      <4>3. At(t, k, c).state # "empty"
        BY <1>8, <4>2
      <4>4. Probe(t, k, c) \in Places(t)
        <5>1. c \in Places(t)
          BY <1>1, <1>3, <4>2 DEF Places
        <5> QED BY <1>1, <5>1, ProbeIsRound
      <4> QED BY <1>5, <1>15, <4>1, <4>3, <4>4 DEF At
    <3> QED BY <3>1, <3>2
  <2> QED BY <2>1 DEF Unbroken
<1>19. Sound(u)
  BY <1>1, <1>9, <1>12, <1>13, <1>15, <1>17, <1>18 DEF Sound, Counted
<1>20. InsertedAt(t, k, v, u, p)
  BY <1>4, <1>6, <1>7, <1>9, <1>12, <1>14 DEF InsertedAt, s
<1> QED BY <1>19, <1>20

(* A deletion turns the entry of the key into a tombstone.                 *)
Deleted(t, k, d) ==
  [slots      |-> [t.slots EXCEPT ![Probe(t, k, d)] = Tombstone],
   capacity   |-> t.capacity,
   size       |-> t.size - 1,
   tombstones |-> t.tombstones + 1]

DeletedAt(t, k, u, p) ==
  /\ p \in Entries(t) /\ t.slots[p].key = k
  /\ IsRewritten(t, p, Tombstone, u)
  /\ u.size = t.size - 1 /\ u.tombstones = t.tombstones + 1

LEMMA DeleteSound ==
  ASSUME NEW t, Sound(t), NEW k \in Keys, NEW d \in Places(t), FoundAt(t, k, d)
  PROVE  Sound(Deleted(t, k, d)) /\ DeletedAt(t, k, Deleted(t, k, d), Probe(t, k, d))
<1> DEFINE p == Probe(t, k, d)
           u == Deleted(t, k, d)
<1>1. /\ t.capacity \in Nat /\ t.capacity # 0 /\ IsTable(t) /\ t.size \in Nat
      /\ t.tombstones \in Nat /\ Counted(t) /\ Distinct(t) /\ Unbroken(t)
  BY DEF Sound, IsTable
<1>2. p \in Entries(t) /\ t.slots[p].key = k
  <2>1. Holds(t, k, d)
    BY DEF FoundAt
  <2> QED BY <2>1, FoundAtEntry
<1>3. p \in Places(t) /\ p \notin Graves(t)
  BY <1>2 DEF Entries, Graves, Places
<1>4. Tombstone \in SlotValues /\ Tombstone.state = "tombstone"
  BY DEF SlotValues, Tombstone
<1>5. /\ IsFiniteSet(Entries(t)) /\ Cardinality(Entries(t)) \in Nat
      /\ IsFiniteSet(Graves(t)) /\ Cardinality(Graves(t)) \in Nat
      /\ t.tombstones = Cardinality(Graves(t)) /\ t.size >= Cardinality(Entries(t))
  BY <1>1, EntriesAreFinite DEF Counted
<1>6. /\ u.slots = [t.slots EXCEPT ![p] = Tombstone] /\ u.capacity = t.capacity
      /\ u.size = t.size - 1 /\ u.tombstones = t.tombstones + 1
  BY DEF Deleted
<1> HIDE DEF p, u
<1>7. u.size >= Cardinality(Entries(t) \ {p}) /\ u.size \in Nat
  <2>1. IsFiniteSet(Entries(t) \ {p}) /\ Cardinality(Entries(t) \ {p}) = Cardinality(Entries(t)) - 1
    BY <1>2, <1>5, FS_RemoveElement
  <2>2. Cardinality(Entries(t) \ {p}) \in Nat
    BY <2>1, FS_CardinalityType
  <2> QED BY <1>1, <1>5, <1>6, <2>1, <2>2
<1>8. u.tombstones = Cardinality(Graves(t) \cup {p}) /\ u.tombstones \in Nat
  <2>1. Cardinality(Graves(t) \cup {p}) = Cardinality(Graves(t)) + 1
    BY <1>3, <1>5, FS_AddElement
  <2> QED BY <1>1, <1>5, <1>6, <2>1
<1>9. IsRewritten(t, p, Tombstone, u)
  BY <1>6, <1>7, <1>8 DEF IsRewritten
<1>10. /\ IsTable(u) /\ Places(u) = Places(t)
       /\ \A i \in Places(t) : u.slots[i] = IF i = p THEN Tombstone ELSE t.slots[i]
       /\ Entries(u) = Entries(t) \ {p} /\ Graves(u) = Graves(t) \cup {p}
  BY <1>1, <1>3, <1>4, <1>9, RewrittenSlots
<1>11. Entries(t) \subseteq Places(t)
  BY DEF Entries, Places
<1>12. Distinct(u)
  BY <1>1, <1>10, <1>11 DEF Distinct
<1>13. Unbroken(u)
  <2>1. ASSUME NEW i \in Entries(u), NEW c \in 0 .. Away(u, u.slots[i].key, i) - 1
        PROVE  At(u, u.slots[i].key, c).state # "empty"
    <3>1. i \in Entries(t) /\ i # p
      BY <1>10
    <3>2. Tombstone.state # "empty"
      BY <1>4
    <3> QED BY <1>3, <1>4, <1>9, <2>1, <3>1, <3>2, RewrittenUnbroken
  <2> QED BY <2>1 DEF Unbroken
<1>14. Sound(u)
  BY <1>1, <1>6, <1>7, <1>8, <1>10, <1>12, <1>13 DEF Sound, Counted
<1>15. DeletedAt(t, k, u, p)
  BY <1>2, <1>6, <1>9 DEF DeletedAt
<1> QED BY <1>14, <1>15 DEF p, u

-----------------------------------------------------------------------------
(***************************************************************************)
(* The map a table stands for.                                             *)
(***************************************************************************)
LEMMA ValueOfEntry ==
  ASSUME NEW t, Distinct(t), NEW i \in Entries(t)
  PROVE  ValueOf(t, t.slots[i].key) = t.slots[i].value
<1> DEFINE k == t.slots[i].key
           j == CHOOSE l \in Entries(t) : t.slots[l].key = k
<1>1. j \in Entries(t) /\ t.slots[j].key = k
  OBVIOUS
<1>2. j = i
  BY <1>1 DEF Distinct
<1> QED BY <1>2 DEF ValueOf

(* Two tables give a key the same value when they hold the same entry for  *)
(* it, wherever that is.                                                   *)
LEMMA SameValue ==
  ASSUME NEW t, Distinct(t), NEW u, Distinct(u), NEW k,
         \A i \in Entries(t) : t.slots[i].key = k =>
           \E j \in Entries(u) : u.slots[j] = t.slots[i],
         \A j \in Entries(u) : u.slots[j].key = k =>
           \E i \in Entries(t) : t.slots[i] = u.slots[j]
  PROVE  ValueOf(u, k) = ValueOf(t, k)
<1>1. CASE \E i \in Entries(t) : t.slots[i].key = k
  <2>1. PICK i \in Entries(t) : t.slots[i].key = k
    BY <1>1
  <2>2. PICK j \in Entries(u) : u.slots[j] = t.slots[i]
    BY <2>1
  <2>3. ValueOf(t, k) = t.slots[i].value
    BY <2>1, ValueOfEntry
  <2>4. ValueOf(u, k) = u.slots[j].value
    BY <2>1, <2>2, ValueOfEntry
  <2> QED BY <2>2, <2>3, <2>4
<1>2. CASE ~ \E i \in Entries(t) : t.slots[i].key = k
  BY <1>2 DEF ValueOf
<1> QED BY <1>1, <1>2

(* A key is in the table exactly when its value is a value.                *)
LEMMA ValueKinds ==
  ASSUME NEW t, Sound(t), NEW k \in Keys
  PROVE  /\ IsIn(t, k) => ValueOf(t, k) \in Values
         /\ ~IsIn(t, k) => ValueOf(t, k) = NULL
<1>1. CASE IsIn(t, k)
  <2>1. PICK i \in Entries(t) : t.slots[i].key = k
    BY <1>1, FoundAtEntry
  <2>2. ValueOf(t, k) = t.slots[i].value
    BY <2>1, ValueOfEntry DEF Sound
  <2> QED BY <1>1, <2>2, EntryKey DEF Sound
<1>2. CASE ~IsIn(t, k)
  BY <1>2, FoundAtEntry DEF ValueOf
<1> QED BY <1>1, <1>2

LEMMA InsertedValue ==
  ASSUME NEW t, Sound(t), NEW k \in Keys, NEW v \in Values,
         NEW u, Sound(u), NEW p, InsertedAt(t, k, v, u, p)
  PROVE  \A l : ValueOf(u, l) = IF l = k THEN v ELSE ValueOf(t, l)
<1> DEFINE s == Occupied(k, v)
<1>1. s \in SlotValues /\ s.state = "occupied" /\ s.key = k /\ s.value = v
  BY DEF SlotValues, Occupied
<1>2. /\ p \in Places(t) /\ IsRewritten(t, p, s, u) /\ IsTable(t)
      /\ \A i \in Entries(t) : i = p <=> t.slots[i].key = k
  BY DEF InsertedAt, Sound
<1> HIDE DEF s
<1>3. /\ \A i \in Places(t) : u.slots[i] = IF i = p THEN s ELSE t.slots[i]
      /\ Entries(u) = Entries(t) \cup {p} /\ Entries(t) \subseteq Places(t)
  <2>1. Entries(t) \subseteq Places(t)
    BY DEF Entries, Places
  <2> QED BY <1>1, <1>2, <2>1, RewrittenSlots
<1>4. ValueOf(u, k) = v
  <2>1. p \in Entries(u) /\ u.slots[p].key = k /\ u.slots[p].value = v
    BY <1>1, <1>2, <1>3
  <2> QED BY <2>1, ValueOfEntry DEF Sound
<1>5. ASSUME NEW l, l # k PROVE ValueOf(u, l) = ValueOf(t, l)
  <2>1. \A i \in Entries(t) : t.slots[i].key = l => i \in Entries(u) /\ u.slots[i] = t.slots[i]
    BY <1>2, <1>3, <1>5
  <2>2. \A j \in Entries(u) : u.slots[j].key = l => j \in Entries(t) /\ t.slots[j] = u.slots[j]
    BY <1>1, <1>2, <1>3, <1>5
  <2> QED BY <2>1, <2>2, SameValue DEF Sound
<1> QED BY <1>4, <1>5

LEMMA DeletedValue ==
  ASSUME NEW t, Sound(t), NEW k \in Keys, NEW u, Sound(u), NEW p, DeletedAt(t, k, u, p)
  PROVE  \A l : ValueOf(u, l) = IF l = k THEN NULL ELSE ValueOf(t, l)
<1>1. Tombstone \in SlotValues /\ Tombstone.state = "tombstone"
  BY DEF SlotValues, Tombstone
<1>2. /\ p \in Entries(t) /\ t.slots[p].key = k
      /\ IsRewritten(t, p, Tombstone, u) /\ IsTable(t) /\ Distinct(t)
  BY DEF DeletedAt, Sound
<1>3. /\ \A i \in Places(t) : u.slots[i] = IF i = p THEN Tombstone ELSE t.slots[i]
      /\ Entries(u) = Entries(t) \ {p} /\ Entries(t) \subseteq Places(t)
  <2>1. Entries(t) \subseteq Places(t)
    BY DEF Entries, Places
  <2> QED BY <1>1, <1>2, <2>1, RewrittenSlots
<1>4. ValueOf(u, k) = NULL
  <2>1. \A j \in Entries(u) : u.slots[j].key # k
    BY <1>2, <1>3 DEF Distinct
  <2> QED BY <2>1 DEF ValueOf
<1>5. ASSUME NEW l, l # k PROVE ValueOf(u, l) = ValueOf(t, l)
  <2>1. \A i \in Entries(t) : t.slots[i].key = l => i \in Entries(u) /\ u.slots[i] = t.slots[i]
    BY <1>2, <1>3, <1>5
  <2>2. \A j \in Entries(u) : u.slots[j].key = l => j \in Entries(t) /\ t.slots[j] = u.slots[j]
    BY <1>2, <1>3, <1>5
  <2> QED BY <2>1, <2>2, SameValue DEF Sound
<1> QED BY <1>4, <1>5

-----------------------------------------------------------------------------
(***************************************************************************)
(* Copying.                                                                *)
(***************************************************************************)
LEMMA NewTableSound ==
  ASSUME NEW c \in Nat, c # 0
  PROVE  /\ Sound(NewTable(c)) /\ Roomy(NewTable(c)) /\ NewTable(c).capacity = c
         /\ Entries(NewTable(c)) = {}
         /\ \A k : ValueOf(NewTable(c), k) = NULL
         /\ \A t : c = 2 * t.capacity => IsCopy(t, NewTable(c), 0)
<1> DEFINE u == NewTable(c)
<1>1. /\ u.slots = [i \in 0 .. c - 1 |-> Free] /\ u.capacity = c /\ u.size = 0
      /\ u.tombstones = 0
  BY DEF NewTable
<1> HIDE DEF u
<1>2. Free.state = "empty"
  BY DEF Free
<1>3. Entries(u) = {} /\ Graves(u) = {}
  BY <1>1, <1>2 DEF Entries, Graves
<1>4. Sound(u) /\ Roomy(u)
  <2>1. IsTable(u)
    BY <1>1 DEF IsTable
  <2>2. Counted(u)
    BY <1>1, <1>3, FS_EmptySet DEF Counted
  <2> QED BY <1>1, <1>3, <2>1, <2>2 DEF Sound, Distinct, Unbroken, Roomy
<1>5. \A k : ValueOf(u, k) = NULL
  BY <1>3 DEF ValueOf
<1>6. ASSUME NEW t, c = 2 * t.capacity PROVE IsCopy(t, u, 0)
  <2>1. EntriesBelow(t, 0) = {}
    <3>1. \A i \in Entries(t) : i \in Nat /\ ~(i < 0)
      BY DEF Entries
    <3> QED BY <3>1 DEF EntriesBelow
  <2> QED BY <1>1, <1>3, <1>6, <2>1, FS_EmptySet DEF IsCopy
<1> QED BY <1>1, <1>3, <1>4, <1>5, <1>6 DEF u

LEMMA NextEntries ==
  ASSUME NEW t, IsTable(t), NEW n \in Places(t)
  PROVE  /\ IsFiniteSet(EntriesBelow(t, n))
         /\ Cardinality(EntriesBelow(t, n)) \in Nat
         /\ n \notin EntriesBelow(t, n)
         /\ n \in Entries(t) => EntriesBelow(t, n + 1) = EntriesBelow(t, n) \cup {n}
         /\ n \notin Entries(t) => EntriesBelow(t, n + 1) = EntriesBelow(t, n)
<1>1. n \in Nat /\ t.capacity \in Nat
  BY DEF Places, IsTable
<1>2. Entries(t) \subseteq Nat
  BY DEF Entries
<1>3. EntriesBelow(t, n) \in SUBSET Entries(t)
  BY DEF EntriesBelow
<1>4. IsFiniteSet(EntriesBelow(t, n)) /\ Cardinality(EntriesBelow(t, n)) \in Nat
  BY <1>3, EntriesAreFinite, FS_Subset, FS_CardinalityType
<1>5. \A i \in Entries(t) : i < n + 1 <=> i < n \/ i = n
  BY <1>1, <1>2
<1> QED BY <1>1, <1>4, <1>5 DEF EntriesBelow

(* One round of the loop: the key is new to the copy, since the table      *)
(* holds it once.                                                          *)
LEMMA CopyRound ==
  ASSUME NEW t, Sound(t), NEW u, Sound(u), NEW n \in Entries(t), IsCopy(t, u, n),
         NEW w, PlainInsert(u, t.slots[n].key, t.slots[n].value, w)
  PROVE  Sound(w) /\ IsCopy(t, w, n + 1)
<1> DEFINE k == t.slots[n].key
           v == t.slots[n].value
           s == Occupied(k, v)
<1>1. n \in Places(t) /\ k \in Keys /\ v \in Values /\ t.slots[n] = s /\ s.state = "occupied"
  <2>1. n \in Places(t) /\ t.slots[n].state = "occupied" /\ IsTable(t)
    BY DEF Entries, Places, Sound
  <2> QED BY <2>1, SlotKinds
<1>2. Sound(w) /\ \E p : InsertedAt(u, k, v, w, p)
  BY <1>1, InsertSound
<1>3. PICK p : InsertedAt(u, k, v, w, p)
  BY <1>2
<1>4. p \notin Entries(u)
  <2>1. ASSUME p \in Entries(u) PROVE FALSE
    <3>1. u.slots[p].key = k
      BY <1>3, <2>1 DEF InsertedAt
    <3>2. PICK i \in EntriesBelow(t, n) : u.slots[p] = t.slots[i]
      BY <2>1 DEF IsCopy
    <3>3. i \in Entries(t) /\ i # n
      <4>1. IsTable(t)
        BY DEF Sound
      <4>2. n \notin EntriesBelow(t, n)
        BY <1>1, <4>1, NextEntries
      <4> QED BY <4>2 DEF EntriesBelow
    <3>4. n \in Entries(t) /\ t.slots[i].key = t.slots[n].key
      BY <1>1, <3>1, <3>2 DEF Entries, Places
    <3>5. Distinct(t)
      BY DEF Sound
    <3> HIDE DEF k, v, s
    <3> QED BY <3>3, <3>4, <3>5 DEF Distinct
  <2> QED BY <2>1
<1>5. /\ p \in Places(u) /\ IsRewritten(u, p, s, w) /\ s \in SlotValues
      /\ w.size = u.size + 1 /\ w.tombstones <= u.tombstones /\ IsTable(u)
  BY <1>1, <1>3 DEF InsertedAt, SlotValues, Sound
<1> HIDE DEF s
<1>6. /\ \A i \in Places(u) : w.slots[i] = IF i = p THEN s ELSE u.slots[i]
      /\ Entries(w) = Entries(u) \cup {p} /\ Entries(u) \subseteq Places(u)
  <2>1. Entries(u) \subseteq Places(u)
    BY DEF Entries, Places
  <2> QED BY <1>1, <1>5, <2>1, RewrittenSlots
<1>7. \A j \in Entries(u) : w.slots[j] = u.slots[j]
  BY <1>4, <1>6
<1>8. w.slots[p] = t.slots[n]
  BY <1>1, <1>5, <1>6
<1>9. /\ EntriesBelow(t, n + 1) = EntriesBelow(t, n) \cup {n} /\ n \notin EntriesBelow(t, n)
      /\ IsFiniteSet(EntriesBelow(t, n))
  BY <1>1, NextEntries DEF Sound
<1>10. w.size = Cardinality(EntriesBelow(t, n + 1))
  BY <1>5, <1>9, FS_AddElement DEF IsCopy
<1>11. w.tombstones = 0 /\ w.capacity = 2 * t.capacity
  <2>1. w.tombstones \in Nat /\ w.tombstones <= 0 /\ w.capacity = u.capacity
    BY <1>5 DEF IsRewritten, IsCopy
  <2> QED BY <2>1 DEF IsCopy
<1>12. \A i \in EntriesBelow(t, n + 1) : \E j \in Entries(w) : w.slots[j] = t.slots[i]
  BY <1>6, <1>7, <1>8, <1>9 DEF IsCopy
<1>13. \A j \in Entries(w) : \E i \in EntriesBelow(t, n + 1) : w.slots[j] = t.slots[i]
  BY <1>6, <1>7, <1>8, <1>9 DEF IsCopy
<1> QED BY <1>2, <1>10, <1>11, <1>12, <1>13 DEF IsCopy

(* The copy of a table with room has room for one insertion more, at any   *)
(* time, and gives each key the value of the table when it is complete.    *)
LEMMA CopyHasRoom ==
  ASSUME NEW t, Sound(t), Roomy(t), NEW u, Sound(u), NEW n \in 0 .. t.capacity, IsCopy(t, u, n)
  PROVE  /\ Roomy(u) /\ u.size + 1 + u.tombstones < u.capacity
         /\ n = t.capacity => \A k : ValueOf(u, k) = ValueOf(t, k)
<1>1. /\ t.capacity \in Nat /\ t.capacity # 0 /\ IsTable(t) /\ t.size \in Nat
      /\ t.tombstones \in Nat /\ t.size >= Cardinality(Entries(t))
  BY DEF Sound, IsTable, Counted
<1>2. Cardinality(EntriesBelow(t, n)) <= Cardinality(Entries(t))
  <2>1. EntriesBelow(t, n) \in SUBSET Entries(t)
    BY DEF EntriesBelow
  <2> QED BY <1>1, <2>1, EntriesAreFinite, FS_Subset
<1>3. Cardinality(EntriesBelow(t, n)) \in Nat /\ Cardinality(Entries(t)) \in Nat
  <2>1. EntriesBelow(t, n) \in SUBSET Entries(t)
    BY DEF EntriesBelow
  <2> QED BY <1>1, <2>1, EntriesAreFinite, FS_Subset, FS_CardinalityType
<1>4. u.size < t.capacity
  BY <1>1, <1>2, <1>3 DEF IsCopy, Roomy
<1>5. Roomy(u) /\ u.size + 1 + u.tombstones < u.capacity
  <2>1. u.size \in Nat /\ u.tombstones = 0 /\ u.capacity = 2 * t.capacity
    BY <1>3 DEF IsCopy
  <2> QED BY <1>1, <1>4, <2>1 DEF Roomy
<1>6. ASSUME n = t.capacity, NEW k PROVE ValueOf(u, k) = ValueOf(t, k)
  <2>1. EntriesBelow(t, n) = Entries(t)
    <3>1. \A i \in Entries(t) : i < n
      BY <1>1, <1>6 DEF Entries
    <3> QED BY <3>1 DEF EntriesBelow
  <2> QED BY <2>1, SameValue DEF IsCopy, Sound
<1> QED BY <1>5, <1>6

-----------------------------------------------------------------------------
(***************************************************************************)
(* The steps.  Each lemma shows that an operation keeps the invariant and  *)
(* what it does to the map.                                                *)
(***************************************************************************)
HtMap == [k \in Keys |-> ValueOf(table, k)]

LEMMA InitStep == HtInit => HtInv /\ Abstract!Init
<1> SUFFICES ASSUME HtInit PROVE HtInv /\ Abstract!Init
  OBVIOUS
<1>1. InitCapacity \in Nat /\ InitCapacity # 0
  BY InitCapacityAssumption
<1>2. /\ table = NewTable(InitCapacity) /\ copy = NULL /\ next = 0 /\ pending = NULL
      /\ answer = "ok"
  BY DEF HtInit
<1>3. /\ Sound(table) /\ Roomy(table) /\ table.capacity = InitCapacity
      /\ \A k : ValueOf(table, k) = NULL
  BY <1>1, <1>2, NewTableSound
<1>4. HtTypeOK
  BY <1>1, <1>2, <1>3 DEF HtTypeOK, Sound, NotResizing
<1>5. HtInv
  BY <1>2, <1>3, <1>4 DEF HtInv, NotResizing
<1>6. Abstract!Init
  BY <1>2, <1>3 DEF Abstract!Init
<1> QED BY <1>5, <1>6

(* A call outside a resize that changes the table, or the answer, only.    *)
LEMMA CallStep ==
  ASSUME HtInv, NotResizing, Sound(table'), Roomy(table'), table'.capacity = table.capacity,
         answer' \in {"ok", "failed", "not_found", NULL} \cup Values,
         UNCHANGED <<copy, next, pending>>
  PROVE  HtInv'
<1>1. pending' = NULL /\ next' \in 0 .. table'.capacity
  BY DEF HtInv, HtTypeOK, NotResizing
<1>2. HtTypeOK'
  BY <1>1 DEF HtTypeOK, NotResizing, Sound
<1> QED BY <1>1, <1>2 DEF HtInv, NotResizing

LEMMA InsertNowStep ==
  ASSUME HtInv, NEW k \in Keys, NEW v \in Values, InsertNow(k, v)
  PROVE  HtInv' /\ Abstract!Insert(k, v)
<1>1. Sound(table) /\ PlainInsert(table, k, v, table') /\ ~IsLoaded(table) /\ NotResizing
  BY DEF HtInv, InsertNow
<1>2. Sound(table') /\ \E p : InsertedAt(table, k, v, table', p)
  BY <1>1, InsertSound
<1>3. PICK p : InsertedAt(table, k, v, table', p)
  BY <1>2
<1>4. /\ table'.size = table.size + 1 /\ table'.tombstones <= table.tombstones
      /\ table'.capacity = table.capacity /\ table'.tombstones \in Nat
  BY <1>3 DEF InsertedAt, IsRewritten
<1>5. Roomy(table')
  <2>1. table.size \in Nat /\ table.tombstones \in Nat /\ table.capacity \in Nat
    BY <1>1 DEF Sound, IsTable
  <2>2. (table.size + 1) * 10 < table.capacity * 7 /\ table.tombstones * 10 < table.capacity * 2
    BY <1>1, <2>1 DEF IsLoaded
  <2> QED BY <1>4, <2>1, <2>2 DEF Roomy
<1>6. HtInv'
  BY <1>1, <1>2, <1>4, <1>5, CallStep DEF InsertNow
<1>7. \A l : ValueOf(table', l) = IF l = k THEN v ELSE ValueOf(table, l)
  BY <1>1, <1>2, <1>3, InsertedValue
<1>8. HtMap' = [HtMap EXCEPT ![k] = v]
  BY <1>7 DEF HtMap
<1> QED BY <1>6, <1>8 DEF Abstract!Insert, InsertNow, HtMap

LEMMA InsertResizesStep ==
  ASSUME HtInv, NEW k \in Keys, NEW v \in Values, InsertResizes(k, v)
  PROVE  HtInv' /\ UNCHANGED <<HtMap, answer>>
<1>1. /\ Sound(table) /\ Roomy(table) /\ copy' = NewTable(table.capacity * 2) /\ next' = 0
      /\ pending' = [key |-> k, value |-> v] /\ table' = table /\ answer' = answer
      /\ HtTypeOK
  BY DEF HtInv, InsertResizes
<1>2. table.capacity * 2 \in Nat /\ table.capacity * 2 # 0 /\ table.capacity \in Nat
      /\ table.capacity * 2 = 2 * table.capacity
  BY <1>1 DEF Sound, IsTable
<1>3. Sound(copy') /\ IsCopy(table', copy', next')
  BY <1>1, <1>2, NewTableSound
<1>4. HtTypeOK'
  BY <1>1, <1>2, <1>3 DEF HtTypeOK, Sound, NotResizing
<1>5. HtInv'
  BY <1>1, <1>3, <1>4 DEF HtInv
<1> QED BY <1>1, <1>5 DEF HtMap

LEMMA CopySlotStep ==
  ASSUME HtInv, CopySlot
  PROVE  HtInv' /\ UNCHANGED <<HtMap, answer>>
<1>1. /\ Sound(table) /\ Roomy(table) /\ Sound(copy) /\ IsCopy(table, copy, next) /\ HtTypeOK
      /\ next < table.capacity /\ next' = next + 1 /\ pending # NULL
      /\ UNCHANGED <<table, pending, answer>>
  BY DEF HtInv, CopySlot, NotResizing
<1>2. next \in Places(table) /\ next + 1 \in 0 .. table.capacity
  BY <1>1 DEF HtTypeOK, Places, Sound, IsTable
<1>3. Sound(copy') /\ IsCopy(table, copy', next + 1)
  <2>1. CASE table.slots[next].state = "occupied"
    <3>1. next \in Entries(table)
      BY <1>2, <2>1 DEF Entries, Places
    <3>2. PlainInsert(copy, table.slots[next].key, table.slots[next].value, copy')
      BY <2>1 DEF CopySlot
    <3> QED BY <1>1, <3>1, <3>2, CopyRound
  <2>2. CASE table.slots[next].state # "occupied"
    <3>1. next \notin Entries(table) /\ copy' = copy
      BY <2>2 DEF Entries, CopySlot
    <3>2. EntriesBelow(table, next + 1) = EntriesBelow(table, next)
      BY <1>1, <1>2, <3>1, NextEntries DEF Sound
    <3> QED BY <1>1, <3>1, <3>2 DEF IsCopy
  <2> QED BY <2>1, <2>2
<1>4. HtTypeOK'
  BY <1>1, <1>2, <1>3 DEF HtTypeOK, Sound, NotResizing
<1>5. HtInv'
  BY <1>1, <1>3, <1>4 DEF HtInv
<1> QED BY <1>1, <1>5 DEF HtMap

LEMMA InsertAfterResizeStep ==
  ASSUME HtInv, InsertAfterResize
  PROVE  HtInv' /\ \E k \in Keys, v \in Values : Abstract!Insert(k, v)
<1> DEFINE k == pending.key
           v == pending.value
<1>1. /\ Sound(table) /\ Roomy(table) /\ Sound(copy) /\ IsCopy(table, copy, next) /\ HtTypeOK
      /\ next = table.capacity /\ pending # NULL /\ k \in Keys /\ v \in Values
      /\ PlainInsert(copy, k, v, table')
      /\ copy' = NULL /\ next' = 0 /\ pending' = NULL /\ answer' = "ok"
  BY DEF HtInv, InsertAfterResize, NotResizing, HtTypeOK
<1> HIDE DEF k, v
<1>2. Sound(table') /\ \E p : InsertedAt(copy, k, v, table', p)
  BY <1>1, InsertSound
<1>3. PICK p : InsertedAt(copy, k, v, table', p)
  BY <1>2
<1>4. next \in 0 .. table.capacity
  BY <1>1 DEF HtTypeOK
<1>5. /\ copy.size + 1 + copy.tombstones < copy.capacity
      /\ \A l : ValueOf(copy, l) = ValueOf(table, l)
  BY <1>1, <1>4, CopyHasRoom
<1>6. Roomy(table')
  <2>1. /\ table'.size = copy.size + 1 /\ table'.tombstones <= copy.tombstones
        /\ table'.capacity = copy.capacity /\ table'.tombstones \in Nat
        /\ copy.size \in Nat /\ copy.tombstones \in Nat /\ copy.capacity \in Nat
    BY <1>1, <1>3 DEF InsertedAt, IsRewritten, Sound, IsTable
  <2> QED BY <1>5, <2>1 DEF Roomy
<1>7. HtTypeOK'
  <2>1. table'.capacity \in Nat
    BY <1>2 DEF Sound, IsTable
  <2> QED BY <1>1, <1>2, <2>1 DEF HtTypeOK, NotResizing, Sound
<1>8. HtInv'
  BY <1>1, <1>2, <1>6, <1>7 DEF HtInv, NotResizing
<1>9. \A l : ValueOf(table', l) = IF l = k THEN v ELSE ValueOf(table, l)
  BY <1>1, <1>2, <1>3, <1>5, InsertedValue
<1>10. HtMap' = [HtMap EXCEPT ![k] = v]
  BY <1>1, <1>9 DEF HtMap
<1>11. Abstract!Insert(k, v)
  BY <1>1, <1>10 DEF Abstract!Insert, HtMap
<1> QED BY <1>1, <1>8, <1>11

LEMMA DeleteStep ==
  ASSUME HtInv, NEW k \in Keys, Delete(k)
  PROVE  HtInv' /\ Abstract!Delete(k)
<1>1. Sound(table) /\ Roomy(table) /\ NotResizing /\ UNCHANGED <<copy, next, pending>>
  BY DEF HtInv, Delete
<1>2. HtMap[k] = ValueOf(table, k)
  BY DEF HtMap
<1>3. CASE IsIn(table, k)
  <2>1. /\ \E d \in Places(table) : FoundAt(table, k, d) /\ table' = Deleted(table, k, d)
        /\ answer' = "ok"
    BY <1>3 DEF Delete, Places, Deleted
  <2>2. PICK d \in Places(table) : FoundAt(table, k, d) /\ table' = Deleted(table, k, d)
    BY <2>1
  <2>3. Sound(table') /\ DeletedAt(table, k, table', Probe(table, k, d))
    BY <1>1, <2>2, DeleteSound
  <2>4. Roomy(table') /\ table'.capacity = table.capacity
    <3>1. /\ table'.size = table.size - 1 /\ table'.tombstones = table.tombstones + 1
          /\ table'.capacity = table.capacity
          /\ table.size \in Nat /\ table.tombstones \in Nat /\ table.capacity \in Nat
      BY <1>1, <2>3 DEF DeletedAt, IsRewritten, Sound, IsTable
    <3> QED BY <1>1, <3>1 DEF Roomy
  <2>5. HtInv'
    BY <1>1, <2>1, <2>3, <2>4, CallStep
  <2>6. \A l : ValueOf(table', l) = IF l = k THEN NULL ELSE ValueOf(table, l)
    BY <1>1, <2>3, DeletedValue
  <2>7. HtMap' = [HtMap EXCEPT ![k] = NULL]
    BY <2>6 DEF HtMap
  <2>8. HtMap[k] # NULL
    BY <1>1, <1>2, <1>3, ValueKinds, NullAssumption
  <2> QED BY <2>1, <2>5, <2>7, <2>8 DEF Abstract!Delete, HtMap
<1>4. CASE ~IsIn(table, k)
  <2>1. table' = table /\ answer' = "not_found"
    BY <1>4 DEF Delete
  <2>2. HtInv'
    BY <1>1, <2>1, CallStep
  <2>3. HtMap[k] = NULL
    BY <1>1, <1>2, <1>4, ValueKinds
  <2>4. HtMap' = [HtMap EXCEPT ![k] = NULL]
    BY <2>1, <2>3 DEF HtMap
  <2> QED BY <2>1, <2>2, <2>3, <2>4 DEF Abstract!Delete, HtMap
<1> QED BY <1>3, <1>4

LEMMA LookupStep ==
  ASSUME HtInv, NEW k \in Keys, Lookup(k)
  PROVE  HtInv' /\ Abstract!Lookup(k)
<1>1. /\ Sound(table) /\ Roomy(table) /\ NotResizing /\ UNCHANGED <<copy, next, pending>>
      /\ table' = table
  BY DEF HtInv, Lookup
<1>2. HtMap[k] = ValueOf(table, k) /\ HtMap' = HtMap
  BY <1>1 DEF HtMap
<1>3. answer' = ValueOf(table, k)
  <2>1. CASE IsIn(table, k)
    <3>1. \E d \in Places(table) : FoundAt(table, k, d) /\ answer' = At(table, k, d).value
      BY <2>1 DEF Lookup, Places
    <3>2. PICK d \in Places(table) : FoundAt(table, k, d) /\ answer' = At(table, k, d).value
      BY <3>1
    <3>3. Probe(table, k, d) \in Entries(table) /\ table.slots[Probe(table, k, d)].key = k
      BY <1>1, <3>2, FoundAtEntry DEF FoundAt
    <3>4. ValueOf(table, k) = table.slots[Probe(table, k, d)].value
      BY <1>1, <3>3, ValueOfEntry DEF Sound
    <3> QED BY <3>2, <3>4 DEF At
  <2>2. CASE ~IsIn(table, k)
    BY <1>1, <2>2, ValueKinds DEF Lookup
  <2> QED BY <2>1, <2>2
<1>4. answer' \in Values \cup {NULL}
  BY <1>1, <1>3, ValueKinds
<1>5. HtInv'
  BY <1>1, <1>4, CallStep
<1> QED BY <1>2, <1>3, <1>5 DEF Abstract!Lookup, HtMap

LEMMA InsertFailsStep ==
  ASSUME HtInv, InsertFails
  PROVE  HtInv' /\ Abstract!InsertFails
<1>1. /\ Sound(table) /\ Roomy(table) /\ NotResizing /\ UNCHANGED <<copy, next, pending>>
      /\ table' = table /\ answer' = "failed"
  BY DEF HtInv, InsertFails
<1>2. HtInv'
  BY <1>1, CallStep
<1> QED BY <1>1, <1>2 DEF Abstract!InsertFails


LEMMA HtStep ==
  ASSUME HtInv, [HtNext]_htVars
  PROVE  HtInv' /\ (Abstract!Next \/ UNCHANGED <<HtMap, answer>>)
<1>1. ASSUME NEW k \in Keys, Delete(k)
      PROVE  HtInv' /\ Abstract!Next
  BY <1>1, DeleteStep DEF Abstract!Next
<1>2. ASSUME NEW k \in Keys, Lookup(k)
      PROVE  HtInv' /\ Abstract!Next
  BY <1>2, LookupStep DEF Abstract!Next
<1>3. ASSUME NEW k \in Keys, NEW v \in Values, InsertNow(k, v)
      PROVE  HtInv' /\ Abstract!Next
  BY <1>3, InsertNowStep DEF Abstract!Next
<1>4. ASSUME NEW k \in Keys, NEW v \in Values, InsertResizes(k, v)
      PROVE  HtInv' /\ UNCHANGED <<HtMap, answer>>
  BY <1>4, InsertResizesStep
<1>5. ASSUME InsertFails
      PROVE  HtInv' /\ Abstract!Next
  BY <1>5, InsertFailsStep DEF Abstract!Next
<1>6. ASSUME CopySlot
      PROVE  HtInv' /\ UNCHANGED <<HtMap, answer>>
  BY <1>6, CopySlotStep
<1>7. ASSUME InsertAfterResize
      PROVE  HtInv' /\ Abstract!Next
  BY <1>7, InsertAfterResizeStep DEF Abstract!Next
<1>8. ASSUME UNCHANGED htVars
      PROVE  HtInv' /\ UNCHANGED <<HtMap, answer>>
  <2>1. UNCHANGED <<table, copy, next, pending, answer>>
    BY <1>8 DEF htVars
  <2> QED BY <2>1 DEF HtInv, HtTypeOK, NotResizing, HtMap
<1> QED BY <1>1, <1>2, <1>3, <1>4, <1>5, <1>6, <1>7, <1>8 DEF HtNext, Resize

-----------------------------------------------------------------------------
(***************************************************************************)
(* The theorems.                                                           *)
(***************************************************************************)
(* The strengthened invariant of ht.c holds: what each table keeps, the    *)
(* room the thresholds leave, and what the copying loop has done so far.   *)
THEOREM HtInductive == HtSpec => []HtInv
<1>1. HtInit => HtInv
  BY InitStep
<1>2. HtInv /\ [HtNext]_htVars => HtInv'
  BY HtStep
<1> QED BY <1>1, <1>2, PTL DEF HtSpec

(* ht.c keeps its types, and its unsigned counters never go below zero.    *)
THEOREM HtTypeCorrect == HtSpec => []HtTypeOK
<1>1. HtInv => HtTypeOK
  BY DEF HtInv
<1> QED BY <1>1, HtInductive, PTL

(* The counters of ht.c cover the slots: tombstones is exact and size is   *)
(* never behind the entries, so that the thresholds see a full table.      *)
THEOREM CountersAlwaysCover == HtSpec => []CountersCover
<1>1. HtInv => CountersCover
  BY DEF HtInv, Sound, Counted, CountersCover
<1> QED BY <1>1, HtInductive, PTL

(* The probing loops of ht.c end: an empty slot is left in the table, and  *)
(* in the copy of a resize, for every hash function.                       *)
THEOREM SearchesEnd == HtSpec => []SearchEnds
<1>1. HtInv => SearchEnds
  <2> SUFFICES ASSUME HtInv PROVE SearchEnds
    OBVIOUS
  <2>1. Ends(table)
    BY RoomyEnds DEF HtInv
  <2>2. ASSUME ~NotResizing PROVE Ends(copy)
    <3>1. /\ Sound(table) /\ Roomy(table) /\ Sound(copy) /\ IsCopy(table, copy, next)
          /\ next \in 0 .. table.capacity
      BY <2>2 DEF HtInv, HtTypeOK
    <3>2. Roomy(copy)
      BY <3>1, CopyHasRoom
    <3> QED BY <3>1, <3>2, RoomyEnds
  <2> QED BY <2>1, <2>2 DEF SearchEnds
<1> QED BY <1>1, HtInductive, PTL

(* ht_lookup finds every entry of the table where ht_insert put it, after  *)
(* deletions, reuse of tombstones and resizes.                             *)
THEOREM EntriesAlwaysReachable == HtSpec => []EntriesReachable
<1>1. HtInv => EntriesReachable
  <2> SUFFICES ASSUME HtInv, NEW i \in Entries(table)
               PROVE  \E d \in 0 .. table.capacity - 1 :
                        /\ Probe(table, table.slots[i].key, d) = i
                        /\ FoundAt(table, table.slots[i].key, d)
    BY DEF EntriesReachable
  <2> DEFINE k == table.slots[i].key
             d == Away(table, k, i)
  <2>1. Sound(table) /\ IsTable(table) /\ table.capacity \in Nat /\ table.capacity # 0
    BY DEF HtInv, Sound, IsTable
  <2>2. i \in Places(table) /\ k \in Keys
    BY <2>1, EntryKey
  <2>3. FoundAt(table, k, d) /\ d \in Places(table)
    BY <2>1, <2>2, FoundAtEntry
  <2>4. Probe(table, k, d) = i
    BY <2>1, <2>2, ProbeIsRound
  <2> QED BY <2>3, <2>4 DEF Places
<1> QED BY <1>1, HtInductive, PTL

(* ht.c implements a map: every call answers as the map from keys to       *)
(* values would, and the rounds of a resize are not seen by the callers.   *)
THEOREM TableImplementsMap == HtSpec => ImplementsMap
<1>1. HtInit => Abstract!Init
  BY InitStep
<1>2. HtInv /\ [HtNext]_htVars => [Abstract!Next]_<<[k \in Keys |-> ValueOf(table, k)], answer>>
  BY HtStep DEF HtMap
<1> QED BY <1>1, <1>2, HtInductive, PTL DEF HtSpec, ImplementsMap, Abstract!Spec
=============================================================================
