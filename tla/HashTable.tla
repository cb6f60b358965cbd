----------------------------- MODULE HashTable -----------------------------
(***************************************************************************)
(* The open-addressing hash table of jkdns: src/core/ht.c.                 *)
(*                                                                         *)
(* A key is looked for from the slot its hash names onwards, until an      *)
(* empty slot ends the search.  A deletion leaves a tombstone, which keeps *)
(* the search going and may be reused by an insertion.  A table that is    *)
(* too full, or has too many tombstones, is copied into one of twice the   *)
(* capacity; the copying loop takes one step per old slot here.            *)
(*                                                                         *)
(* A search for a slot, a loop in the code, is one expression here: the    *)
(* distance of the first empty slot.  If there is none the loop would not  *)
(* end, and the operation is not enabled (SearchEnds).                     *)
(***************************************************************************)
EXTENDS Integers, FiniteSets

CONSTANTS
  Keys, Values,
  Hash,         (* The hash of each key.                                   *)
  InitCapacity, (* Capacity of ht_create, a power of two.                  *)
  MaxCapacity,  (* Bound on the growth, for model checking.                *)
  NULL

ASSUME HashAssumption == Hash \in [Keys -> Nat]
ASSUME InitCapacityAssumption ==
  InitCapacity \in Nat \ {0} /\ \E n \in 0 .. InitCapacity : InitCapacity = 2 ^ n

(* NULL stands for no pointer and for no pending insertion.                *)
ASSUME NullAssumption ==
  NULL \notin Values /\ NULL \notin [key : Keys, value : Values]

VARIABLES
  table,    (* The live table.                                             *)
  copy,     (* new_ht of ht_resize, while a resize runs.                   *)
  next,     (* i of the copying loop.                                      *)
  pending,  (* Key and value of the insertion that resizes, NULL if none.  *)
  answer    (* What the last call returned.                                *)

htVars == <<table, copy, next, pending, answer>>

(* HTS_EMPTY, HTS_OCCUPIED and HTS_TOMBSTONE.                              *)
States == {"empty", "occupied", "tombstone"}

Free      == [state |-> "empty", key |-> NULL, value |-> NULL]
Tombstone == [state |-> "tombstone", key |-> NULL, value |-> NULL]
Occupied(k, v) == [state |-> "occupied", key |-> k, value |-> v]

(* A table: size and tombstones are counters of the code, kept beside the  *)
(* slots they count.                                                       *)
NewTable(c) ==
  [slots |-> [i \in 0 .. c - 1 |-> Free], capacity |-> c, size |-> 0, tombstones |-> 0]

(***************************************************************************)
(* Searching.                                                              *)
(***************************************************************************)
Home(t, k) == Hash[k] % t.capacity

(* The slot d places after the home of k, round the end of the array.      *)
Probe(t, k, d) ==
  IF Home(t, k) + d < t.capacity THEN Home(t, k) + d ELSE Home(t, k) + d - t.capacity

At(t, k, d) == t.slots[Probe(t, k, d)]

(* d is where the search for k ends: the first empty slot.                 *)
EndsAt(t, k, d) ==
  /\ d \in 0 .. t.capacity - 1
  /\ At(t, k, d).state = "empty"
  /\ \A c \in 0 .. d - 1 : At(t, k, c).state # "empty"

(* The slot d places on holds k.                                           *)
Holds(t, k, d) == At(t, k, d).state = "occupied" /\ At(t, k, d).key = k

(* k is found at distance d, before the search ends.                       *)
FoundAt(t, k, d) ==
  /\ d \in 0 .. t.capacity - 1
  /\ Holds(t, k, d)
  /\ \A c \in 0 .. d - 1 : At(t, k, c).state # "empty" /\ ~Holds(t, k, c)

IsIn(t, k) == \E d \in 0 .. t.capacity - 1 : FoundAt(t, k, d)

(* Every search in the table comes to an end.                              *)
Ends(t) == \A k \in Keys : \E d \in 0 .. t.capacity - 1 : EndsAt(t, k, d)

(* Mutant of InsertsAt: a tombstone is preferred to the key itself.        *)
InsertsAtTombstone(t, k, e, d) ==
  /\ d \in 0 .. e
  /\ IF d = e
       THEN \A c \in 0 .. e - 1 : At(t, k, c).state = "occupied" /\ ~Holds(t, k, c)
       ELSE /\ At(t, k, d).state = "tombstone" \/ Holds(t, k, d)
            /\ \A c \in 0 .. d - 1 : At(t, k, c).state = "occupied" /\ ~Holds(t, k, c)

(* The insertion_pos of ht_plain_insert, whose search always goes on to    *)
(* the first empty slot, at e: the key's own slot if it is on the way,     *)
(* else the first tombstone, else that empty slot.                         *)
InsertsAt(t, k, e, d) ==
  /\ d \in 0 .. e
  /\ \/ Holds(t, k, d)
     \/ /\ At(t, k, d).state # "occupied"
        /\ \A c \in 0 .. d - 1 : At(t, k, c).state = "occupied"
        /\ \A c \in 0 .. e : ~Holds(t, k, c)

(* Mutant of Written: a reused tombstone is still counted.                 *)
WrittenUncounted(t, k, v, d) ==
  [t EXCEPT !.slots[Probe(t, k, d)] = Occupied(k, v), !.size = @ + 1]

(* The table once k is written d slots from its home.                      *)
Written(t, k, v, d) ==
  [slots      |-> [t.slots EXCEPT ![Probe(t, k, d)] = Occupied(k, v)],
   capacity   |-> t.capacity,
   size       |-> t.size + 1,
   tombstones |-> IF At(t, k, d).state = "tombstone" THEN t.tombstones - 1 ELSE t.tombstones]

(* ht_plain_insert turns t into u: size grows even if the key was there.   *)
PlainInsert(t, k, v, u) ==
  \E e \in 0 .. t.capacity - 1 :
    /\ EndsAt(t, k, e)
    /\ \E d \in 0 .. e : InsertsAt(t, k, e, d) /\ u = Written(t, k, v, d)

(***************************************************************************)
(* The operations.                                                         *)
(***************************************************************************)
HtInit ==
  /\ table = NewTable(InitCapacity)
  /\ copy = NULL /\ next = 0 /\ pending = NULL
  /\ answer = "ok"

NotResizing == pending = NULL

(* Mutant of IsLoaded: tombstones do not count.                            *)
IsLoadedBySize(t) == (t.size + 1) * 10 >= t.capacity * 7

(* The two thresholds of ht_insert, 0.7 for entries, 0.2 for tombstones.   *)
IsLoaded(t) ==
  \/ (t.size + 1) * 10 >= t.capacity * 7
  \/ t.tombstones * 10 >= t.capacity * 2

(* ht_insert with room.                                                    *)
InsertNow(k, v) ==
  /\ NotResizing /\ ~IsLoaded(table)
  /\ PlainInsert(table, k, v, table')
  /\ answer' = "ok"
  /\ UNCHANGED <<copy, next, pending>>

(* ht_insert without: ht_resize starts a table of twice the capacity.      *)
InsertResizes(k, v) ==
  /\ NotResizing /\ IsLoaded(table)
  /\ table.capacity * 2 <= MaxCapacity
  /\ copy' = NewTable(table.capacity * 2)
  /\ next' = 0
  /\ pending' = [key |-> k, value |-> v]
  /\ UNCHANGED <<table, answer>>

(* ht_resize finds no memory, and the insertion fails with it.             *)
InsertFails ==
  /\ NotResizing /\ IsLoaded(table)
  /\ answer' = "failed"
  /\ UNCHANGED <<table, copy, next, pending>>

(* Mutant of CopySlot: the loop stops one slot short, at capacity - 2.     *)
CopyShort ==
  /\ ~NotResizing /\ next < table.capacity
  /\ LET s == table.slots[next] IN
       IF s.state = "occupied" /\ next < table.capacity - 1
         THEN PlainInsert(copy, s.key, s.value, copy')
         ELSE copy' = copy
  /\ next' = next + 1
  /\ UNCHANGED <<table, pending, answer>>

(* One iteration of the loop of ht_resize.                                 *)
CopySlot ==
  /\ ~NotResizing /\ next < table.capacity
  /\ LET s == table.slots[next] IN
       IF s.state = "occupied"
         THEN PlainInsert(copy, s.key, s.value, copy')
         ELSE copy' = copy
  /\ next' = next + 1
  /\ UNCHANGED <<table, pending, answer>>

(* The copy becomes the table and takes the pending key.                   *)
InsertAfterResize ==
  /\ ~NotResizing /\ next = table.capacity
  /\ PlainInsert(copy, pending.key, pending.value, table')
  /\ copy' = NULL /\ next' = 0 /\ pending' = NULL
  /\ answer' = "ok"

(* Mutant of Delete: the slot is emptied, which cuts other searches short. *)
DeleteToEmpty(k) ==
  /\ NotResizing
  /\ IF IsIn(table, k)
       THEN \E d \in 0 .. table.capacity - 1 :
              /\ FoundAt(table, k, d)
              /\ table' = [table EXCEPT !.slots[Probe(table, k, d)] = Free,
                                        !.size = @ - 1]
              /\ answer' = "ok"
       ELSE table' = table /\ answer' = "not_found"
  /\ UNCHANGED <<copy, next, pending>>

(* Mutant of Delete: an absent key is counted as deleted too.              *)
DeleteUncounted(k) ==
  /\ NotResizing
  /\ IF IsIn(table, k)
       THEN \E d \in 0 .. table.capacity - 1 :
              /\ FoundAt(table, k, d)
              /\ table' = [table EXCEPT !.slots[Probe(table, k, d)] = Tombstone,
                                        !.size = @ - 1, !.tombstones = @ + 1]
              /\ answer' = "ok"
       ELSE table' = [table EXCEPT !.size = @ - 1] /\ answer' = "not_found"
  /\ UNCHANGED <<copy, next, pending>>

(* ht_delete.                                                              *)
Delete(k) ==
  /\ NotResizing
  /\ IF IsIn(table, k)
       THEN \E d \in 0 .. table.capacity - 1 :
              /\ FoundAt(table, k, d)
              /\ table' = [slots      |-> [table.slots EXCEPT ![Probe(table, k, d)] = Tombstone],
                           capacity   |-> table.capacity,
                           size       |-> table.size - 1,
                           tombstones |-> table.tombstones + 1]
              /\ answer' = "ok"
       ELSE /\ \E d \in 0 .. table.capacity - 1 : EndsAt(table, k, d)
            /\ table' = table /\ answer' = "not_found"
  /\ UNCHANGED <<copy, next, pending>>

(* ht_lookup.                                                              *)
Lookup(k) ==
  /\ NotResizing
  /\ IF IsIn(table, k)
       THEN \E d \in 0 .. table.capacity - 1 :
              FoundAt(table, k, d) /\ answer' = At(table, k, d).value
       ELSE /\ \E d \in 0 .. table.capacity - 1 : EndsAt(table, k, d)
            /\ answer' = NULL
  /\ UNCHANGED <<table, copy, next, pending>>

Resize == CopySlot \/ InsertAfterResize

HtNext ==
  \/ \E k \in Keys :
       \/ Delete(k) \/ Lookup(k)
       \/ \E v \in Values : InsertNow(k, v) \/ InsertResizes(k, v)
  \/ InsertFails
  \/ Resize

HtSpec == HtInit /\ [][HtNext]_htVars

-----------------------------------------------------------------------------
(* The slots the counters count.                                           *)
Entries(t) == {i \in 0 .. t.capacity - 1 : t.slots[i].state = "occupied"}
Graves(t)  == {i \in 0 .. t.capacity - 1 : t.slots[i].state = "tombstone"}

(* A table of the right type; the counters are unsigned in the code.       *)
IsTable(t) ==
  /\ t.capacity \in Nat /\ t.size \in Nat /\ t.tombstones \in Nat
  /\ t.slots \in [0 .. t.capacity - 1 ->
                    {Free, Tombstone} \cup {Occupied(k, v) : k \in Keys, v \in Values}]

(* The type invariant, during a resize and outside it.                     *)
HtTypeOK ==
  /\ IsTable(table)
  /\ ~NotResizing => IsTable(copy) /\ pending \in [key : Keys, value : Values]
  /\ next \in 0 .. table.capacity
  /\ answer \in {"ok", "failed", "not_found", NULL} \cup Values

(* The counters against the slots.  tombstones is exact; size may run      *)
(* ahead of the entries, since overwriting a key counts it again, but it   *)
(* never falls behind, or the table would fill up unnoticed.               *)
CountersCover ==
  /\ table.tombstones = Cardinality(Graves(table))
  /\ table.size >= Cardinality(Entries(table))

(* No search loops for ever: an empty slot always remains, in the table    *)
(* and in the copy, whatever mix of entries and tombstones fills them.     *)
SearchEnds == Ends(table) /\ (~NotResizing => Ends(copy))

(* Every entry can be found by its key, and no key is entered twice, after *)
(* deletions in the middle of a chain and reuse of its tombstones.         *)
EntriesReachable ==
  \A i \in Entries(table) : \E d \in 0 .. table.capacity - 1 :
    /\ Probe(table, table.slots[i].key, d) = i
    /\ FoundAt(table, table.slots[i].key, d)

(* The map the table stands for: what its slots hold, however they are     *)
(* searched.                                                               *)
ValueOf(t, k) ==
  IF \E i \in Entries(t) : t.slots[i].key = k
    THEN t.slots[CHOOSE i \in Entries(t) : t.slots[i].key = k].value
    ELSE NULL

Abstract == INSTANCE KeyedMap WITH map <- [k \in Keys |-> ValueOf(table, k)]

(* Every call answers as the map would, through collisions, tombstones,    *)
(* resizes and failed allocations.                                         *)
ImplementsMap == Abstract!Spec
=============================================================================
