------------------------------ MODULE KeyedMap ------------------------------
(***************************************************************************)
(* What the callers of the hash table rely on: a map from keys to values   *)
(* with a constant answer per call.  udp_socket.c and udp_wq.c use it to   *)
(* find a connection or a queue cell by the peer's address.                *)
(***************************************************************************)
CONSTANTS
  Keys,     (* Addresses.                                                  *)
  Values,   (* Pointers to connections or queue cells.                     *)
  NULL

VARIABLES
  map,      (* The value of each key, NULL for an absent one.              *)
  answer    (* What the last call returned.                                *)

Init ==
  /\ map = [k \in Keys |-> NULL]
  /\ answer = "ok"

Insert(k, v) ==
  /\ answer' = "ok"
  /\ map' = [map EXCEPT ![k] = v]

(* An insertion may fail for want of memory, and then changes nothing.     *)
InsertFails ==
  /\ answer' = "failed"
  /\ map' = map

Delete(k) ==
  /\ answer' = IF map[k] = NULL THEN "not_found" ELSE "ok"
  /\ map' = [map EXCEPT ![k] = NULL]

Lookup(k) ==
  /\ answer' = map[k]
  /\ map' = map

Next ==
  \/ InsertFails
  \/ \E k \in Keys : Delete(k) \/ Lookup(k) \/ \E v \in Values : Insert(k, v)

Spec == Init /\ [][Next]_<<map, answer>>
=============================================================================
