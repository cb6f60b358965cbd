------------------------------- MODULE Relay -------------------------------
(***************************************************************************)
(* What the echo proxy promises for each of its contexts: the client and   *)
(* the remote speak in turns.  The proxy hears some bytes from one end,    *)
(* tells them to the other end, all of them and in order, and then hears   *)
(* that other end.  It gives up a relay, with what it holds, at any time.  *)
(***************************************************************************)
EXTENDS Integers, Sequences

CONSTANTS Contexts, MaxBytes

VARIABLES
  turn,   (* What each context is at.                                      *)
  held,   (* The bytes heard and not told yet.                             *)
  heard   (* How many bytes the client and the remote have said.           *)

relayVars == <<turn, held, heard>>

Silence == [client |-> 0, remote |-> 0]

Init ==
  /\ turn = [c \in Contexts |-> "none"]
  /\ held = [c \in Contexts |-> <<>>]
  /\ heard = [c \in Contexts |-> Silence]

(* The bytes of one end are numbered in the order it says them.            *)
Said(c, end, n) == [i \in 1 .. n |-> heard[c][end] + i]

(* n bytes of an end, the client's first ones opening the relay.           *)
Hear(c, end, n) ==
  /\ turn[c] \in (IF end = "client" THEN {"none", "clientRead"} ELSE {"remoteRead"})
  /\ turn' = [turn EXCEPT ![c] = IF end = "client" THEN "remoteWrite" ELSE "clientWrite"]
  /\ held' = [held EXCEPT ![c] = Said(c, end, n)]
  /\ heard' = [heard EXCEPT ![c][end] = @ + n]

(* The first n bytes held are told, and the turn passes after the last.    *)
Tell(c, end, n) ==
  /\ turn[c] = IF end = "client" THEN "clientWrite" ELSE "remoteWrite"
  /\ n <= Len(held[c])
  /\ held' = [held EXCEPT ![c] = SubSeq(@, n + 1, Len(@))]
  /\ turn' = [turn EXCEPT ![c] =
                IF n < Len(held[c]) THEN @
                ELSE IF end = "client" THEN "clientRead" ELSE "remoteRead"]
  /\ UNCHANGED heard

GiveUp(c) ==
  /\ turn' = [turn EXCEPT ![c] = "none"]
  /\ held' = [held EXCEPT ![c] = <<>>]
  /\ heard' = [heard EXCEPT ![c] = Silence]

Next ==
  \E c \in Contexts :
    \/ GiveUp(c)
    \/ \E end \in {"client", "remote"}, n \in 1 .. MaxBytes : Hear(c, end, n) \/ Tell(c, end, n)

Spec == Init /\ [][Next]_relayVars
=============================================================================
