----------------------------- MODULE PoolPromise -----------------------------
(***************************************************************************)
(* What the users of source_connection may count on: a connection in hand  *)
(* is in no other hand and in no pool; it was idle in the pool of the key  *)
(* it was asked for, or was opened because that pool had none to offer;    *)
(* and what is given back is kept only while the pool is below PoolSize.   *)
(***************************************************************************)
EXTENDS Naturals, FiniteSets

CONSTANTS Threads, Keys, Conns, PoolSize, None

VARIABLES idle,   (* the connections kept for each key                     *)
          hand    (* for each thread, None or <<key, connection>>          *)

vars == <<idle, hand>>

Init ==
  /\ idle = [k \in Keys |-> {}]
  /\ hand = [t \in Threads |-> None]

Hold(t, k, c) == hand[t] = None /\ hand' = [hand EXCEPT ![t] = <<k, c>>]

Fresh(c) ==
  /\ \A k \in Keys : c \notin idle[k]
  /\ \A t \in Threads, k \in Keys : hand[t] # <<k, c>>

Take(t, k, c) ==
  /\ c \in idle[k]
  /\ idle' = [idle EXCEPT ![k] = @ \ {c}]
  /\ Hold(t, k, c)

Open(t, k, c) == idle[k] = {} /\ Fresh(c) /\ Hold(t, k, c) /\ UNCHANGED idle

(* An idle connection that is dead is thrown away.                         *)
Discard(k, c) ==
  c \in idle[k] /\ idle' = [idle EXCEPT ![k] = @ \ {c}] /\ UNCHANGED hand

Give(t) ==
  \E k \in Keys, c \in Conns :
    /\ hand[t] = <<k, c>>
    /\ Cardinality(idle[k]) < PoolSize
    /\ idle' = [idle EXCEPT ![k] = @ \union {c}]
    /\ hand' = [hand EXCEPT ![t] = None]

(* The pool is full, or the connection is dead: it is closed.              *)
Drop(t) == hand[t] # None /\ hand' = [hand EXCEPT ![t] = None] /\ UNCHANGED idle

Next ==
  \/ \E t \in Threads :
       \/ \E k \in Keys, c \in Conns : Take(t, k, c) \/ Open(t, k, c)
       \/ Give(t) \/ Drop(t)
  \/ \E k \in Keys, c \in Conns : Discard(k, c)

Spec == Init /\ [][Next]_vars
=============================================================================
