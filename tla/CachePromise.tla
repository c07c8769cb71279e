---------------------------- MODULE CachePromise ----------------------------
(***************************************************************************)
(* What a caller of query_cache.get_or_set may count on, whatever backend  *)
(* is in use: a request is answered, or fails, and an answer is the state  *)
(* of the database at some instant that is less than Horizon before the    *)
(* request was made.  Values are abstracted to the time they were read.    *)
(***************************************************************************)
EXTENDS Integers

CONSTANTS Threads, Horizon, MaxClock

VARIABLES clock,   (* the time                                             *)
          phase,   (* "idle", "waiting" or "answered", for each thread     *)
          asked,   (* when the thread made its request                     *)
          answer   (* when the answer it was given was read                *)

vars == <<clock, phase, asked, answer>>

Init ==
  /\ clock \in 0 .. MaxClock
  /\ phase = [t \in Threads |-> "idle"]
  /\ asked = [t \in Threads |-> 0]
  /\ answer = [t \in Threads |-> 0]

Tick == clock' \in (clock + 1) .. MaxClock /\ UNCHANGED <<phase, asked, answer>>

Ask(t) ==
  /\ phase[t] = "idle"
  /\ phase' = [phase EXCEPT ![t] = "waiting"]
  /\ asked' = [asked EXCEPT ![t] = clock]
  /\ UNCHANGED <<clock, answer>>

Reply(t) ==
  /\ phase[t] = "waiting"
  /\ phase' = [phase EXCEPT ![t] = "answered"]
  /\ \E v \in 0 .. clock :
       /\ v > asked[t] - Horizon
       /\ answer' = [answer EXCEPT ![t] = v]
  /\ UNCHANGED <<clock, asked>>

(* The answer is handed over, or the request fails.                        *)
End(t) ==
  /\ phase[t] # "idle"
  /\ phase' = [phase EXCEPT ![t] = "idle"]
  /\ asked' = [asked EXCEPT ![t] = 0]
  /\ answer' = [answer EXCEPT ![t] = 0]
  /\ UNCHANGED clock

Next == Tick \/ \E t \in Threads : Ask(t) \/ Reply(t) \/ End(t)

Safety == Init /\ [][Next]_vars

Spec == /\ Safety
        /\ \A t \in Threads : WF_vars(Reply(t) \/ End(t))
=============================================================================
