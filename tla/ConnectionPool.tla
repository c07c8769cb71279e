--------------------------- MODULE ConnectionPool ---------------------------
(***************************************************************************)
(* app/db/source_client.py: the pools of database connections, one for     *)
(* each (db_type, source_id), each with its own lock.                      *)
(*                                                                         *)
(* source_connection() acquires a connection, runs its body, and releases  *)
(* the connection whether the body returns or raises.  acquire() keeps the *)
(* lock while it pings pooled connections and while it connects; release() *)
(* keeps it while it pings the connection it gives back.  The steps of     *)
(* different threads interleave everywhere a driver is waited for.         *)
(***************************************************************************)
EXTENDS Naturals, Sequences, FiniteSets

CONSTANTS
  Threads,     (* worker threads                                           *)
  Keys,        (* pool keys                                                *)
  Reconnecting,(* the keys whose driver reconnects a broken connection     *)
               (* when it validates it: MySQL and MariaDB                  *)
  Conns,       (* identities for connections; one is reused when closed,   *)
               (* so enough of them are enough for ever                    *)
  PoolSize,    (* DB_POOL_SIZE                                             *)
  None         (* no thread, or no connection                              *)

ASSUME PoolAssumption ==
  /\ PoolSize \in Nat
  /\ Keys # {}
  /\ Conns # {}
  /\ Reconnecting \subseteq Keys
  /\ None \notin Threads
  /\ None \notin Conns \union (Keys \X Conns)

VARIABLES
  pool,    (* _pools: the idle connections of each key, last in first out  *)
  lock,    (* _locks: the thread that holds the lock of each key, or None  *)
  status,  (* what each connection is: closed, live, or broken             *)
  up,      (* external: the databases that accept connections              *)
  job      (* for each thread: its place in source_connection, the key,    *)
           (* and the connection it has in hand                            *)

vars == <<pool, lock, status, up, job>>

PCs   == {"idle", "enter", "pop", "validate", "use", "leave", "revalidate",
          "close"}
Jobs  == [pc : PCs, key : Keys, conn : Conns \union {None}]
NoJob == [pc |-> "idle", key |-> CHOOSE k \in Keys : TRUE, conn |-> None]

Init ==
  /\ pool = [k \in Keys |-> <<>>]
  /\ lock = [k \in Keys |-> None]
  /\ status = [c \in Conns |-> "closed"]
  /\ up \in [Keys -> BOOLEAN]
  /\ job = [t \in Threads |-> NoJob]

-----------------------------------------------------------------------------
At(t, pc)  == job[t].pc = pc
KeyOf(t)   == job[t].key
ConnOf(t)  == job[t].conn
Become(t, pc, c) == job' = [job EXCEPT ![t] = [@ EXCEPT !.pc = pc, !.conn = c]]
Leave(t)   == job' = [job EXCEPT ![t] = NoJob]

FreeMutant(k) == k \in Keys
Free(k)     == lock[k] = None
Take(t, k)  == Free(k) /\ lock' = [lock EXCEPT ![k] = t]
Release(k)  == lock' = [lock EXCEPT ![k] = None]

(* The driver's validate: a live connection passes; a broken one passes    *)
(* only where the driver can and does reconnect it.                        *)
Passes(k, c) ==
  status[c] = "live" \/ (status[c] = "broken" /\ k \in Reconnecting /\ up[k])

(* A repository function enters source_connection.                         *)
Begin(t, k) ==
  /\ At(t, "idle")
  /\ job' = [job EXCEPT ![t] = [NoJob EXCEPT !.pc = "enter", !.key = k]]
  /\ UNCHANGED <<pool, lock, status, up>>

(* acquire: with lock ...                                                  *)
LockToAcquire(t) ==
  /\ At(t, "enter")
  /\ Take(t, KeyOf(t))
  /\ Become(t, "pop", None)
  /\ UNCHANGED <<pool, status, up>>

WithoutLastMutant(s) == s
WithoutLast(s) == SubSeq(s, 1, Len(s) - 1)

(* ... while pool: connection = pool.pop()                                 *)
Pop(t) ==
  LET idle == pool[KeyOf(t)]
  IN  /\ At(t, "pop")
      /\ idle # <<>>
      /\ pool' = [pool EXCEPT ![KeyOf(t)] = WithoutLast(idle)]
      /\ Become(t, "validate", idle[Len(idle)])
      /\ UNCHANGED <<lock, status, up>>

(* A connection that passes is returned; one that does not is closed and   *)
(* the loop goes on.                                                       *)
Validate(t) ==
  /\ At(t, "validate")
  /\ IF Passes(KeyOf(t), ConnOf(t))
       THEN /\ status' = [status EXCEPT ![ConnOf(t)] = "live"]
            /\ Release(KeyOf(t))
            /\ Become(t, "use", ConnOf(t))
       ELSE /\ status' = [status EXCEPT ![ConnOf(t)] = "closed"]
            /\ Become(t, "pop", None)
            /\ UNCHANGED lock
  /\ UNCHANGED <<pool, up>>

(* Any identity will do for a new connection.                              *)
Unused == CHOOSE c \in Conns : \A d \in Conns :
            status[d] = "closed" => status[c] = "closed"

(* The pool is empty: connect, still under the lock.  A driver that cannot *)
(* connect raises; so may one that could (a refusal, a wrong password).    *)
Connect(t) ==
  /\ At(t, "pop")
  /\ pool[KeyOf(t)] = <<>>
  /\ Release(KeyOf(t))
  /\ \/ /\ up[KeyOf(t)]
        /\ status[Unused] = "closed"
        /\ status' = [status EXCEPT ![Unused] = "live"]
        /\ Become(t, "use", Unused)
     \/ Leave(t) /\ UNCHANGED status
  /\ UNCHANGED <<pool, up>>

(* The body of the with statement returns or raises.                       *)
Use(t) ==
  /\ At(t, "use")
  /\ Become(t, "leave", ConnOf(t))
  /\ UNCHANGED <<pool, lock, status, up>>

HasRoomMutant(s) == Len(s) =< PoolSize
HasRoom(s) == Len(s) < PoolSize

(* release: the lock is kept only if there is room for the connection.     *)
LockToRelease(t) ==
  LET k == KeyOf(t)
  IN  /\ At(t, "leave")
      /\ Free(k)
      /\ IF HasRoom(pool[k])
           THEN Take(t, k) /\ Become(t, "revalidate", ConnOf(t))
           ELSE UNCHANGED lock /\ Become(t, "close", ConnOf(t))
      /\ UNCHANGED <<pool, status, up>>

(* What the driver's validate returns, None, is not what is pooled.        *)
PooledMutant(s, c) == Append(s, None)
Pooled(s, c) == Append(s, c)

Revalidate(t) ==
  LET k == KeyOf(t)
      c == ConnOf(t)
  IN  /\ At(t, "revalidate")
      /\ Release(k)
      /\ IF Passes(k, c)
           THEN /\ status' = [status EXCEPT ![c] = "live"]
                /\ pool' = [pool EXCEPT ![k] = Pooled(@, c)]
                /\ Leave(t)
           ELSE Become(t, "close", c) /\ UNCHANGED <<pool, status>>
      /\ UNCHANGED up

ClosedMutant(c) == status
Closed(c) == [status EXCEPT ![c] = "closed"]

(* No room, or the connection does not pass: it is closed, outside the     *)
(* lock.                                                                   *)
Close(t) ==
  /\ At(t, "close")
  /\ status' = Closed(ConnOf(t))
  /\ Leave(t)
  /\ UNCHANGED <<pool, lock, up>>

-----------------------------------------------------------------------------
(* External: a connection breaks, idle or in use, by a timeout or because  *)
(* the server dropped it; a database stops or resumes accepting new ones.  *)
Break(c) ==
  /\ status[c] = "live"
  /\ status' = [status EXCEPT ![c] = "broken"]
  /\ UNCHANGED <<pool, lock, up, job>>

Toggle(k) ==
  /\ up' = [up EXCEPT ![k] = ~@]
  /\ UNCHANGED <<pool, lock, status, job>>

Step(t) ==
  \/ LockToAcquire(t) \/ Pop(t) \/ Validate(t) \/ Connect(t) \/ Use(t)
  \/ LockToRelease(t) \/ Revalidate(t) \/ Close(t)

Next ==
  \/ \E t \in Threads : Step(t) \/ \E k \in Keys : Begin(t, k)
  \/ \E c \in Conns : Break(c)
  \/ \E k \in Keys : Toggle(k)

(* Every call of a driver returns or raises, and threads run.  Nothing is  *)
(* assumed about which of several waiting threads gets a lock.             *)
Fairness == \A t \in Threads : WF_vars(Step(t))

Spec == Init /\ [][Next]_vars /\ Fairness

-----------------------------------------------------------------------------
(* Type invariant.                                                         *)
TypeOK ==
  /\ pool \in [Keys -> Seq(Conns)]
  /\ lock \in [Keys -> Threads \union {None}]
  /\ status \in [Conns -> {"closed", "live", "broken"}]
  /\ up \in [Keys -> BOOLEAN]
  /\ job \in [Threads -> Jobs]

(* No pool ever holds more than DB_POOL_SIZE idle connections, though the  *)
(* room is checked before a ping that may take long and the connection is  *)
(* appended after it.                                                      *)
PoolBounded == \A k \in Keys : Len(pool[k]) =< PoolSize

(* No two threads ever have the same connection in hand, and none has one  *)
(* that is still in a pool or is in a pool twice: results of one query     *)
(* would be read by another.                                               *)
NotShared ==
  \A c \in Conns :
    /\ \A t1, t2 \in Threads : ConnOf(t1) = c /\ ConnOf(t2) = c => t1 = t2
    /\ \A t \in Threads, k \in Keys : \A i \in 1 .. Len(pool[k]) :
         pool[k][i] = c => ConnOf(t) # c
    /\ \A k1, k2 \in Keys : \A i \in 1 .. Len(pool[k1]), j \in 1 .. Len(pool[k2]) :
         pool[k1][i] = c /\ pool[k2][j] = c => k1 = k2 /\ i = j

(* A connection is open exactly as long as a pool or a thread has it: none *)
(* leaks when a ping fails, a body raises or a pool is full, and no closed *)
(* one is pooled or used.                                                  *)
Held(c) ==
  \/ \E t \in Threads : ConnOf(t) = c
  \/ \E k \in Keys : \E i \in 1 .. Len(pool[k]) : pool[k][i] = c
NoLeak == \A c \in Conns : status[c] # "closed" <=> Held(c)

(* A lock that is taken is given back, though it is kept through pings and *)
(* connects: the loop over a pool of dead connections ends.                *)
LockIsReleased == \A k \in Keys : lock[k] # None ~> lock[k] = None

(* For its users the pool is the one of PoolPromise: all that happens      *)
(* under the lock happens at once.  A connection that acquire pings counts *)
(* as idle until it passes.                                                *)
idleConns == [k \in Keys |->
  {pool[k][i] : i \in 1 .. Len(pool[k])} \union
  {ConnOf(t) : t \in {u \in Threads : At(u, "validate") /\ KeyOf(u) = k}}]
inHand == [t \in Threads |->
  IF job[t].pc \in {"use", "leave", "revalidate", "close"}
    THEN <<KeyOf(t), ConnOf(t)>> ELSE None]

Promise == INSTANCE PoolPromise WITH idle <- idleConns, hand <- inHand

(* source_connection does what PoolPromise says.                           *)
KeepsPromise == Promise!Spec
=============================================================================
