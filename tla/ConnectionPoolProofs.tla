------------------------ MODULE ConnectionPoolProofs ------------------------
(***************************************************************************)
(* Proofs about ConnectionPool, for any number of threads, keys and        *)
(* connections and any pool size: the bound on a pool, that no connection  *)
(* has two owners, that exactly the owned ones are open, and the           *)
(* refinement of PoolPromise.                                              *)
(***************************************************************************)
EXTENDS ConnectionPool, SequenceTheorems, FiniteSetTheorems, TLAPS

-----------------------------------------------------------------------------
(* The two operations on the deque.                                        *)

(* deque.pop() takes the last connection and leaves the others in place.   *)
LEMMA PopFacts ==
  ASSUME NEW S, NEW s \in Seq(S), s # <<>>
  PROVE  /\ Len(s) \in Nat /\ Len(s) > 0
         /\ s[Len(s)] \in S
         /\ WithoutLast(s) \in Seq(S)
         /\ Len(WithoutLast(s)) = Len(s) - 1
         /\ \A i \in 1 .. Len(s) - 1 : WithoutLast(s)[i] = s[i]
<1>1. Len(s) \in Nat /\ Len(s) > 0
  OBVIOUS
<1>2. \A i \in 1 .. Len(s) : s[i] \in S
  OBVIOUS
<1>. DEFINE n == Len(s) - 1
<1>3. n \in Nat /\ \A i \in 1 .. n : s[i] \in S
  BY <1>1, <1>2
<1>4. WithoutLast(s) = SubSeq(s, 1, n)
  BY DEF WithoutLast
<1>. HIDE DEF n
<1>5. /\ SubSeq(s, 1, n) \in Seq(S)
      /\ Len(SubSeq(s, 1, n)) = n
      /\ \A i \in 1 .. n : SubSeq(s, 1, n)[i] = s[i]
  BY <1>3
<1>. QED
  BY <1>1, <1>2, <1>4, <1>5 DEF n

(* deque.append() puts the connection last and leaves the others in place. *)
LEMMA AppendFacts ==
  ASSUME NEW S, NEW s \in Seq(S), NEW e \in S
  PROVE  /\ Len(s) \in Nat
         /\ Pooled(s, e) \in Seq(S)
         /\ Len(Pooled(s, e)) = Len(s) + 1
         /\ \A i \in 1 .. Len(s) : Pooled(s, e)[i] = s[i]
         /\ Pooled(s, e)[Len(s) + 1] = e
BY LenProperties, AppendProperties DEF Pooled

-----------------------------------------------------------------------------
(* Type correctness.  It needs to know that a thread has a connection in   *)
(* hand at the steps that use one.                                         *)

Holding == {"validate", "use", "leave", "revalidate", "close"}

InHand == \A t \in Threads : ConnOf(t) # None <=> job[t].pc \in Holding

(* The record of a thread that holds nothing is a job.                     *)
LEMMA NoJobType == NoJob \in Jobs
<1>1. (CHOOSE k \in Keys : TRUE) \in Keys
  BY PoolAssumption
<1>. QED
  BY <1>1 DEF NoJob, Jobs, PCs

(* The connection that is opened next is a connection.                     *)
LEMMA UnusedType == Unused \in Conns
<1>1. \E c \in Conns : \A d \in Conns :
        status[d] = "closed" => status[c] = "closed"
  <2>1. CASE \E c \in Conns : status[c] = "closed"
    BY <2>1
  <2>2. CASE ~\E c \in Conns : status[c] = "closed"
    BY <2>2, PoolAssumption
  <2>. QED
    BY <2>1, <2>2
<1>. QED
  BY <1>1 DEF Unused

(* A thread moves to a label with a connection in hand, or with none; the  *)
(* other threads do not move.                                              *)
LEMMA BecomeFacts ==
  ASSUME TypeOK, NEW t \in Threads, NEW pc, NEW c, Become(t, pc, c)
  PROVE  /\ job'[t].pc = pc /\ job'[t].conn = c /\ job'[t].key = job[t].key
         /\ \A u \in Threads \ {t} : job'[u] = job[u]
         /\ pc \in PCs /\ c \in Conns \union {None} => job' \in [Threads -> Jobs]
BY DEF TypeOK, Become, Jobs

(* A thread leaves the pool empty-handed; the other threads do not move.   *)
LEMMA LeaveFacts ==
  ASSUME TypeOK, NEW t \in Threads, Leave(t)
  PROVE  /\ job' \in [Threads -> Jobs]
         /\ job'[t].pc = "idle" /\ job'[t].conn = None
         /\ \A u \in Threads \ {t} : job'[u] = job[u]
BY NoJobType DEF TypeOK, Leave, NoJob

(* The types after one thread's step, from the types of what it assigned.  *)
LEMMA JobStep ==
  ASSUME TypeOK, InHand, NEW t \in Threads,
         \/ \E pc \in PCs, c \in Conns \union {None} :
              Become(t, pc, c) /\ (c # None <=> pc \in Holding)
         \/ Leave(t)
  PROVE  job' \in [Threads -> Jobs] /\ InHand'
<1>1. ASSUME NEW pc \in PCs, NEW c \in Conns \union {None},
             Become(t, pc, c), c # None <=> pc \in Holding
      PROVE  job' \in [Threads -> Jobs] /\ InHand'
  BY <1>1, BecomeFacts DEF InHand, ConnOf
<1>2. CASE Leave(t)
  BY <1>2, LeaveFacts DEF InHand, ConnOf, Holding
<1>. QED
  BY <1>1, <1>2

(* The first state is well typed.                                          *)
LEMMA TypeInit == Init => TypeOK /\ InHand
<1> SUFFICES ASSUME Init PROVE TypeOK /\ InHand
  OBVIOUS
<1>1. pool \in [Keys -> Seq(Conns)]
  BY EmptySeq, Zenon DEF Init
<1>2. InHand
  BY DEF Init, InHand, Holding, NoJob, ConnOf
<1>. QED
  BY <1>1, <1>2, NoJobType DEF Init, TypeOK

(* Every step keeps the types, and a thread past the pop has a connection. *)
LEMMA TypeStep == TypeOK /\ InHand /\ [Next]_vars => TypeOK' /\ InHand'
<1> SUFFICES ASSUME TypeOK, InHand, [Next]_vars
             PROVE  TypeOK' /\ InHand'
  OBVIOUS
<1>0. /\ \A t \in Threads : job[t].key \in Keys
      /\ \A t \in Threads : job[t].pc \in Holding => ConnOf(t) \in Conns
      /\ \A k \in Keys : pool[k] \in Seq(Conns)
      /\ None \notin Conns
  BY PoolAssumption DEF TypeOK, Jobs, InHand, ConnOf
<1>1. ASSUME NEW t \in Threads, NEW k \in Keys, Begin(t, k)
      PROVE  TypeOK' /\ InHand'
  <2>1. [NoJob EXCEPT !.pc = "enter", !.key = k] \in Jobs
    BY NoJobType DEF Jobs, PCs
  <2>. QED
    BY <1>1, <2>1, NoJobType
       DEF Begin, TypeOK, NoJob, Jobs, InHand, ConnOf, Holding
<1>2. ASSUME NEW t \in Threads, LockToAcquire(t) PROVE TypeOK' /\ InHand'
  <2>1. job' \in [Threads -> Jobs] /\ InHand'
    BY <1>2, JobStep DEF LockToAcquire, PCs, Holding
  <2>. QED
    BY <1>2, <2>1 DEF LockToAcquire, Take, TypeOK
<1>3. ASSUME NEW t \in Threads, Pop(t) PROVE TypeOK' /\ InHand'
  <2>. DEFINE idle == pool[KeyOf(t)]
  <2>1. /\ idle[Len(idle)] \in Conns
        /\ WithoutLast(idle) \in Seq(Conns)
    BY <1>0, <1>3, PopFacts DEF Pop, KeyOf
  <2>2. Become(t, "validate", idle[Len(idle)])
    BY <1>3 DEF Pop
  <2>3. job' \in [Threads -> Jobs] /\ InHand'
    BY <1>0, <2>1, <2>2, JobStep DEF PCs, Holding
  <2>. QED
    BY <1>3, <2>1, <2>3 DEF Pop, TypeOK
<1>4. ASSUME NEW t \in Threads, Validate(t) PROVE TypeOK' /\ InHand'
  <2>1. ConnOf(t) \in Conns
    BY <1>0, <1>4 DEF Validate, At, Holding
  <2>2. Become(t, "use", ConnOf(t)) \/ Become(t, "pop", None)
    BY <1>4 DEF Validate
  <2>3. job' \in [Threads -> Jobs] /\ InHand'
    BY <1>0, <2>1, <2>2, JobStep DEF PCs, Holding
  <2>. QED
    BY <1>4, <2>1, <2>3 DEF Validate, Release, TypeOK
<1>5. ASSUME NEW t \in Threads, Connect(t) PROVE TypeOK' /\ InHand'
  <2>1. Become(t, "use", Unused) \/ Leave(t)
    BY <1>5 DEF Connect
  <2>2. job' \in [Threads -> Jobs] /\ InHand'
    BY <1>0, <2>1, UnusedType, JobStep DEF PCs, Holding
  <2>. QED
    BY <1>5, <2>2, UnusedType DEF Connect, Release, TypeOK
<1>6. ASSUME NEW t \in Threads, Use(t) PROVE TypeOK' /\ InHand'
  <2>1. ConnOf(t) \in Conns /\ Become(t, "leave", ConnOf(t))
    BY <1>0, <1>6 DEF Use, At, Holding
  <2>2. job' \in [Threads -> Jobs] /\ InHand'
    BY <1>0, <2>1, JobStep DEF PCs, Holding
  <2>. QED
    BY <1>6, <2>2 DEF Use, TypeOK
<1>7. ASSUME NEW t \in Threads, LockToRelease(t) PROVE TypeOK' /\ InHand'
  <2>1. /\ ConnOf(t) \in Conns
        /\ Become(t, "revalidate", ConnOf(t)) \/ Become(t, "close", ConnOf(t))
    BY <1>0, <1>7 DEF LockToRelease, At, Holding
  <2>2. job' \in [Threads -> Jobs] /\ InHand'
    BY <1>0, <2>1, JobStep DEF PCs, Holding
  <2>. QED
    BY <1>7, <2>2 DEF LockToRelease, Take, TypeOK
<1>8. ASSUME NEW t \in Threads, Revalidate(t) PROVE TypeOK' /\ InHand'
  <2>1. /\ ConnOf(t) \in Conns
        /\ Leave(t) \/ Become(t, "close", ConnOf(t))
    BY <1>0, <1>8 DEF Revalidate, At, Holding
  <2>2. job' \in [Threads -> Jobs] /\ InHand'
    BY <1>0, <2>1, JobStep DEF PCs, Holding
  <2>3. Pooled(pool[KeyOf(t)], ConnOf(t)) \in Seq(Conns)
    BY <1>0, <2>1, AppendFacts DEF KeyOf
  <2>. QED
    BY <1>8, <2>1, <2>2, <2>3 DEF Revalidate, Release, TypeOK
<1>9. ASSUME NEW t \in Threads, Close(t) PROVE TypeOK' /\ InHand'
  <2>1. job' \in [Threads -> Jobs] /\ InHand'
    BY <1>9, JobStep DEF Close
  <2>. QED
    BY <1>9, <2>1 DEF Close, Closed, TypeOK
<1>10. ASSUME NEW c \in Conns, Break(c) PROVE TypeOK' /\ InHand'
  BY <1>10 DEF Break, TypeOK, InHand, ConnOf
<1>11. ASSUME NEW k \in Keys, Toggle(k) PROVE TypeOK' /\ InHand'
  BY <1>11 DEF Toggle, TypeOK, InHand, ConnOf
<1>12. CASE UNCHANGED vars
  BY <1>12 DEF vars, TypeOK, InHand, ConnOf
<1>. QED
  BY <1>1, <1>2, <1>3, <1>4, <1>5, <1>6, <1>7, <1>8, <1>9, <1>10, <1>11, <1>12
     DEF Next, Step

(* Every variable keeps its shape: a pool holds connections, and nothing   *)
(* else, at every step.                                                    *)
THEOREM TypeCorrect == Spec => [](TypeOK /\ InHand)
BY TypeInit, TypeStep, PTL DEF Spec

-----------------------------------------------------------------------------
(* The bound on the pools.  The thread that checked for room has the lock  *)
(* until it has appended, so the room is still there.                      *)

LockAgrees ==
  \A t \in Threads, k \in Keys :
    lock[k] = t <=> KeyOf(t) = k /\ job[t].pc \in {"pop", "validate", "revalidate"}

RoomKept ==
  \A t \in Threads : At(t, "revalidate") => HasRoom(pool[KeyOf(t)])

(* No pool is locked at first.                                             *)
LEMMA LockInit == Init => LockAgrees /\ RoomKept
BY PoolAssumption
   DEF Init, LockAgrees, RoomKept, NoJob, KeyOf, At

(* A step keeps the lock of a pool with the one thread in its critical     *)
(* section.                                                                *)
LEMMA LockStep ==
  TypeOK /\ LockAgrees /\ [Next]_vars => LockAgrees'
<1> SUFFICES ASSUME TypeOK, LockAgrees, [Next]_vars PROVE LockAgrees'
  OBVIOUS
<1> USE DEF LockAgrees, KeyOf, At
<1>0. /\ \A t \in Threads : job[t].key \in Keys
      /\ \A t \in Threads : job[t] \in Jobs
      /\ None \notin Threads
  BY PoolAssumption DEF TypeOK, Jobs
<1>1. ASSUME NEW t \in Threads, NEW k \in Keys, Begin(t, k) PROVE LockAgrees'
  BY <1>1 DEF Begin, TypeOK, NoJob
<1>2. ASSUME NEW t \in Threads, LockToAcquire(t) PROVE LockAgrees'
  <2>1. Become(t, "pop", None) /\ lock[job[t].key] = None
    BY <1>2 DEF LockToAcquire, Take, Free
  <2>. QED
    BY <1>0, <1>2, <2>1, BecomeFacts DEF LockToAcquire, Take, TypeOK
<1>3. ASSUME NEW t \in Threads, Pop(t) PROVE LockAgrees'
  <2>1. \E c : Become(t, "validate", c)
    BY <1>3 DEF Pop
  <2>. QED
    BY <1>3, <2>1, BecomeFacts DEF Pop
<1>4. ASSUME NEW t \in Threads, Validate(t) PROVE LockAgrees'
  <2>1. CASE Release(KeyOf(t)) /\ Become(t, "use", ConnOf(t))
    BY <1>0, <1>4, <2>1, BecomeFacts DEF Validate, Release, TypeOK
  <2>2. CASE UNCHANGED lock /\ Become(t, "pop", None)
    BY <1>4, <2>2, BecomeFacts DEF Validate
  <2>. QED
    BY <1>4, <2>1, <2>2 DEF Validate
<1>5. ASSUME NEW t \in Threads, Connect(t) PROVE LockAgrees'
  <2>1. CASE Become(t, "use", Unused)
    <3>1. job[t].pc = "pop" /\ lock' = [lock EXCEPT ![job[t].key] = None]
      BY <1>5 DEF Connect, Release
    <3>2. /\ job'[t].pc = "use" /\ job'[t].key = job[t].key
          /\ \A u \in Threads \ {t} : job'[u] = job[u]
      BY <2>1, BecomeFacts
    <3>3. ASSUME NEW k \in Keys PROVE lock'[k] = IF k = job[t].key THEN None ELSE lock[k]
      BY <3>1 DEF TypeOK
    <3>4. ASSUME NEW u \in Threads \ {t}, NEW k \in Keys
          PROVE  lock'[k] = u <=> lock[k] = u
      BY <1>0, <3>1, <3>3
    <3>. QED
      BY <1>0, <3>2, <3>3, <3>4
  <2>2. CASE Leave(t)
    BY <1>0, <1>5, <2>2, LeaveFacts DEF Connect, Release, TypeOK
  <2>. QED
    BY <1>5, <2>1, <2>2 DEF Connect
<1>6. ASSUME NEW t \in Threads, Use(t) PROVE LockAgrees'
  <2>1. Become(t, "leave", ConnOf(t))
    BY <1>6 DEF Use
  <2>. QED
    BY <1>6, <2>1, BecomeFacts DEF Use
<1>7. ASSUME NEW t \in Threads, LockToRelease(t) PROVE LockAgrees'
  <2>1. CASE Take(t, KeyOf(t)) /\ Become(t, "revalidate", ConnOf(t))
    BY <1>0, <1>7, <2>1, BecomeFacts DEF LockToRelease, Take, Free, TypeOK
  <2>2. CASE UNCHANGED lock /\ Become(t, "close", ConnOf(t))
    BY <1>7, <2>2, BecomeFacts DEF LockToRelease
  <2>. QED
    BY <1>7, <2>1, <2>2 DEF LockToRelease
<1>8. ASSUME NEW t \in Threads, Revalidate(t) PROVE LockAgrees'
  <2>1. CASE Leave(t)
    BY <1>0, <1>8, <2>1, LeaveFacts DEF Revalidate, Release, TypeOK
  <2>2. CASE Become(t, "close", ConnOf(t))
    BY <1>0, <1>8, <2>2, BecomeFacts DEF Revalidate, Release, TypeOK
  <2>. QED
    BY <1>8, <2>1, <2>2 DEF Revalidate
<1>9. ASSUME NEW t \in Threads, Close(t) PROVE LockAgrees'
  <2>1. Leave(t)
    BY <1>9 DEF Close
  <2>. QED
    BY <1>9, <2>1, LeaveFacts DEF Close
<1>10. CASE UNCHANGED <<lock, job>>
  BY <1>10
<1>. QED
  BY <1>1, <1>2, <1>3, <1>4, <1>5, <1>6, <1>7, <1>8, <1>9, <1>10
     DEF Next, Step, Break, Toggle, vars

(* A step keeps every pool within DB_POOL_SIZE, since the room checked     *)
(* under the lock is still there at the append.                            *)
LEMMA BoundStep ==
  /\ TypeOK /\ InHand /\ LockAgrees /\ RoomKept /\ PoolBounded
  /\ [Next]_vars
  => RoomKept' /\ PoolBounded'
<1> SUFFICES ASSUME TypeOK, InHand, LockAgrees, RoomKept, PoolBounded,
                    [Next]_vars
             PROVE  RoomKept' /\ PoolBounded'
  OBVIOUS
<1> USE DEF RoomKept, PoolBounded, HasRoom, KeyOf, At
<1>0. /\ \A t \in Threads : job[t].key \in Keys
      /\ \A t \in Threads : job[t] \in Jobs
      /\ \A k \in Keys : pool[k] \in Seq(Conns) /\ Len(pool[k]) \in Nat
      /\ PoolSize \in Nat
  BY PoolAssumption DEF TypeOK, Jobs
<1>1. ASSUME NEW t \in Threads,
             \/ \E k \in Keys : Begin(t, k)
             \/ LockToAcquire(t) \/ Validate(t) \/ Connect(t) \/ Use(t) \/ Close(t)
      PROVE  RoomKept' /\ PoolBounded'
  <2>1. \/ \E k \in Keys : Begin(t, k)
        \/ \E pc \in {"pop", "use", "leave"} : \E c : Become(t, pc, c)
        \/ Leave(t)
    BY <1>1 DEF LockToAcquire, Validate, Connect, Use, Close
  <2>2. /\ job'[t].pc # "revalidate"
        /\ \A u \in Threads \ {t} : job'[u] = job[u]
    <3>1. CASE \E k \in Keys : Begin(t, k)
      BY <3>1 DEF Begin, NoJob, TypeOK
    <3>2. ASSUME NEW pc \in {"pop", "use", "leave"}, NEW c, Become(t, pc, c)
          PROVE  job'[t].pc # "revalidate" /\ \A u \in Threads \ {t} : job'[u] = job[u]
      BY <3>2, BecomeFacts
    <3>3. CASE Leave(t)
      BY <3>3, LeaveFacts
    <3>. QED
      BY <2>1, <3>1, <3>2, <3>3
  <2>3. UNCHANGED pool
    BY <1>1 DEF Begin, LockToAcquire, Validate, Connect, Use, Close
  <2>. QED
    BY <2>2, <2>3
<1>2. ASSUME NEW t \in Threads, Pop(t) PROVE RoomKept' /\ PoolBounded'
  <2>. DEFINE k == job[t].key
  <2>1. Len(WithoutLast(pool[k])) = Len(pool[k]) - 1
    BY <1>0, <1>2, PopFacts DEF Pop
  <2>0. \E c : Become(t, "validate", c)
    BY <1>2 DEF Pop
  <2>2. /\ pool' = [pool EXCEPT ![k] = WithoutLast(pool[k])]
        /\ job'[t].pc = "validate"
        /\ \A u \in Threads \ {t} : job'[u] = job[u]
    BY <1>2, <2>0, BecomeFacts DEF Pop
  <2>3. \A l \in Keys : Len(pool'[l]) =< Len(pool[l]) /\ Len(pool'[l]) \in Int
    BY <1>0, <2>1, <2>2 DEF TypeOK
  <2>4. \A u \in Threads : job'[u].pc = "revalidate" => job'[u] = job[u]
    BY <2>2
  <2>. QED
    BY <1>0, <2>3, <2>4
<1>3. ASSUME NEW t \in Threads, LockToRelease(t) PROVE RoomKept' /\ PoolBounded'
  <2>1. \/ Become(t, "revalidate", ConnOf(t)) /\ HasRoom(pool[job[t].key])
        \/ Become(t, "close", ConnOf(t))
    BY <1>3 DEF LockToRelease
  <2>2. /\ job'[t].pc = "revalidate" => HasRoom(pool[job[t].key])
        /\ job'[t].key = job[t].key
        /\ \A u \in Threads \ {t} : job'[u] = job[u]
    BY <2>1, BecomeFacts
  <2>3. UNCHANGED pool
    BY <1>3 DEF LockToRelease
  <2>. QED
    BY <2>2, <2>3
<1>4. ASSUME NEW t \in Threads, Revalidate(t) PROVE RoomKept' /\ PoolBounded'
  <2>. DEFINE k == job[t].key
  <2>1. /\ job[t].pc = "revalidate" /\ Len(pool[k]) < PoolSize
        /\ job[t].conn \in Conns
    BY <1>0, <1>4 DEF Revalidate, InHand, Holding, Jobs, ConnOf
  <2>0. Leave(t) \/ Become(t, "close", ConnOf(t))
    BY <1>4 DEF Revalidate
  <2>2. /\ job'[t].pc # "revalidate"
        /\ \A u \in Threads \ {t} : job'[u] = job[u]
    BY <2>0, BecomeFacts, LeaveFacts
  <2>3. \A u \in Threads \ {t} : job[u].pc = "revalidate" => job[u].key # k
    <3>1. k \in Keys /\ lock[k] = t
      BY <1>0, <2>1 DEF LockAgrees
    <3>. QED
      BY <3>1 DEF LockAgrees
  <2>4. Len(Pooled(pool[k], job[t].conn)) = Len(pool[k]) + 1
    <3>1. pool[k] \in Seq(Conns)
      BY <1>0
    <3>. HIDE DEF k
    <3>. QED
      BY <2>1, <3>1, AppendFacts
  <2>5. \/ pool' = [pool EXCEPT ![k] = Pooled(pool[k], job[t].conn)]
        \/ pool' = pool
    BY <1>4 DEF Revalidate, ConnOf
  <2>6. \A l \in Keys : pool'[l] = pool[l] \/ (l = k /\ Len(pool'[l]) = Len(pool[k]) + 1)
    <3>1. DOMAIN pool = Keys
      BY DEF TypeOK
    <3>. HIDE DEF k
    <3>2. \A l \in Keys : pool'[l] = pool[l] \/ (l = k /\ pool'[l] = Pooled(pool[k], job[t].conn))
      BY <2>5, <3>1
    <3>. QED
      BY <2>4, <3>2
  <2>7. k \in Keys /\ Len(pool[k]) \in Nat
    BY <1>0
  <2>. HIDE DEF k
  <2>8. PoolBounded'
    BY <1>0, <2>1, <2>6, <2>7
  <2>9. RoomKept'
    <3> SUFFICES ASSUME NEW u \in Threads, job'[u].pc = "revalidate"
                 PROVE  Len(pool'[job'[u].key]) < PoolSize
      OBVIOUS
    <3>1. u # t /\ job'[u] = job[u] /\ job[u].key # k /\ job[u].key \in Keys
      BY <1>0, <2>2, <2>3
    <3>. QED
      BY <2>6, <3>1
  <2>. QED
    BY <2>8, <2>9
<1>5. CASE UNCHANGED <<pool, job>>
  BY <1>5
<1>. QED
  BY <1>1, <1>2, <1>3, <1>4, <1>5 DEF Next, Step, Break, Toggle, vars

(* The three parts of the bound hold in every reachable state.             *)
LEMMA LocksHold == Spec => [](LockAgrees /\ RoomKept /\ PoolBounded)
<1>1. Init => PoolBounded
  BY PoolAssumption DEF Init, PoolBounded
<1>. QED
  BY <1>1, LockInit, LockStep, BoundStep, TypeCorrect, PTL DEF Spec

(* No pool outgrows DB_POOL_SIZE, however long the ping between the check  *)
(* and the append takes.                                                   *)
THEOREM PoolsAreBounded == Spec => []PoolBounded
BY LocksHold, PTL

-----------------------------------------------------------------------------
(* Ownership.  One lemma for each way in which a connection changes hands. *)

Owned == NotShared /\ NoLeak

(* A step that moves no connection changes no owner.                       *)
LEMMA SameOwners ==
  ASSUME Owned, UNCHANGED pool,
         \A t \in Threads : ConnOf(t)' = ConnOf(t),
         \A c \in Conns : status'[c] = "closed" <=> status[c] = "closed"
  PROVE  Owned'
<1>1. NotShared'
  BY DEF Owned, NotShared
<1>2. NoLeak'
  BY DEF Owned, NoLeak, Held
<1>. QED
  BY <1>1, <1>2 DEF Owned

(* A closed connection is nobody's; opened, it is its thread's alone.      *)
LEMMA Opened ==
  ASSUME Owned, UNCHANGED pool, NEW t \in Threads, NEW c \in Conns,
         ConnOf(t) \notin Conns, status[c] = "closed",
         ConnOf(t)' = c, status'[c] # "closed",
         \A u \in Threads \ {t} : ConnOf(u)' = ConnOf(u),
         \A d \in Conns \ {c} : status'[d] = status[d]
  PROVE  Owned'
<1>1. ~Held(c)
  BY DEF Owned, NoLeak
<1>2. NotShared'
  BY <1>1 DEF Owned, NotShared, Held
<1>3. NoLeak'
  BY <1>1 DEF Owned, NoLeak, Held
<1>. QED
  BY <1>2, <1>3 DEF Owned

(* A thread's connection is its alone; closed, it is nobody's.             *)
LEMMA Dropped ==
  ASSUME Owned, UNCHANGED pool, NEW t \in Threads, NEW c \in Conns,
         ConnOf(t) = c, ConnOf(t)' \notin Conns, status'[c] = "closed",
         \A u \in Threads \ {t} : ConnOf(u)' = ConnOf(u),
         \A d \in Conns \ {c} : status'[d] = status[d]
  PROVE  Owned'
<1>1. /\ \A u \in Threads \ {t} : ConnOf(u) # c
      /\ \A k \in Keys : \A i \in 1 .. Len(pool[k]) : pool[k][i] # c
  BY DEF Owned, NotShared
<1>2. NotShared'
  BY DEF Owned, NotShared
<1>3. NoLeak'
  BY <1>1 DEF Owned, NoLeak, Held
<1>. QED
  BY <1>2, <1>3 DEF Owned

(* The last connection of a pool goes to a thread that has none.           *)
LEMMA Taken ==
  ASSUME Owned, UNCHANGED status,
         NEW t \in Threads, NEW c \in Conns, NEW k \in Keys, NEW n \in Nat,
         Len(pool[k]) = n, n > 0, pool[k][n] = c,
         Len(pool'[k]) = n - 1,
         \A i \in 1 .. n - 1 : pool'[k][i] = pool[k][i],
         \A l \in Keys \ {k} : pool'[l] = pool[l],
         ConnOf(t) \notin Conns, ConnOf(t)' = c,
         \A u \in Threads \ {t} : ConnOf(u)' = ConnOf(u)
  PROVE  Owned'
<1>1. /\ n \in 1 .. n
      /\ 1 .. n = (1 .. n - 1) \union {n}
      /\ n \notin 1 .. n - 1
  OBVIOUS
<1>2. /\ \A l \in Keys : \A i \in 1 .. Len(pool[l]) :
           pool[l][i] = c => l = k /\ i = n
      /\ \A u \in Threads : ConnOf(u) # c
  BY <1>1 DEF Owned, NotShared
<1>3. \A l \in Keys : \A i \in 1 .. Len(pool'[l]) :
        i \in 1 .. Len(pool[l]) /\ pool'[l][i] = pool[l][i] /\ pool'[l][i] # c
  <2>1. \A i \in 1 .. n - 1 : i \in 1 .. n /\ pool'[k][i] # c
    BY <1>1, <1>2
  <2>2. \A l \in Keys \ {k} : \A i \in 1 .. Len(pool'[l]) :
          i \in 1 .. Len(pool[l]) /\ pool'[l][i] # c
    BY <1>2
  <2>. QED
    BY <2>1, <2>2
<1>4. \A l \in Keys : \A i \in 1 .. Len(pool[l]) :
        pool[l][i] # c => i \in 1 .. Len(pool'[l]) /\ pool'[l][i] = pool[l][i]
  <2>1. \A i \in 1 .. n : pool[k][i] # c => i \in 1 .. n - 1
    BY <1>1
  <2>. QED
    BY <2>1
<1>5. NotShared'
  <2>1. ASSUME NEW d \in Conns, NEW t1 \in Threads, NEW t2 \in Threads,
               ConnOf(t1)' = d, ConnOf(t2)' = d
        PROVE  t1 = t2
    BY <1>2, <2>1 DEF Owned, NotShared
  <2>2. ASSUME NEW u \in Threads, NEW l \in Keys, NEW i \in 1 .. Len(pool'[l])
        PROVE  pool'[l][i] \in Conns => ConnOf(u)' # pool'[l][i]
    BY <1>3, <2>2 DEF Owned, NotShared
  <2>3. ASSUME NEW k1 \in Keys, NEW k2 \in Keys,
               NEW i \in 1 .. Len(pool'[k1]), NEW j \in 1 .. Len(pool'[k2]),
               pool'[k1][i] = pool'[k2][j], pool'[k1][i] \in Conns
        PROVE  k1 = k2 /\ i = j
    <3>1. /\ i \in 1 .. Len(pool[k1]) /\ pool'[k1][i] = pool[k1][i]
          /\ j \in 1 .. Len(pool[k2]) /\ pool'[k2][j] = pool[k2][j]
      BY <1>3
    <3>2. pool[k1][i] \in Conns /\ pool[k1][i] = pool[k2][j]
      BY <2>3, <3>1
    <3>. QED
      BY <3>1, <3>2 DEF Owned, NotShared
  <2>. QED
    BY <2>1, <2>2, <2>3 DEF NotShared
<1>6. NoLeak'
  <2>1. ASSUME NEW d \in Conns, d # c PROVE Held(d)' <=> Held(d)
    BY <1>2, <1>3, <1>4, <2>1 DEF Held
  <2>2. Held(c)'
    BY DEF Held
  <2>3. Held(c)
    BY <1>1 DEF Held
  <2>. QED
    BY <2>1, <2>2, <2>3 DEF Owned, NoLeak
<1>. QED
  BY <1>5, <1>6 DEF Owned

(* A thread's connection goes to the end of a pool.                        *)
LEMMA Given ==
  ASSUME Owned, NEW t \in Threads, NEW c \in Conns, NEW k \in Keys, NEW n \in Nat,
         \A d \in Conns : status'[d] = "closed" <=> status[d] = "closed",
         Len(pool[k]) = n, Len(pool'[k]) = n + 1,
         \A i \in 1 .. n : pool'[k][i] = pool[k][i],
         pool'[k][n + 1] = c,
         \A l \in Keys \ {k} : pool'[l] = pool[l],
         ConnOf(t) = c, ConnOf(t)' \notin Conns,
         \A u \in Threads \ {t} : ConnOf(u)' = ConnOf(u)
  PROVE  Owned'
<1>1. /\ n + 1 \in 1 .. n + 1
      /\ 1 .. n + 1 = (1 .. n) \union {n + 1}
      /\ n + 1 \notin 1 .. n
  OBVIOUS
<1>2. /\ \A l \in Keys : \A i \in 1 .. Len(pool[l]) : pool[l][i] # c
      /\ \A u \in Threads \ {t} : ConnOf(u) # c
  BY DEF Owned, NotShared
<1>3. \A l \in Keys : \A i \in 1 .. Len(pool[l]) :
        i \in 1 .. Len(pool'[l]) /\ pool'[l][i] = pool[l][i]
  BY <1>1
<1>4. \A l \in Keys : \A i \in 1 .. Len(pool'[l]) :
        \/ i \in 1 .. Len(pool[l]) /\ pool'[l][i] = pool[l][i] /\ pool'[l][i] # c
        \/ l = k /\ i = n + 1
  BY <1>1, <1>2
<1>5. NotShared'
  <2>1. ASSUME NEW d \in Conns, d # c, NEW t1 \in Threads, NEW t2 \in Threads,
               ConnOf(t1)' = d, ConnOf(t2)' = d
        PROVE  t1 = t2
    BY <2>1 DEF Owned, NotShared
  <2>2. ASSUME NEW u \in Threads, NEW l \in Keys, NEW i \in 1 .. Len(pool'[l])
        PROVE  pool'[l][i] \in Conns => ConnOf(u)' # pool'[l][i]
    BY <1>2, <1>4, <2>2 DEF Owned, NotShared
  <2>3. ASSUME NEW k1 \in Keys, NEW k2 \in Keys,
               NEW i \in 1 .. Len(pool'[k1]), NEW j \in 1 .. Len(pool'[k2]),
               pool'[k1][i] = pool'[k2][j], pool'[k1][i] \in Conns
        PROVE  k1 = k2 /\ i = j
    <3>1. CASE pool'[k1][i] = c
      <4>1. k1 = k /\ i = n + 1
        BY <1>4, <3>1
      <4>2. k2 = k /\ j = n + 1
        BY <1>4, <2>3, <3>1
      <4>. QED
        BY <4>1, <4>2
    <3>2. CASE pool'[k1][i] # c
      <4>1. /\ i \in 1 .. Len(pool[k1]) /\ pool'[k1][i] = pool[k1][i]
            /\ j \in 1 .. Len(pool[k2]) /\ pool'[k2][j] = pool[k2][j]
        BY <1>4, <2>3, <3>2
      <4>2. PICK d \in Conns : d = pool[k1][i] /\ d = pool[k2][j]
        BY <2>3, <4>1
      <4>3. pool[k1][i] \in Conns /\ pool[k1][i] = pool[k2][j]
        BY <4>2
      <4>. QED
        BY <4>1, <4>3 DEF Owned, NotShared
    <3>. QED
      BY <3>1, <3>2
  <2>4. \A u \in Threads : ConnOf(u)' # c
    BY <1>2
  <2>5. ASSUME NEW d \in Conns, NEW t1 \in Threads, NEW t2 \in Threads,
               ConnOf(t1)' = d, ConnOf(t2)' = d
        PROVE  t1 = t2
    BY <2>1, <2>4, <2>5
  <2>. QED
    BY <2>2, <2>3, <2>5 DEF NotShared
<1>6. NoLeak'
  <2>1. ASSUME NEW d \in Conns, d # c PROVE Held(d)' <=> Held(d)
    BY <1>2, <1>3, <1>4, <2>1 DEF Held
  <2>2. Held(c)'
    BY <1>1 DEF Held
  <2>3. Held(c)
    BY DEF Held
  <2>. QED
    BY <2>1, <2>2, <2>3 DEF Owned, NoLeak
<1>. QED
  BY <1>5, <1>6 DEF Owned

(* The pop hands a connection from one pool to one thread.                 *)
LEMMA PopOwned ==
  ASSUME TypeOK, InHand, Owned, NEW t \in Threads, Pop(t)
  PROVE  Owned'
<1>1. PICK k \in Keys : k = KeyOf(t)
  BY DEF TypeOK, Jobs, KeyOf
<1>2. /\ DOMAIN pool = Keys
      /\ pool[k] \in Seq(Conns) /\ pool[k] # <<>>
      /\ ConnOf(t) = None /\ None \notin Conns
  BY <1>1, PoolAssumption DEF Pop, TypeOK, InHand, Holding, At
<1>3. PICK n \in Nat : n = Len(pool[k])
  BY <1>2, PopFacts
<1>4. PICK c \in Conns : c = pool[k][n]
  BY <1>2, <1>3, PopFacts
<1>5. /\ n > 0
      /\ Len(WithoutLast(pool[k])) = n - 1
      /\ \A i \in 1 .. n - 1 : WithoutLast(pool[k])[i] = pool[k][i]
  BY <1>2, <1>3, PopFacts
<1>6. /\ Become(t, "validate", c)
      /\ pool' = [pool EXCEPT ![k] = WithoutLast(pool[k])]
      /\ UNCHANGED status
  BY <1>1, <1>3, <1>4 DEF Pop
<1>7. /\ ConnOf(t)' = c
      /\ \A u \in Threads \ {t} : ConnOf(u)' = ConnOf(u)
  BY <1>6, BecomeFacts DEF ConnOf
<1>8. /\ pool'[k] = WithoutLast(pool[k])
      /\ \A l \in Keys \ {k} : pool'[l] = pool[l]
  BY <1>2, <1>6
<1>. QED
  BY <1>2, <1>3, <1>4, <1>5, <1>6, <1>7, <1>8, Taken

(* The ping before the append hands the connection back, or leaves it with *)
(* the thread that closes it.                                              *)
LEMMA RevalidateOwned ==
  ASSUME TypeOK, InHand, Owned, NEW t \in Threads, Revalidate(t)
  PROVE  Owned'
<1>1. PICK k \in Keys : k = KeyOf(t)
  BY DEF TypeOK, Jobs, KeyOf
<1>2. PICK c \in Conns : c = ConnOf(t)
  BY DEF Revalidate, TypeOK, Jobs, ConnOf, InHand, Holding, At
<1>3. /\ DOMAIN pool = Keys /\ pool[k] \in Seq(Conns) /\ None \notin Conns
      /\ status \in [Conns -> {"closed", "live", "broken"}]
  BY PoolAssumption DEF TypeOK
<1>4. CASE ~Passes(k, c)
  <2>1. Become(t, "close", ConnOf(t)) /\ UNCHANGED <<pool, status>>
    BY <1>1, <1>2, <1>4 DEF Revalidate
  <2>2. \A u \in Threads : ConnOf(u)' = ConnOf(u)
    BY <2>1, BecomeFacts DEF ConnOf
  <2>. QED
    BY <2>1, <2>2, SameOwners
<1>5. CASE Passes(k, c)
  <2>1. /\ Leave(t)
        /\ pool' = [pool EXCEPT ![k] = Pooled(pool[k], c)]
        /\ status' = [status EXCEPT ![c] = "live"]
    BY <1>1, <1>2, <1>5 DEF Revalidate
  <2>2. /\ ConnOf(t)' = None
        /\ \A u \in Threads \ {t} : ConnOf(u)' = ConnOf(u)
    BY <2>1, LeaveFacts DEF ConnOf
  <2>3. \A d \in Conns : status'[d] = "closed" <=> status[d] = "closed"
    BY <1>3, <1>5, <2>1 DEF Passes
  <2>4. PICK n \in Nat : n = Len(pool[k])
    BY <1>3, AppendFacts
  <2>5. /\ pool'[k] = Pooled(pool[k], c)
        /\ \A l \in Keys \ {k} : pool'[l] = pool[l]
    BY <1>3, <2>1
  <2>6. /\ Len(pool'[k]) = n + 1
        /\ \A i \in 1 .. n : pool'[k][i] = pool[k][i]
        /\ pool'[k][n + 1] = c
    BY <1>3, <2>4, <2>5, AppendFacts
  <2>. QED
    BY <1>2, <1>3, <2>2, <2>3, <2>4, <2>5, <2>6, Given
<1>. QED
  BY <1>4, <1>5

(* Every step keeps each open connection with exactly one owner.           *)
LEMMA OwnedStep == TypeOK /\ InHand /\ Owned /\ [Next]_vars => Owned'
<1> SUFFICES ASSUME TypeOK, InHand, Owned, [Next]_vars PROVE Owned'
  OBVIOUS
<1>0. /\ None \notin Conns
      /\ \A t \in Threads : ConnOf(t) = None <=> job[t].pc \notin Holding
      /\ \A t \in Threads : ConnOf(t) # None => ConnOf(t) \in Conns
      /\ status \in [Conns -> {"closed", "live", "broken"}]
  BY PoolAssumption DEF InHand, TypeOK, Jobs, ConnOf
<1>1. ASSUME NEW t \in Threads,
             \/ \E k \in Keys : Begin(t, k)
             \/ LockToAcquire(t) \/ Use(t) \/ LockToRelease(t)
      PROVE  Owned'
  <2>1. UNCHANGED <<pool, status>>
    BY <1>1 DEF Begin, LockToAcquire, Use, LockToRelease
  <2>2. \A u \in Threads : ConnOf(u)' = ConnOf(u)
    <3>1. CASE \E k \in Keys : Begin(t, k)
      <4>0. ConnOf(t) = None
        BY <1>0, <3>1 DEF Begin, At, Holding
      <4>1. ConnOf(t) = None /\ job'[t].conn = None
        BY <3>1, <4>0 DEF Begin, NoJob, TypeOK
      <4>. QED
        BY <3>1, <4>1 DEF Begin, ConnOf, TypeOK
    <3>2. CASE LockToAcquire(t)
      <4>1. ConnOf(t) = None /\ Become(t, "pop", None)
        BY <1>0, <3>2 DEF LockToAcquire, At, Holding
      <4>. QED
        BY <4>1, BecomeFacts DEF ConnOf
    <3>3. ASSUME NEW pc, Become(t, pc, ConnOf(t))
          PROVE  \A u \in Threads : ConnOf(u)' = ConnOf(u)
      BY <3>3, BecomeFacts DEF ConnOf
    <3>. QED
      BY <1>1, <3>1, <3>2, <3>3 DEF Use, LockToRelease
  <2>. QED
    BY <2>1, <2>2, SameOwners
<1>2. ASSUME NEW t \in Threads, Validate(t) PROVE Owned'
  <2>1. ConnOf(t) \in Conns /\ UNCHANGED pool
    BY <1>0, <1>2 DEF Validate, At, Holding
  <2>2. CASE Passes(KeyOf(t), ConnOf(t))
    <3>1. /\ Become(t, "use", ConnOf(t))
          /\ status' = [status EXCEPT ![ConnOf(t)] = "live"]
      BY <1>2, <2>2 DEF Validate
    <3>2. \A c \in Conns : status'[c] = "closed" <=> status[c] = "closed"
      BY <1>0, <2>1, <2>2, <3>1 DEF Passes
    <3>3. \A u \in Threads : ConnOf(u)' = ConnOf(u)
      BY <3>1, BecomeFacts DEF ConnOf
    <3>. QED
      BY <2>1, <3>2, <3>3, SameOwners
  <2>3. CASE ~Passes(KeyOf(t), ConnOf(t))
    <3>1. /\ Become(t, "pop", None)
          /\ status' = [status EXCEPT ![ConnOf(t)] = "closed"]
      BY <1>2, <2>3 DEF Validate
    <3>2. /\ ConnOf(t)' = None
          /\ \A u \in Threads \ {t} : ConnOf(u)' = ConnOf(u)
      BY <3>1, BecomeFacts DEF ConnOf
    <3>3. /\ status'[ConnOf(t)] = "closed"
          /\ \A d \in Conns \ {ConnOf(t)} : status'[d] = status[d]
      BY <1>0, <2>1, <3>1
    <3>. QED
      BY <1>0, <2>1, <3>2, <3>3, Dropped
  <2>. QED
    BY <2>2, <2>3
<1>3. ASSUME NEW t \in Threads, Connect(t) PROVE Owned'
  <2>1. ConnOf(t) = None /\ UNCHANGED pool
    BY <1>0, <1>3 DEF Connect, At, Holding
  <2>2. CASE Leave(t) /\ UNCHANGED status
    <3>1. \A u \in Threads : ConnOf(u)' = ConnOf(u)
      BY <2>1, <2>2, LeaveFacts DEF ConnOf
    <3>. QED
      BY <2>1, <2>2, <3>1, SameOwners
  <2>3. CASE /\ status[Unused] = "closed"
             /\ status' = [status EXCEPT ![Unused] = "live"]
             /\ Become(t, "use", Unused)
    <3>1. /\ ConnOf(t)' = Unused
          /\ \A u \in Threads \ {t} : ConnOf(u)' = ConnOf(u)
      BY <2>3, BecomeFacts DEF ConnOf
    <3>2. /\ status'[Unused] # "closed"
          /\ \A d \in Conns \ {Unused} : status'[d] = status[d]
      BY <1>0, <2>3, UnusedType
    <3>. QED
      BY <1>0, <2>1, <2>3, <3>1, <3>2, UnusedType, Opened
  <2>. QED
    BY <1>3, <2>2, <2>3 DEF Connect
<1>4. ASSUME NEW t \in Threads, Close(t) PROVE Owned'
  <2>1. /\ ConnOf(t) \in Conns /\ UNCHANGED pool
        /\ Leave(t) /\ status' = [status EXCEPT ![ConnOf(t)] = "closed"]
    BY <1>0, <1>4 DEF Close, Closed, At, Holding
  <2>2. /\ ConnOf(t)' = None
        /\ \A u \in Threads \ {t} : ConnOf(u)' = ConnOf(u)
    BY <2>1, LeaveFacts DEF ConnOf
  <2>3. /\ status'[ConnOf(t)] = "closed"
        /\ \A d \in Conns \ {ConnOf(t)} : status'[d] = status[d]
    BY <1>0, <2>1
  <2>. QED
    BY <1>0, <2>1, <2>2, <2>3, Dropped
<1>5. ASSUME NEW c \in Conns, Break(c) PROVE Owned'
  <2>1. \A d \in Conns : status'[d] = "closed" <=> status[d] = "closed"
    BY <1>0, <1>5 DEF Break
  <2>2. UNCHANGED pool /\ \A u \in Threads : ConnOf(u)' = ConnOf(u)
    BY <1>5 DEF Break, ConnOf
  <2>. QED
    BY <2>1, <2>2, SameOwners
<1>6. CASE UNCHANGED <<pool, status, job>>
  <2>1. \A u \in Threads : ConnOf(u)' = ConnOf(u)
    BY <1>6 DEF ConnOf
  <2>. QED
    BY <1>6, <2>1, SameOwners
<1>. QED
  BY <1>1, <1>2, <1>3, <1>4, <1>5, <1>6, PopOwned, RevalidateOwned
     DEF Next, Step, Toggle, vars

(* In every reachable state each open connection has exactly one owner.    *)
LEMMA OwnedAlways == Spec => []Owned
<1>1. Init => Owned
  <2> SUFFICES ASSUME Init PROVE Owned
    OBVIOUS
  <2>1. /\ \A t \in Threads : ConnOf(t) \notin Conns
        /\ \A k \in Keys : 1 .. Len(pool[k]) = {}
        /\ \A c \in Conns : status[c] = "closed"
    BY PoolAssumption DEF Init, NoJob, ConnOf
  <2>. QED
    BY <2>1 DEF Owned, NotShared, NoLeak, Held
<1>. QED
  BY <1>1, OwnedStep, TypeCorrect, PTL DEF Spec

(* No connection is ever in two hands, in two pools, or in a hand and a    *)
(* pool.                                                                   *)
THEOREM ConnectionsNotShared == Spec => []NotShared
<1>1. Owned => NotShared
  BY DEF Owned
<1>. QED
  BY <1>1, OwnedAlways, PTL

(* The open connections are exactly those that a pool or a thread has.     *)
THEOREM ConnectionsNotLeaked == Spec => []NoLeak
<1>1. Owned => NoLeak
  BY DEF Owned
<1>. QED
  BY <1>1, OwnedAlways, PTL

-----------------------------------------------------------------------------
(* The refinement of PoolPromise: what is idle, and in whose hands.        *)

Elements(s)   == {s[i] : i \in 1 .. Len(s)}
Validating(k) == {ConnOf(t) : t \in {u \in Threads : At(u, "validate") /\ KeyOf(u) = k}}

(* Popping takes the last element out of a sequence's set, ...             *)
LEMMA PopElements ==
  ASSUME NEW S, NEW s \in Seq(S), s # <<>>
  PROVE  Elements(s) = Elements(WithoutLast(s)) \union {s[Len(s)]}
<1>1. /\ Len(s) \in Nat /\ Len(s) > 0
      /\ Len(WithoutLast(s)) = Len(s) - 1
      /\ \A i \in 1 .. Len(s) - 1 : WithoutLast(s)[i] = s[i]
  BY PopFacts
<1>2. 1 .. Len(s) = (1 .. Len(s) - 1) \union {Len(s)}
  BY <1>1
<1>. QED
  BY <1>1, <1>2 DEF Elements

(* ... appending puts one into it, ...                                     *)
LEMMA PooledElements ==
  ASSUME NEW S, NEW s \in Seq(S), NEW e \in S
  PROVE  Elements(Pooled(s, e)) = Elements(s) \union {e}
<1>1. /\ Len(s) \in Nat /\ Len(Pooled(s, e)) = Len(s) + 1
      /\ \A i \in 1 .. Len(s) : Pooled(s, e)[i] = s[i]
      /\ Pooled(s, e)[Len(s) + 1] = e
  BY AppendFacts
<1>. QED
  BY <1>1 DEF Elements

(* ... and there are no more elements than the sequence is long.           *)
LEMMA ElementsCount ==
  ASSUME NEW S, NEW s \in Seq(S)
  PROVE  /\ Cardinality(Elements(s)) \in Nat /\ Len(s) \in Nat
         /\ Cardinality(Elements(s)) =< Len(s)
<1>1. Len(s) \in Nat /\ DOMAIN s = 1 .. Len(s) /\ s = [i \in 1 .. Len(s) |-> s[i]]
  BY LenProperties
<1>2. s \in Surjection(1 .. Len(s), Elements(s))
  BY <1>1 DEF Surjection, Elements
<1>3. IsFiniteSet(1 .. Len(s)) /\ Cardinality(1 .. Len(s)) = Len(s)
  <2>1. \A n \in Nat : IsFiniteSet(1 .. n) /\ Cardinality(1 .. n) = n
    BY FS_Interval
  <2>. QED
    BY <1>1, <2>1
<1>4. IsFiniteSet(Elements(s)) /\ Cardinality(Elements(s)) =< Len(s)
  BY <1>2, <1>3, FS_Surjection
<1>. QED
  BY <1>1, <1>4, FS_CardinalityType

(* Of the threads that are validating, each holds the lock of its pool.    *)
LEMMA ValidatesAlone ==
  ASSUME TypeOK, LockAgrees, NEW t \in Threads,
         job[t].pc \in {"pop", "validate", "revalidate"}
  PROVE  Validating(KeyOf(t)) = IF At(t, "validate") THEN {ConnOf(t)} ELSE {}
<1>1. KeyOf(t) \in Keys
  BY DEF TypeOK, Jobs, KeyOf
<1>2. \A u \in Threads : At(u, "validate") /\ KeyOf(u) = KeyOf(t) => u = t
  BY <1>1 DEF LockAgrees, At
<1>. QED
  BY <1>1, <1>2 DEF Validating

(* A thread that neither begins nor ends to validate changes nobody's.     *)
LEMMA ValidatingStays ==
  ASSUME NEW t \in Threads, job[t].pc # "validate", job'[t].pc # "validate",
         \A u \in Threads \ {t} : job'[u] = job[u], NEW k \in Keys
  PROVE  Validating(k)' = Validating(k)
BY DEF Validating, At, KeyOf, ConnOf

(* What is idle to a borrower: the pool and the connection in validation.  *)
LEMMA IdleConns ==
  /\ idleConns = [k \in Keys |-> Elements(pool[k]) \union Validating(k)]
  /\ idleConns' = [k \in Keys |-> Elements(pool[k])' \union Validating(k)']
BY DEF idleConns, Elements, Validating

Using == {"use", "leave", "revalidate", "close"}
HandOf(t) == IF job[t].pc \in Using THEN <<KeyOf(t), ConnOf(t)>> ELSE None

(* What a thread has in hand: from the end of the validation to its close. *)
LEMMA InHands ==
  inHand = [t \in Threads |-> HandOf(t)] /\ inHand' = [t \in Threads |-> HandOf(t)']
BY DEF inHand, HandOf, Using

(* A step of one thread changes what that thread has in hand.              *)
LEMMA HandMoves ==
  ASSUME NEW t \in Threads, \A u \in Threads \ {t} : job'[u] = job[u]
  PROVE  inHand' = [inHand EXCEPT ![t] = HandOf(t)']
<1>1. \A u \in Threads \ {t} : HandOf(u)' = HandOf(u)
  BY DEF HandOf, KeyOf, ConnOf
<1>. QED
  BY <1>1, InHands

(* What the pools keep idle while no pool changes and no ping is begun or  *)
(* ended.                                                                  *)
LEMMA IdleStays ==
  ASSUME UNCHANGED pool, NEW t \in Threads,
         job[t].pc # "validate", job'[t].pc # "validate",
         \A u \in Threads \ {t} : job'[u] = job[u]
  PROVE  idleConns' = idleConns
<1>1. \A k \in Keys : Validating(k)' = Validating(k)
  BY ValidatingStays
<1>2. \A k \in Keys : Elements(pool[k])' = Elements(pool[k])
  BY DEF Elements
<1>. QED
  BY <1>1, <1>2, IdleConns

(* What both mean of one thread: its key, its connection and their types.  *)
LEMMA ThreadFacts ==
  ASSUME TypeOK, InHand, NEW t \in Threads
  PROVE  /\ KeyOf(t) \in Keys
         /\ job[t].pc \in Holding => ConnOf(t) \in Conns
         /\ job[t].pc \notin Holding => ConnOf(t) = None
         /\ inHand[t] = HandOf(t)
         /\ pool[KeyOf(t)] \in Seq(Conns)
         /\ idleConns[KeyOf(t)] = Elements(pool[KeyOf(t)]) \union Validating(KeyOf(t))
<1>1. job[t] \in Jobs /\ (ConnOf(t) # None <=> job[t].pc \in Holding)
  BY DEF TypeOK, InHand
<1>2. KeyOf(t) \in Keys /\ ConnOf(t) \in Conns \union {None}
  BY <1>1 DEF Jobs, KeyOf, ConnOf
<1>. QED
  BY <1>1, <1>2, InHands, IdleConns DEF TypeOK

(* The first state, in which nothing is idle and nothing in hand.          *)
LEMMA InitMaps == Init => Promise!Init
<1> SUFFICES ASSUME Init PROVE Promise!Init
  OBVIOUS
<1>1. \A k \in Keys : Elements(pool[k]) = {} /\ Validating(k) = {}
  BY DEF Init, Elements, Validating, NoJob, At
<1>2. \A t \in Threads : HandOf(t) = None
  BY DEF Init, NoJob, HandOf, Using
<1>. QED
  BY <1>1, <1>2, IdleConns, InHands DEF Promise!Init

Invariants == TypeOK /\ InHand /\ LockAgrees /\ RoomKept /\ Owned

(* Before it has the lock, and while it uses a connection, a thread does   *)
(* nothing that the promise speaks of.                                     *)
LEMMA QuietMaps ==
  ASSUME Invariants, NEW t \in Threads,
         \/ \E k \in Keys : Begin(t, k)
         \/ LockToAcquire(t) \/ Use(t) \/ LockToRelease(t)
  PROVE  UNCHANGED Promise!vars
<1> USE DEF Invariants
<1>0. job \in [Threads -> Jobs]
  BY DEF TypeOK
<1>1. UNCHANGED pool
  BY DEF Begin, LockToAcquire, Use, LockToRelease
<1>. DEFINE Quiet == /\ \A u \in Threads \ {t} : job'[u] = job[u]
                     /\ job[t].pc # "validate" /\ job'[t].pc # "validate"
                     /\ HandOf(t)' = HandOf(t)
<1>2. Quiet
  <2>1. ASSUME NEW k \in Keys, Begin(t, k) PROVE Quiet
    BY <1>0, <2>1 DEF Begin, NoJob, At, HandOf, Using
  <2>2. ASSUME NEW pc \in {"pop", "leave", "revalidate", "close"}, NEW c,
               Become(t, pc, c), job[t].pc \in {"enter", "use", "leave"},
               job[t].pc = "enter" <=> pc = "pop",
               pc # "pop" => c = ConnOf(t)
        PROVE  Quiet
    BY <2>2, BecomeFacts DEF HandOf, Using, KeyOf, ConnOf
  <2>3. CASE LockToAcquire(t)
    BY <2>2, <2>3 DEF LockToAcquire, At
  <2>4. CASE Use(t)
    BY <2>2, <2>4 DEF Use, At
  <2>5. CASE LockToRelease(t)
    BY <2>2, <2>5 DEF LockToRelease, At
  <2>. QED
    BY <2>1, <2>3, <2>4, <2>5
<1>3. idleConns' = idleConns
  BY <1>1, <1>2, IdleStays
<1>4. inHand' = inHand
  BY <1>2, HandMoves, InHands
<1>. QED
  BY <1>3, <1>4 DEF Promise!vars

(* The pools of all keys but one stay as they are.                         *)
LEMMA OtherPools ==
  ASSUME NEW t \in Threads, NEW k \in Keys, KeyOf(t) = k, KeyOf(t)' = k \/ ~At(t, "validate")',
         \A l \in Keys \ {k} : pool'[l] = pool[l],
         \A u \in Threads \ {t} : job'[u] = job[u]
  PROVE  \A l \in Keys \ {k} :
           Elements(pool[l])' = Elements(pool[l]) /\ Validating(l)' = Validating(l)
BY DEF Elements, Validating, At, KeyOf, ConnOf

(* A connection that is popped to be validated is idle still.              *)
LEMMA PopMaps ==
  ASSUME Invariants, NEW t \in Threads, Pop(t)
  PROVE  UNCHANGED Promise!vars
<1> USE DEF Invariants
<1>0. PICK k \in Keys : k = KeyOf(t)
  BY ThreadFacts
<1>. DEFINE s == pool[k]
<1>1. PICK c : c = s[Len(s)]
  OBVIOUS
<1>2. /\ s \in Seq(Conns) /\ s # <<>> /\ At(t, "pop")
      /\ pool' = [pool EXCEPT ![k] = WithoutLast(s)]
      /\ Become(t, "validate", c)
  BY <1>0, <1>1, ThreadFacts DEF Pop
<1>3. /\ job'[t].pc = "validate" /\ job'[t].conn = c /\ job'[t].key = job[t].key
      /\ \A u \in Threads \ {t} : job'[u] = job[u]
  BY <1>2, BecomeFacts
<1>4. HandOf(t)' = HandOf(t)
  BY <1>2, <1>3 DEF HandOf, Using, At
<1>5. inHand' = inHand
  BY <1>3, <1>4, HandMoves, InHands
<1>6. /\ pool'[k] = WithoutLast(s)
      /\ \A l \in Keys \ {k} : pool'[l] = pool[l]
  BY <1>2 DEF TypeOK
<1>7. Elements(pool[k])' \union Validating(k)' = Elements(pool[k]) \union Validating(k)
  <2>1. Validating(k) = {}
    BY <1>0, <1>2, ValidatesAlone DEF At
  <2>2. Validating(k)' = {c}
    <3>1. \A u \in Threads : ~(job[u].pc = "validate" /\ job[u].key = k)
      BY <2>1 DEF Validating, At, KeyOf
    <3>2. \A u \in Threads : job'[u].pc = "validate" /\ job'[u].key = k <=> u = t
      BY <1>0, <1>3, <3>1 DEF KeyOf
    <3>. QED
      BY <1>3, <3>2 DEF Validating, At, KeyOf, ConnOf
  <2>3. Elements(pool[k])' = Elements(WithoutLast(s))
    BY <1>6 DEF Elements
  <2>. QED
    BY <1>1, <1>2, <2>1, <2>2, <2>3, PopElements
<1>8. idleConns' = idleConns
  <2>1. KeyOf(t)' = k
    BY <1>0, <1>3 DEF KeyOf
  <2>. QED
    BY <1>0, <1>3, <1>6, <1>7, <2>1, OtherPools, IdleConns
<1>. QED
  BY <1>5, <1>8 DEF Promise!vars

(* A connection that passes is taken, one that does not is discarded.      *)
LEMMA ValidateMaps ==
  ASSUME Invariants, NEW t \in Threads, Validate(t)
  PROVE  \E k \in Keys, c \in Conns : Promise!Take(t, k, c) \/ Promise!Discard(k, c)
<1> USE DEF Invariants
<1>1. PICK k \in Keys : k = KeyOf(t)
  BY ThreadFacts
<1>2. PICK c \in Conns : c = ConnOf(t)
  BY ThreadFacts DEF Validate, At, Holding
<1>3. At(t, "validate") /\ UNCHANGED pool
  BY DEF Validate
<1>4. Validating(k) = {c}
  BY <1>1, <1>2, <1>3, ValidatesAlone DEF At
<1>5. /\ c \in idleConns[k]
      /\ c \notin Elements(pool[k])
  <2>1. \A i \in 1 .. Len(pool[k]) : pool[k][i] # c
    BY <1>2 DEF Owned, NotShared
  <2>. QED
    BY <1>1, <1>4, <2>1, ThreadFacts DEF Elements
<1>6. ASSUME NEW pc \in {"use", "pop"}, NEW d, Become(t, pc, d)
      PROVE  /\ idleConns' = [idleConns EXCEPT ![k] = @ \ {c}]
             /\ job'[t].pc = pc /\ job'[t].conn = d /\ job'[t].key = job[t].key
             /\ inHand' = [inHand EXCEPT ![t] = HandOf(t)']
  <2>1. /\ job'[t].pc = pc /\ job'[t].conn = d /\ job'[t].key = job[t].key
        /\ \A u \in Threads \ {t} : job'[u] = job[u]
    BY <1>6, BecomeFacts
  <2>2. Validating(k)' = {}
    <3>1. \A u \in Threads : job[u].pc = "validate" /\ job[u].key = k <=> u = t
      BY <1>1, <1>3 DEF LockAgrees, At, KeyOf
    <3>2. \A u \in Threads : ~(job'[u].pc = "validate" /\ job'[u].key = k)
      BY <2>1, <3>1
    <3>. QED
      BY <3>2 DEF Validating, At, KeyOf
  <2>3. Elements(pool[k])' = Elements(pool[k])
    BY <1>3 DEF Elements
  <2>4. idleConns[k] \ {c} = Elements(pool[k])' \union Validating(k)'
    BY <1>1, <1>4, <1>5, <2>2, <2>3, ThreadFacts
  <2>5. \A l \in Keys \ {k} :
          Elements(pool[l])' = Elements(pool[l]) /\ Validating(l)' = Validating(l)
    BY <1>1, <1>3, <2>1, OtherPools DEF KeyOf
  <2>. QED
    BY <2>1, <2>4, <2>5, IdleConns, HandMoves
<1>7. CASE Passes(KeyOf(t), ConnOf(t))
  <2>1. Become(t, "use", c)
    BY <1>2, <1>7 DEF Validate
  <2>2. HandOf(t)' = <<k, c>>
    BY <1>1, <1>6, <2>1 DEF HandOf, Using, KeyOf, ConnOf
  <2>3. inHand[t] = None
    BY <1>3, ThreadFacts DEF HandOf, Using, At
  <2>4. Promise!Take(t, k, c)
    BY <1>5, <1>6, <2>1, <2>2, <2>3 DEF Promise!Take, Promise!Hold
  <2>. QED
    BY <2>4
<1>8. CASE ~Passes(KeyOf(t), ConnOf(t))
  <2>1. Become(t, "pop", None)
    BY <1>8 DEF Validate
  <2>2. HandOf(t)' = None /\ inHand[t] = None
    BY <1>3, <1>6, <2>1, ThreadFacts DEF HandOf, Using, At
  <2>3. inHand' = inHand
    BY <1>6, <2>1, <2>2, InHands
  <2>4. Promise!Discard(k, c)
    BY <1>5, <1>6, <2>1, <2>3 DEF Promise!Discard
  <2>. QED
    BY <2>4
<1>. QED
  BY <1>7, <1>8

(* A connection is opened where none is idle, and is nobody's before.      *)
LEMMA ConnectMaps ==
  ASSUME Invariants, NEW t \in Threads, Connect(t)
  PROVE  \/ \E k \in Keys, c \in Conns : Promise!Open(t, k, c)
         \/ UNCHANGED Promise!vars
<1> USE DEF Invariants
<1>1. PICK k \in Keys : k = KeyOf(t)
  BY ThreadFacts
<1>2. At(t, "pop") /\ UNCHANGED pool /\ pool[k] = <<>>
  BY <1>1 DEF Connect
<1>3. idleConns[k] = {}
  <2>1. Validating(k) = {} /\ Elements(pool[k]) = {}
    BY <1>1, <1>2, ValidatesAlone DEF At, Elements
  <2>. QED
    BY <1>1, <2>1, ThreadFacts
<1>4. inHand[t] = None /\ HandOf(t) = None
  BY <1>2, ThreadFacts DEF HandOf, Using, At
<1>5. CASE Leave(t)
  <2>1. /\ job'[t].pc = "idle" /\ \A u \in Threads \ {t} : job'[u] = job[u]
    BY <1>5, LeaveFacts
  <2>2. HandOf(t)' = None
    BY <2>1 DEF HandOf, Using
  <2>3. inHand' = inHand
    BY <1>4, <2>1, <2>2, HandMoves, InHands
  <2>4. idleConns' = idleConns
    BY <1>2, <2>1, IdleStays DEF At
  <2>. QED
    BY <2>3, <2>4 DEF Promise!vars
<1>6. CASE status[Unused] = "closed" /\ Become(t, "use", Unused)
  <2>1. PICK c \in Conns : c = Unused
    BY UnusedType
  <2>2. /\ job'[t].pc = "use" /\ job'[t].conn = c /\ job'[t].key = job[t].key
        /\ \A u \in Threads \ {t} : job'[u] = job[u]
    BY <1>6, <2>1, BecomeFacts
  <2>3. HandOf(t)' = <<k, c>>
    BY <1>1, <2>2 DEF HandOf, Using, KeyOf, ConnOf
  <2>4. inHand' = [inHand EXCEPT ![t] = <<k, c>>]
    BY <2>2, <2>3, HandMoves
  <2>5. idleConns' = idleConns
    BY <1>2, <2>2, IdleStays DEF At
  <2>6. Promise!Fresh(c)
    <3>1. ~Held(c)
      BY <1>6, <2>1 DEF Owned, NoLeak
    <3>2. \A l \in Keys : c \notin Elements(pool[l]) \union Validating(l)
      BY <3>1 DEF Held, Elements, Validating
    <3>3. \A u \in Threads, l \in Keys : HandOf(u) # <<l, c>>
      BY <3>1, PoolAssumption DEF Held, HandOf
    <3>. QED
      BY <3>2, <3>3, IdleConns, InHands DEF Promise!Fresh
  <2>7. Promise!Open(t, k, c)
    BY <1>3, <1>4, <2>4, <2>5, <2>6 DEF Promise!Open, Promise!Hold
  <2>. QED
    BY <2>7
<1>. QED
  BY <1>5, <1>6 DEF Connect

(* PoolPromise counts as this module does.                                 *)
LEMMA SameCardinality ==
  ASSUME NEW S PROVE Promise!Cardinality(S) = Cardinality(S)
BY DEF Promise!Cardinality, Cardinality

(* A connection that passes again is given back to a pool that has room.   *)
LEMMA RevalidateMaps ==
  ASSUME Invariants, NEW t \in Threads, Revalidate(t)
  PROVE  Promise!Give(t) \/ UNCHANGED Promise!vars
<1> USE DEF Invariants
<1>1. PICK k \in Keys : k = KeyOf(t)
  BY ThreadFacts
<1>2. PICK c \in Conns : c = ConnOf(t)
  BY ThreadFacts DEF Revalidate, At, Holding
<1>3. At(t, "revalidate") /\ inHand[t] = <<k, c>> /\ HandOf(t) = <<k, c>>
  BY <1>1, <1>2, ThreadFacts DEF Revalidate, HandOf, Using, At
<1>4. CASE Passes(KeyOf(t), ConnOf(t))
  <2>1. Leave(t) /\ pool' = [pool EXCEPT ![k] = Pooled(@, c)]
    BY <1>1, <1>2, <1>4 DEF Revalidate
  <2>2. /\ job'[t].pc = "idle" /\ \A u \in Threads \ {t} : job'[u] = job[u]
    BY <2>1, LeaveFacts
  <2>3. pool[k] \in Seq(Conns) /\ Validating(k) = {}
    BY <1>1, <1>3, ThreadFacts, ValidatesAlone DEF At
  <2>4. idleConns[k] = Elements(pool[k])
    BY <1>1, <2>3, ThreadFacts
  <2>5. Cardinality(idleConns[k]) < PoolSize
    <3>1. /\ Cardinality(Elements(pool[k])) \in Nat /\ Len(pool[k]) \in Nat
          /\ Cardinality(Elements(pool[k])) =< Len(pool[k])
      BY <2>3, ElementsCount
    <3>2. Len(pool[k]) < PoolSize
      BY <1>1, <1>3 DEF RoomKept, HasRoom
    <3>. QED
      BY <2>4, <3>1, <3>2, PoolAssumption
  <2>6. /\ pool'[k] = Pooled(pool[k], c)
        /\ \A l \in Keys \ {k} : pool'[l] = pool[l]
    BY <2>1 DEF TypeOK
  <2>7. idleConns' = [idleConns EXCEPT ![k] = @ \union {c}]
    <3>1. Elements(pool[k])' = Elements(pool[k]) \union {c}
      <4>1. Elements(pool[k])' = Elements(Pooled(pool[k], c))
        BY <2>6 DEF Elements
      <4>. QED
        BY <2>3, <4>1, PooledElements
    <3>2. Validating(k)' = Validating(k)
      BY <1>3, <2>2, ValidatingStays DEF At
    <3>3. \A l \in Keys \ {k} :
            Elements(pool[l])' = Elements(pool[l]) /\ Validating(l)' = Validating(l)
      BY <1>1, <2>2, <2>6, OtherPools DEF At
    <3>. QED
      BY <2>3, <2>4, <3>1, <3>2, <3>3, IdleConns
  <2>8. inHand' = [inHand EXCEPT ![t] = None]
    <3>1. HandOf(t)' = None
      BY <2>2 DEF HandOf, Using
    <3>. QED
      BY <2>2, <3>1, HandMoves
  <2>9. Promise!Cardinality(idleConns[k]) < PoolSize
    BY <2>5, SameCardinality
  <2>. QED
    BY <1>1, <1>2, <1>3, <2>7, <2>8, <2>9 DEF Promise!Give
<1>5. CASE ~Passes(KeyOf(t), ConnOf(t))
  <2>1. Become(t, "close", c) /\ UNCHANGED pool
    BY <1>2, <1>5 DEF Revalidate
  <2>2. /\ job'[t].pc = "close" /\ job'[t].conn = c /\ job'[t].key = job[t].key
        /\ \A u \in Threads \ {t} : job'[u] = job[u]
    BY <2>1, BecomeFacts
  <2>3. HandOf(t)' = HandOf(t)
    BY <1>1, <1>3, <2>2 DEF HandOf, Using, KeyOf, ConnOf
  <2>4. inHand' = inHand
    BY <2>2, <2>3, HandMoves, InHands
  <2>5. idleConns' = idleConns
    BY <1>3, <2>1, <2>2, IdleStays DEF At
  <2>. QED
    BY <2>4, <2>5 DEF Promise!vars
<1>. QED
  BY <1>4, <1>5

(* A connection for which there is no room, or that does not pass, is      *)
(* dropped.                                                                *)
LEMMA CloseMaps ==
  ASSUME Invariants, NEW t \in Threads, Close(t)
  PROVE  Promise!Drop(t)
<1> USE DEF Invariants
<1>1. KeyOf(t) \in Keys /\ ConnOf(t) \in Conns /\ inHand[t] = <<KeyOf(t), ConnOf(t)>>
  BY ThreadFacts DEF Close, At, Holding, HandOf, Using
<1>2. inHand[t] # None
  BY <1>1, PoolAssumption
<1>3. /\ job[t].pc = "close" /\ job'[t].pc = "idle"
      /\ \A u \in Threads \ {t} : job'[u] = job[u]
  BY LeaveFacts DEF Close, At
<1>4. HandOf(t)' = None
  BY <1>3 DEF HandOf, Using
<1>5. inHand' = [inHand EXCEPT ![t] = None]
  BY <1>3, <1>4, HandMoves
<1>6. idleConns' = idleConns
  BY <1>3, IdleStays DEF Close
<1>. QED
  BY <1>2, <1>5, <1>6 DEF Promise!Drop

(* Every step is one that the promise allows, or none that it speaks of.   *)
LEMMA StepMaps == Invariants /\ [Next]_vars => [Promise!Next]_(Promise!vars)
<1> SUFFICES ASSUME Invariants, [Next]_vars PROVE [Promise!Next]_(Promise!vars)
  OBVIOUS
<1>1. ASSUME NEW t \in Threads,
             \/ Promise!Give(t) \/ Promise!Drop(t)
             \/ \E k \in Keys, c \in Conns :
                  \/ Promise!Take(t, k, c) \/ Promise!Discard(k, c)
                  \/ Promise!Open(t, k, c)
      PROVE  Promise!Next
  BY <1>1 DEF Promise!Next
<1>2. CASE UNCHANGED <<pool, job>>
  BY <1>2 DEF Promise!vars, idleConns, inHand, At, KeyOf, ConnOf
<1>3. ASSUME NEW t \in Threads, Step(t)
      PROVE  [Promise!Next]_(Promise!vars)
  <2>1. CASE LockToAcquire(t) \/ Use(t) \/ LockToRelease(t)
    BY <2>1, QuietMaps
  <2>2. CASE Pop(t)
    BY <2>2, PopMaps
  <2>3. CASE Validate(t)
    BY <1>1, <2>3, ValidateMaps
  <2>4. CASE Connect(t)
    BY <1>1, <2>4, ConnectMaps
  <2>5. CASE Revalidate(t)
    BY <1>1, <2>5, RevalidateMaps
  <2>6. CASE Close(t)
    BY <1>1, <2>6, CloseMaps
  <2>. QED
    BY <1>3, <2>1, <2>2, <2>3, <2>4, <2>5, <2>6 DEF Step
<1>4. ASSUME NEW t \in Threads, NEW k \in Keys, Begin(t, k)
      PROVE  UNCHANGED Promise!vars
  BY <1>4, QuietMaps
<1>. QED
  BY <1>2, <1>3, <1>4 DEF Next, Break, Toggle, vars

(* source_connection implements PoolPromise: what happens to a pool under  *)
(* its lock, pings and all, happens at once for everybody else.            *)
THEOREM ImplementsPromise == Spec => KeepsPromise
<1>1. Spec => []Invariants
  BY TypeCorrect, LocksHold, OwnedAlways, PTL DEF Invariants
<1>. QED
  BY <1>1, InitMaps, StepMaps, PTL DEF Spec, KeepsPromise, Promise!Spec
=============================================================================
