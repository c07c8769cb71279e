-------------------------- MODULE QueryCacheProofs --------------------------
(***************************************************************************)
(* Proofs about QueryCache, for any number of threads, keys and ticks and  *)
(* any TTL: the age of an answer, and that the cache implements            *)
(* CachePromise but for its fairness.                                      *)
(***************************************************************************)
EXTENDS QueryCache, TLAPS

-----------------------------------------------------------------------------
(* Type correctness.                                                       *)

(* The record of a thread without a call is a call.                        *)
LEMMA NoCallType == NoCall \in Calls
<1>1. (CHOOSE k \in Keys : TRUE) \in Keys
  BY KeysAssumption
<1>. QED
  BY <1>1, TimesAssumption DEF NoCall, Calls, PCs, Times

(* The entry of an absent key is an entry.                                 *)
LEMMA NoEntryType == NoEntry \in Entries
BY TimesAssumption DEF NoEntry, Entries, Times, Expiries

(* Moving to a label keeps the calls well typed.                           *)
LEMMA GoToType ==
  ASSUME TypeOK, NEW t \in Threads, NEW label \in PCs, GoTo(t, label)
  PROVE  call' \in [Threads -> Calls]
<1>1. call[t] \in Calls
  BY DEF TypeOK
<1>2. [call[t] EXCEPT !.pc = label] \in Calls
  BY <1>1 DEF Calls
<1>. QED
  BY <1>2 DEF TypeOK, GoTo

(* Answering with an entry keeps the calls well typed.                     *)
LEMMA FoundType ==
  ASSUME TypeOK, NEW t \in Threads, NEW e \in Entries, Found(t, e)
  PROVE  call' \in [Threads -> Calls]
<1>1. call[t] \in Calls /\ e.readAt \in Times /\ "done" \in PCs
  BY DEF TypeOK, Entries, PCs
<1>2. [call[t] EXCEPT !.pc = "done", !.value = e.readAt] \in Calls
  BY <1>1 DEF Calls
<1>. QED
  BY <1>2 DEF Found, TypeOK

(* Raising out of get_or_set keeps the calls well typed.                   *)
LEMMA RaiseType ==
  ASSUME TypeOK, NEW t \in Threads, Raise(t)
  PROVE  call' \in [Threads -> Calls]
BY NoCallType DEF TypeOK, Raise

(* Every step keeps the types.                                             *)
LEMMA TypeStep ==
  ASSUME TypeOK, [Next]_vars
  PROVE  TypeOK'
<1>0. {"idle", "check", "connect", "ping", "name", "return", "except",
       "fall back", "get", "clock", "lookup", "load", "setex", "store",
       "done"} \subseteq PCs
  BY DEF PCs
<1>1. ASSUME NEW t \in Threads, NEW k \in Keys, Begin(t, k) PROVE TypeOK'
  <2>1. [NoCall EXCEPT !.pc = "check", !.key = k, !.asked = clock] \in Calls
    BY NoCallType, <1>0 DEF TypeOK, Calls
  <2>. QED
    BY <1>1, <2>1 DEF Begin, TypeOK
<1>2. ASSUME NEW t \in Threads, CheckClient(t) PROVE TypeOK'
  BY <1>0, <1>2, GoToType DEF CheckClient, TypeOK
<1>3. ASSUME NEW t \in Threads, Connect(t) PROVE TypeOK'
  BY <1>0, <1>3, GoToType DEF Connect, TypeOK
<1>4. ASSUME NEW t \in Threads, Ping(t) PROVE TypeOK'
  BY <1>0, <1>4, GoToType DEF Ping, TypeOK
<1>5. ASSUME NEW t \in Threads, NameRedis(t) PROVE TypeOK'
  BY <1>0, <1>5, GoToType DEF NameRedis, TypeOK
<1>6. ASSUME NEW t \in Threads, ReturnClient(t) PROVE TypeOK'
  <2>1. CASE client
    <3>1. [call[t] EXCEPT !.pc = "get", !.via = "redis"] \in Calls
      BY <1>0 DEF TypeOK, Calls
    <3>. QED
      BY <1>6, <2>1, <3>1 DEF ReturnClient, TypeOK
  <2>2. CASE ~client
    BY <1>0, <1>6, <2>2, GoToType DEF ReturnClient, TypeOK
  <2>. QED
    BY <2>1, <2>2
<1>7. ASSUME NEW t \in Threads, DropClient(t) PROVE TypeOK'
  BY <1>0, <1>7, GoToType DEF DropClient, TypeOK
<1>8. ASSUME NEW t \in Threads, FallBack(t) PROVE TypeOK'
  BY <1>0, <1>8, GoToType DEF FallBack, TypeOK
<1>9. ASSUME NEW t \in Threads, GetFromRedis(t) PROVE TypeOK'
  <2>1. redis[call[t].key] \in Entries
    BY DEF TypeOK, Calls
  <2>2. call' \in [Threads -> Calls]
    BY <1>0, <1>9, <2>1, GoToType, FoundType, RaiseType DEF GetFromRedis
  <2>. QED
    BY <1>9, <2>2 DEF GetFromRedis, TypeOK
<1>10. ASSUME NEW t \in Threads, SetInRedis(t) PROVE TypeOK'
  <2>1. RedisEntry(t) \in Entries
    BY TimesAssumption DEF TypeOK, RedisEntry, Entries, Calls, Times, Expiries
  <2>2. call' \in [Threads -> Calls]
    BY <1>0, <1>10, GoToType, RaiseType DEF SetInRedis
  <2>. QED
    BY <1>10, <2>1, <2>2 DEF SetInRedis, TypeOK
<1>11. ASSUME NEW t \in Threads, ReadClock(t) PROVE TypeOK'
  <2>1. [call[t] EXCEPT !.pc = "lookup", !.now = clock] \in Calls
    BY <1>0 DEF TypeOK, Calls
  <2>. QED
    BY <1>11, <2>1 DEF ReadClock, TypeOK
<1>12. ASSUME NEW t \in Threads, LookUp(t) PROVE TypeOK'
  <2>1. store[call[t].key] \in Entries
    BY DEF TypeOK, Calls
  <2>2. call' \in [Threads -> Calls]
    BY <1>0, <1>12, <2>1, GoToType, FoundType DEF LookUp
  <2>. QED
    BY <1>12, <2>2 DEF LookUp, TypeOK
<1>13. ASSUME NEW t \in Threads, Load(t) PROVE TypeOK'
  <2>1. [call[t] EXCEPT !.value = clock,
                        !.pc = IF call[t].via = "redis" THEN "setex"
                               ELSE "store"] \in Calls
    BY <1>0 DEF TypeOK, Calls
  <2>2. call' \in [Threads -> Calls]
    BY <1>13, <2>1, RaiseType DEF Load, LoadFails, TypeOK
  <2>. QED
    BY <1>13, <2>2 DEF Load, TypeOK
<1>14. ASSUME NEW t \in Threads, Store(t) PROVE TypeOK'
  <2>1. StoredEntry(t) \in Entries
    BY TimesAssumption DEF TypeOK, StoredEntry, Entries, Calls, Times, Expiries
  <2>. QED
    BY <1>0, <1>14, <2>1, GoToType DEF Store, TypeOK
<1>15. ASSUME NEW t \in Threads, Return(t) PROVE TypeOK'
  BY <1>15, NoCallType DEF Return, TypeOK
<1>16. CASE Tick
  BY <1>16, TimesAssumption DEF Tick, TypeOK, Times
<1>17. CASE RedisChanges
  BY <1>17, NoEntryType DEF RedisChanges, TypeOK
<1>18. CASE UNCHANGED vars
  BY <1>18 DEF vars, TypeOK
<1>. QED
  BY <1>1, <1>2, <1>3, <1>4, <1>5, <1>6, <1>7, <1>8, <1>9, <1>10, <1>11, <1>12,
     <1>13, <1>14, <1>15, <1>16, <1>17, <1>18 DEF Next, Step

(* Every reachable state is well typed.                                    *)
THEOREM TypeCorrect == Spec => []TypeOK
<1>1. Init => TypeOK
  <2>1. 1 \in Times
    BY TimesAssumption DEF Times
  <2>. QED
    BY <2>1, NoCallType, NoEntryType DEF Init, TypeOK
<1>2. TypeOK /\ [Next]_vars => TypeOK'
  BY TypeStep
<1>. QED
  BY <1>1, <1>2, PTL DEF Spec

-----------------------------------------------------------------------------
(* The age of answers.                                                     *)

(* A step of one thread that respects the clock disturbs no other.         *)
LEMMA OthersAgree ==
  ASSUME TypeOK, ClocksAgree, NEW t \in Threads, NEW c, CallAgrees(c),
         call' = [call EXCEPT ![t] = c], UNCHANGED clock
  PROVE  (\A u \in Threads : CallAgrees(call[u]))'
BY DEF TypeOK, ClocksAgree, CallAgrees, MaxAge

(* Every step keeps the times of entries and calls consistent with the     *)
(* clock.                                                                  *)
LEMMA ClocksAgreeStep ==
  ASSUME TypeOK, ClocksAgree, [Next]_vars
  PROVE  ClocksAgree'
<1>. DEFINE Quiet == UNCHANGED <<clock, store, redis>>
            CallsAgree == \A t \in Threads : CallAgrees(call[t])
<1>0. /\ \A t \in Threads : /\ call[t] \in Calls
                            /\ call[t].asked \in Nat /\ call[t].value \in Nat
                            /\ call[t].now \in Nat /\ call[t].key \in Keys
      /\ \A k \in Keys : /\ store[k].readAt \in Nat /\ store[k].expiry \in Nat
                         /\ redis[k].readAt \in Nat /\ redis[k].expiry \in Nat
      /\ clock \in Nat /\ TTL \in Nat \ {0} /\ MaxLoad \in Nat
  BY TimesAssumption DEF TypeOK, Calls, Entries, Times, Expiries
<1>1. ASSUME Quiet PROVE EntriesAgree'
  BY <1>1 DEF ClocksAgree, EntriesAgree
<1>2. CallAgrees(NoCall)
  BY <1>0 DEF CallAgrees, NoCall
<1>3. ASSUME NEW t \in Threads, Raise(t), UNCHANGED clock PROVE CallsAgree'
  BY <1>2, <1>3, OthersAgree DEF Raise
<1>4. ASSUME NEW t \in Threads, NEW k \in Keys, Begin(t, k) PROVE ClocksAgree'
  <2>1. CallAgrees([NoCall EXCEPT !.pc = "check", !.key = k, !.asked = clock])
    BY <1>0 DEF CallAgrees, NoCall
  <2>. QED
    BY <1>1, <1>4, <2>1, OthersAgree DEF Begin, ClocksAgree
<1>5. ASSUME NEW t \in Threads, NEW label \in PCs, GoTo(t, label),
             UNCHANGED clock, CallAgrees([call[t] EXCEPT !.pc = label])
      PROVE  CallsAgree'
  <2>1. call' = [call EXCEPT ![t] = [call[t] EXCEPT !.pc = label]]
    BY <1>5 DEF GoTo, TypeOK, Calls
  <2>. QED
    BY <1>5, <2>1, OthersAgree
<1>6. ASSUME NEW t \in Threads,
             call[t].via = "memory",
             NEW label \in {"connect", "ping", "name", "return", "except",
                            "fall back", "clock"}
      PROVE  label \in PCs /\ CallAgrees([call[t] EXCEPT !.pc = label])
  BY <1>0, <1>6 DEF ClocksAgree, CallAgrees, Calls, PCs
<1>7. ASSUME NEW t \in Threads,
             call[t].pc \in {"check", "connect", "ping", "name", "return",
                             "except", "fall back", "clock", "lookup", "store"}
      PROVE  call[t].via = "memory"
  BY <1>7 DEF ClocksAgree, CallAgrees, TypeOK, Calls
<1>8. ASSUME NEW t \in Threads,
             CheckClient(t) \/ Connect(t) \/ Ping(t) \/ NameRedis(t)
               \/ DropClient(t) \/ FallBack(t)
      PROVE  ClocksAgree'
  <2>1. Quiet
    BY <1>8 DEF CheckClient, Connect, Ping, NameRedis, DropClient, FallBack
  <2>2. \E label \in {"connect", "ping", "name", "return", "except",
                      "fall back", "clock"} : GoTo(t, label)
    BY <1>8 DEF CheckClient, Connect, Ping, NameRedis, DropClient, FallBack
  <2>3. call[t].via = "memory"
    BY <1>7, <1>8 DEF CheckClient, Connect, Ping, NameRedis, DropClient,
                      FallBack, At
  <2>. QED
    BY <1>1, <1>5, <1>6, <2>1, <2>2, <2>3 DEF ClocksAgree
<1>9. ASSUME NEW t \in Threads, ReturnClient(t) PROVE ClocksAgree'
  <2>1. CallAgrees([call[t] EXCEPT !.pc = "get", !.via = "redis"])
    BY <1>0, <1>7, <1>9 DEF ReturnClient, At, ClocksAgree, CallAgrees, Calls
  <2>2. call[t].via = "memory" /\ Quiet
    BY <1>7, <1>9 DEF ReturnClient, At
  <2>. QED
    BY <1>1, <1>5, <1>6, <1>9, <2>1, <2>2, OthersAgree
       DEF ReturnClient, ClocksAgree
<1>10. ASSUME NEW t \in Threads, GetFromRedis(t) PROVE ClocksAgree'
  <2>1. call[t].via = "redis" /\ Quiet
    BY <1>10 DEF GetFromRedis, At, ClocksAgree, CallAgrees
  <2>2. ASSUME Live(redis[call[t].key], clock)
        PROVE  CallAgrees([call[t] EXCEPT !.pc = "done",
                                          !.value = redis[call[t].key].readAt])
    BY <1>0, <2>1, <2>2
       DEF Live, ClocksAgree, EntriesAgree, CallAgrees, Calls, MaxAge
  <2>3. "load" \in PCs /\ CallAgrees([call[t] EXCEPT !.pc = "load"])
    BY <1>0, <2>1 DEF ClocksAgree, CallAgrees, Calls, PCs
  <2>4. CASE Raise(t)
    BY <1>1, <1>3, <2>1, <2>4 DEF ClocksAgree
  <2>5. CASE Live(redis[call[t].key], clock) /\ Found(t, redis[call[t].key])
    BY <1>1, <2>1, <2>2, <2>5, OthersAgree DEF Found, ClocksAgree
  <2>6. CASE GoTo(t, "load")
    BY <1>1, <1>5, <2>1, <2>3, <2>6 DEF ClocksAgree
  <2>. QED
    BY <1>10, <2>4, <2>5, <2>6 DEF GetFromRedis
<1>11. ASSUME NEW t \in Threads, SetInRedis(t) PROVE ClocksAgree'
  <2>1. "done" \in PCs /\ CallAgrees([call[t] EXCEPT !.pc = "done"])
    <3>. DEFINE c == [call[t] EXCEPT !.pc = "done"]
    <3>1. /\ c.pc = "done" /\ c.via = call[t].via
          /\ c.asked = call[t].asked /\ c.value = call[t].value
      BY <1>0 DEF Calls
    <3>2. /\ call[t].asked =< call[t].value /\ call[t].asked =< clock
          /\ call[t].value =< clock /\ call[t].via = "redis"
      BY <1>11 DEF SetInRedis, At, ClocksAgree, CallAgrees
    <3>3. CallAgrees(c)
      <4>. HIDE DEF c
      <4>. QED
        BY <1>0, <3>1, <3>2 DEF CallAgrees, MaxAge
    <3>. QED
      BY <3>3 DEF PCs
  <2>2. EntriesAgree'
    <3>1. /\ clock =< call[t].value + MaxLoad
          /\ call[t].value =< clock
      BY <1>11 DEF SetInRedis, At, ClocksAgree, CallAgrees
    <3>2. UNCHANGED <<clock, store>>
      BY <1>11 DEF SetInRedis
    <3>3. redis' \in {redis, [redis EXCEPT ![call[t].key] = RedisEntry(t)]}
      BY <1>11 DEF SetInRedis
    <3>. QED
      BY <1>0, <3>1, <3>2, <3>3 DEF ClocksAgree, EntriesAgree, RedisEntry, TypeOK
  <2>3. UNCHANGED clock /\ (Raise(t) \/ GoTo(t, "done"))
    BY <1>11 DEF SetInRedis
  <2>. QED
    BY <1>3, <1>5, <2>1, <2>2, <2>3 DEF ClocksAgree
<1>12. ASSUME NEW t \in Threads, ReadClock(t) PROVE ClocksAgree'
  <2>1. CallAgrees([call[t] EXCEPT !.pc = "lookup", !.now = clock])
    <3>. DEFINE c == [call[t] EXCEPT !.pc = "lookup", !.now = clock]
    <3>1. /\ c.pc = "lookup" /\ c.via = call[t].via /\ c.now = clock
          /\ c.asked = call[t].asked /\ c.value = call[t].value
      BY <1>0 DEF Calls
    <3>2. /\ call[t].asked =< clock /\ call[t].value =< clock
          /\ call[t].via = "memory"
      BY <1>7, <1>12 DEF ReadClock, At, ClocksAgree, CallAgrees
    <3>. HIDE DEF c
    <3>3. CallAgrees(c)
      BY <1>0, <3>1, <3>2 DEF CallAgrees
    <3>. QED
      BY <3>3 DEF c
  <2>. QED
    BY <1>1, <1>12, <2>1, OthersAgree DEF ReadClock, ClocksAgree
<1>13. ASSUME NEW t \in Threads, LookUp(t) PROVE ClocksAgree'
  <2>1. call[t].via = "memory" /\ Quiet
    BY <1>7, <1>13 DEF LookUp, At
  <2>2. ASSUME Live(store[call[t].key], call[t].now)
        PROVE  CallAgrees([call[t] EXCEPT !.pc = "done",
                                          !.value = store[call[t].key].readAt])
    BY <1>0, <1>13, <2>1, <2>2
       DEF LookUp, At, Live, ClocksAgree, EntriesAgree, CallAgrees, Calls, MaxAge
  <2>3. "load" \in PCs /\ CallAgrees([call[t] EXCEPT !.pc = "load"])
    BY <1>0, <1>13, <2>1 DEF LookUp, At, ClocksAgree, CallAgrees, Calls, PCs
  <2>. QED
    BY <1>1, <1>5, <1>13, <2>1, <2>2, <2>3, OthersAgree
       DEF LookUp, Found, ClocksAgree
<1>14. ASSUME NEW t \in Threads, Load(t) PROVE ClocksAgree'
  <2>1. Quiet
    BY <1>14 DEF Load
  <2>2. CallAgrees([call[t] EXCEPT !.value = clock,
                      !.pc = IF call[t].via = "redis" THEN "setex" ELSE "store"])
    BY <1>0, <1>14 DEF Load, At, ClocksAgree, CallAgrees, Calls
  <2>. QED
    BY <1>1, <1>3, <1>14, <2>1, <2>2, OthersAgree
       DEF Load, LoadFails, ClocksAgree
<1>15. ASSUME NEW t \in Threads, Store(t) PROVE ClocksAgree'
  <2>1. /\ call[t].via = "memory"
        /\ call[t].asked =< call[t].now
        /\ call[t].now =< call[t].value
        /\ call[t].value =< clock
    BY <1>7, <1>15 DEF Store, At, ClocksAgree, CallAgrees
  <2>2. "done" \in PCs /\ CallAgrees([call[t] EXCEPT !.pc = "done"])
    <3>. DEFINE c == [call[t] EXCEPT !.pc = "done"]
    <3>1. /\ c.pc = "done" /\ c.via = "memory"
          /\ c.asked = call[t].asked /\ c.value = call[t].value
      BY <1>0, <2>1 DEF Calls
    <3>2. CallAgrees(c)
      <4>. HIDE DEF c
      <4>. QED
        BY <1>0, <2>1, <3>1 DEF CallAgrees, MaxAge
    <3>. QED
      BY <3>2 DEF PCs
  <2>3. EntriesAgree'
    <3>1. UNCHANGED <<clock, redis>>
      BY <1>15 DEF Store
    <3>2. store' = [store EXCEPT ![call[t].key] = StoredEntry(t)]
      BY <1>15 DEF Store
    <3>. QED
      BY <1>0, <2>1, <3>1, <3>2
         DEF ClocksAgree, EntriesAgree, StoredEntry, TypeOK
  <2>. QED
    BY <1>5, <1>15, <2>2, <2>3 DEF Store, ClocksAgree
<1>16. ASSUME NEW t \in Threads, Return(t) PROVE ClocksAgree'
  BY <1>1, <1>2, <1>16, OthersAgree DEF Return, ClocksAgree
<1>17. CASE Tick
  <2>1. EntriesAgree'
    BY <1>0, <1>17 DEF Tick, ClocksAgree, EntriesAgree
  <2>2. CallsAgree'
    BY <1>0, <1>17 DEF Tick, At, ClocksAgree, CallAgrees, MaxAge
  <2>. QED
    BY <2>1, <2>2 DEF ClocksAgree
<1>18. CASE RedisChanges
  <2>1. EntriesAgree'
    BY <1>0, <1>18 DEF RedisChanges, ClocksAgree, EntriesAgree, NoEntry
  <2>2. CallsAgree'
    BY <1>18 DEF RedisChanges, ClocksAgree, CallAgrees, MaxAge
  <2>. QED
    BY <2>1, <2>2 DEF ClocksAgree
<1>19. CASE UNCHANGED vars
  BY <1>19 DEF vars, ClocksAgree, EntriesAgree, CallAgrees, MaxAge
<1>. QED
  BY <1>4, <1>8, <1>9, <1>10, <1>11, <1>12, <1>13, <1>14, <1>15, <1>16, <1>17,
     <1>18, <1>19 DEF Next, Step

(* The times are consistent before the first call.                         *)
LEMMA ClocksAgreeInit == Init => ClocksAgree
<1> SUFFICES ASSUME Init PROVE ClocksAgree
  OBVIOUS
<1>1. EntriesAgree
  BY TimesAssumption DEF Init, EntriesAgree, NoEntry
<1>2. CallAgrees(NoCall)
  BY DEF Init, CallAgrees, NoCall
<1>. QED
  BY <1>1, <1>2 DEF Init, ClocksAgree

(* Whatever the interleaving of slow and fast loaders, and whichever       *)
(* backend each of them ends up with, an answer is younger than its        *)
(* backend's bound when it is asked for.                                   *)
THEOREM AnswersAreFresh == Spec => []AnswerFresh
<1>1. Init => ClocksAgree
  BY ClocksAgreeInit
<1>2. TypeOK /\ ClocksAgree /\ [Next]_vars => ClocksAgree'
  BY ClocksAgreeStep
<1>3. ClocksAgree => AnswerFresh
  BY DEF ClocksAgree, CallAgrees, AnswerFresh, At
<1>. QED
  BY <1>1, <1>2, <1>3, TypeCorrect, PTL DEF Spec

-----------------------------------------------------------------------------
(* The cache implements its abstract specification.                        *)

(* The abstract state after a step of one thread.                          *)
LEMMA AbstractState ==
  ASSUME TypeOK, NEW t \in Threads, NEW c \in Calls,
         call' = [call EXCEPT ![t] = c]
  PROVE  /\ phases' = [phases EXCEPT ![t] = Phase(c)]
         /\ askedAt' = [askedAt EXCEPT ![t] = c.asked]
         /\ answers' = [answers EXCEPT ![t] =
                          IF c.pc = "done" THEN c.value ELSE 0]
<1>. DEFINE answer(d) == IF d.pc = "done" THEN d.value ELSE 0
<1>1. \A u \in Threads : call'[u] = IF u = t THEN c ELSE call[u]
  BY DEF TypeOK
<1>2. phases' = [u \in Threads |-> IF u = t THEN Phase(c) ELSE Phase(call[u])]
  BY <1>1 DEF phases
<1>3. askedAt' = [u \in Threads |-> IF u = t THEN c.asked ELSE call[u].asked]
  BY <1>1 DEF askedAt
<1>4. answers' = [u \in Threads |-> IF u = t THEN answer(c) ELSE answer(call[u])]
  <2>1. answers' = [u \in Threads |-> answer(call'[u])]
    BY DEF answers, At
  <2>. HIDE DEF answer
  <2>. QED
    BY <1>1, <2>1
<1>5. answers = [u \in Threads |-> answer(call[u])]
  BY DEF answers, At
<1>6. answers' = [answers EXCEPT ![t] = answer(c)]
  <2>. HIDE DEF answer
  <2>. QED
    BY <1>4, <1>5
<1>. QED
  BY <1>2, <1>3, <1>6 DEF phases, askedAt

(* What one thread's step is for the abstract specification depends only   *)
(* on where its call was and where it is.                                  *)
LEMMA StepMaps ==
  ASSUME TypeOK, ClocksAgree', NEW t \in Threads, NEW c \in Calls,
         call' = [call EXCEPT ![t] = c], UNCHANGED clock,
         \/ call[t].pc = "idle" /\ c.pc = "check" /\ c.asked = clock
         \/ /\ call[t].pc \notin {"idle", "done"}
            /\ c.pc # "idle"
            /\ c.asked = call[t].asked
         \/ call[t].pc # "idle" /\ c = NoCall
  PROVE  [Promise!Next]_(Promise!vars)
<1>0. /\ clock \in Nat /\ clock' = clock
      /\ c.value \in Nat /\ c.asked \in Nat /\ TTL \in Nat /\ MaxLoad \in Nat
  BY TimesAssumption DEF TypeOK, Calls, Times
<1>1. /\ phases' = [phases EXCEPT ![t] = Phase(c)]
      /\ askedAt' = [askedAt EXCEPT ![t] = c.asked]
      /\ answers' = [answers EXCEPT ![t] =
                       IF c.pc = "done" THEN c.value ELSE 0]
  BY AbstractState
<1>2. /\ phases = [phases EXCEPT ![t] = Phase(call[t])]
      /\ askedAt = [askedAt EXCEPT ![t] = call[t].asked]
      /\ call[t].pc # "done" => answers = [answers EXCEPT ![t] = 0]
      /\ phases[t] = Phase(call[t]) /\ askedAt[t] = call[t].asked
  BY DEF phases, askedAt, answers, At
<1>3. CASE call[t].pc = "idle" /\ c.pc = "check" /\ c.asked = clock
  <2>1. Phase(call[t]) = "idle" /\ Phase(c) = "waiting"
    BY <1>3 DEF Phase
  <2>2. Promise!Ask(t)
    BY <1>0, <1>1, <1>2, <1>3, <2>1 DEF Promise!Ask
  <2>. QED
    BY <2>2 DEF Promise!Next
<1>4. CASE /\ call[t].pc \notin {"idle", "done"}
           /\ c.pc \notin {"idle", "done"}
           /\ c.asked = call[t].asked
  <2>1. Phase(call[t]) = Phase(c)
    BY <1>4 DEF Phase
  <2>. QED
    BY <1>0, <1>1, <1>2, <1>4, <2>1 DEF Promise!vars
<1>5. CASE /\ call[t].pc \notin {"idle", "done"}
           /\ c.pc = "done"
           /\ c.asked = call[t].asked
  <2>1. CallAgrees(c)'
    BY DEF ClocksAgree, TypeOK
  <2>2. c.value =< clock /\ c.value > c.asked - (TTL + MaxLoad)
    BY <1>0, <1>5, <2>1 DEF CallAgrees, MaxAge
  <2>3. c.value \in 0 .. clock
    BY <1>0, <2>2
  <2>4. Phase(call[t]) = "waiting" /\ Phase(c) = "answered"
    BY <1>5 DEF Phase
  <2>5. Promise!Reply(t)
    BY <1>0, <1>1, <1>2, <1>5, <2>2, <2>3, <2>4 DEF Promise!Reply
  <2>. QED
    BY <2>5 DEF Promise!Next
<1>6. CASE call[t].pc # "idle" /\ c = NoCall
  <2>1. c.pc = "idle" /\ c.asked = 0
    BY <1>6 DEF NoCall
  <2>2. Phase(call[t]) # "idle" /\ Phase(c) = "idle"
    BY <1>6, <2>1 DEF Phase
  <2>3. Promise!End(t)
    BY <1>0, <1>1, <1>2, <2>1, <2>2 DEF Promise!End
  <2>. QED
    BY <2>3 DEF Promise!Next
<1>. QED
  BY <1>3, <1>4, <1>5, <1>6

(* Every step is a step of CachePromise or stutters.                       *)
LEMMA NextMaps ==
  ASSUME TypeOK, ClocksAgree', [Next]_vars
  PROVE  [Promise!Next]_(Promise!vars)
<1>. DEFINE Abstract == [Promise!Next]_(Promise!vars)
<1>0. /\ \A t \in Threads : call[t] \in Calls
      /\ clock \in Times /\ NoCall \in Calls
      /\ \A k \in Keys : store[k] \in Entries /\ redis[k] \in Entries
  BY NoCallType DEF TypeOK
<1>1. ASSUME NEW t \in Threads, NEW k \in Keys, Begin(t, k) PROVE Abstract
  <2>. DEFINE c == [NoCall EXCEPT !.pc = "check", !.key = k, !.asked = clock]
  <2>1. c \in Calls /\ c.pc = "check" /\ c.asked = clock
    BY <1>0 DEF Calls, PCs
  <2>2. call[t].pc = "idle" /\ call' = [call EXCEPT ![t] = c]
        /\ UNCHANGED clock
    BY <1>1 DEF Begin, At
  <2>. HIDE DEF c
  <2>. QED
    BY <2>1, <2>2, StepMaps
<1>2. ASSUME NEW t \in Threads, NEW label \in PCs \ {"idle"}, GoTo(t, label),
             UNCHANGED clock, call[t].pc \notin {"idle", "done"}
      PROVE  Abstract
  <2>. DEFINE c == [call[t] EXCEPT !.pc = label]
  <2>1. c \in Calls /\ c.pc # "idle" /\ c.asked = call[t].asked
    BY <1>0 DEF Calls
  <2>2. call' = [call EXCEPT ![t] = c]
    BY <1>2 DEF GoTo, TypeOK, Calls
  <2>. HIDE DEF c
  <2>. QED
    BY <1>2, <2>1, <2>2, StepMaps
<1>3. ASSUME NEW t \in Threads, call' = [call EXCEPT ![t] = NoCall],
             UNCHANGED clock, call[t].pc # "idle"
      PROVE  Abstract
  BY <1>0, <1>3, StepMaps
<1>4. ASSUME NEW t \in Threads, NEW e \in Entries, Found(t, e),
             UNCHANGED clock, call[t].pc \notin {"idle", "done"}
      PROVE  Abstract
  <2>. DEFINE c == [call[t] EXCEPT !.pc = "done", !.value = e.readAt]
  <2>1. c \in Calls /\ c.pc # "idle" /\ c.asked = call[t].asked
    BY <1>0 DEF Calls, Entries, PCs
  <2>2. call' = [call EXCEPT ![t] = c]
    BY <1>4 DEF Found
  <2>. HIDE DEF c
  <2>. QED
    BY <1>4, <2>1, <2>2, StepMaps
<1>5. ASSUME NEW t \in Threads,
             CheckClient(t) \/ Connect(t) \/ Ping(t) \/ NameRedis(t)
               \/ DropClient(t) \/ FallBack(t) \/ Store(t)
      PROVE  Abstract
  <2>1. UNCHANGED clock /\ call[t].pc \notin {"idle", "done"}
    BY <1>5 DEF CheckClient, Connect, Ping, NameRedis, DropClient, FallBack,
                Store, At
  <2>2. \E label \in {"connect", "ping", "name", "return", "except",
                      "fall back", "clock", "done"} : GoTo(t, label)
    BY <1>5 DEF CheckClient, Connect, Ping, NameRedis, DropClient, FallBack,
                Store
  <2>. QED
    BY <1>2, <2>1, <2>2 DEF PCs
<1>6. ASSUME NEW t \in Threads, ReturnClient(t) PROVE Abstract
  <2>1. call[t].pc = "return" /\ UNCHANGED clock
    BY <1>6 DEF ReturnClient, At
  <2>2. CASE client
    <3>. DEFINE c == [call[t] EXCEPT !.pc = "get", !.via = "redis"]
    <3>1. c \in Calls /\ c.pc # "idle" /\ c.asked = call[t].asked
      BY <1>0 DEF Calls, PCs
    <3>2. call' = [call EXCEPT ![t] = c]
      BY <1>6, <2>2 DEF ReturnClient
    <3>. HIDE DEF c
    <3>. QED
      BY <2>1, <3>1, <3>2, StepMaps
  <2>3. CASE ~client
    BY <1>2, <1>6, <2>1, <2>3 DEF ReturnClient, PCs
  <2>. QED
    BY <2>2, <2>3
<1>7. ASSUME NEW t \in Threads, GetFromRedis(t) PROVE Abstract
  <2>1. call[t].pc = "get" /\ UNCHANGED clock /\ redis[call[t].key] \in Entries
    BY <1>0, <1>7 DEF GetFromRedis, At, Calls
  <2>2. Raise(t) \/ Found(t, redis[call[t].key]) \/ GoTo(t, "load")
    BY <1>7 DEF GetFromRedis
  <2>3. CASE Raise(t)
    BY <1>3, <2>1, <2>3 DEF Raise
  <2>4. CASE Found(t, redis[call[t].key])
    BY <1>4, <2>1, <2>4
  <2>5. CASE GoTo(t, "load")
    BY <1>2, <2>1, <2>5 DEF PCs
  <2>. QED
    BY <2>2, <2>3, <2>4, <2>5
<1>8. ASSUME NEW t \in Threads, SetInRedis(t) PROVE Abstract
  <2>1. call[t].pc = "setex" /\ UNCHANGED clock
    BY <1>8 DEF SetInRedis, At
  <2>2. Raise(t) \/ GoTo(t, "done")
    BY <1>8 DEF SetInRedis
  <2>. QED
    BY <1>2, <1>3, <2>1, <2>2 DEF Raise, PCs
<1>9. ASSUME NEW t \in Threads, ReadClock(t) PROVE Abstract
  <2>. DEFINE c == [call[t] EXCEPT !.pc = "lookup", !.now = clock]
  <2>1. c \in Calls /\ c.pc # "idle" /\ c.asked = call[t].asked
    BY <1>0 DEF Calls, PCs
  <2>2. call' = [call EXCEPT ![t] = c] /\ UNCHANGED clock
        /\ call[t].pc = "clock"
    BY <1>9 DEF ReadClock, At
  <2>. HIDE DEF c
  <2>. QED
    BY <2>1, <2>2, StepMaps
<1>10. ASSUME NEW t \in Threads, LookUp(t) PROVE Abstract
  <2>1. /\ call[t].pc = "lookup" /\ UNCHANGED clock
        /\ store[call[t].key] \in Entries
    BY <1>0, <1>10 DEF LookUp, At, Calls
  <2>2. Found(t, store[call[t].key]) \/ GoTo(t, "load")
    BY <1>10 DEF LookUp
  <2>. QED
    BY <1>2, <1>4, <2>1, <2>2 DEF PCs
<1>11. ASSUME NEW t \in Threads, Load(t) PROVE Abstract
  <2>. DEFINE c == [call[t] EXCEPT
                      !.value = clock,
                      !.pc = IF call[t].via = "redis" THEN "setex" ELSE "store"]
  <2>1. c \in Calls /\ c.pc # "idle" /\ c.asked = call[t].asked
    BY <1>0 DEF Calls, PCs
  <2>2. call[t].pc = "load" /\ UNCHANGED clock
    BY <1>11 DEF Load, At
  <2>3. Raise(t) \/ call' = [call EXCEPT ![t] = c]
    BY <1>11 DEF Load, LoadFails
  <2>. HIDE DEF c
  <2>. QED
    BY <1>3, <2>1, <2>2, <2>3, StepMaps DEF Raise
<1>12. ASSUME NEW t \in Threads, Return(t) PROVE Abstract
  BY <1>3, <1>12 DEF Return, At
<1>13. CASE Tick
  <2>1. clock' \in (clock + 1) .. MaxClock
    BY <1>0, <1>13, TimesAssumption DEF Tick, Times
  <2>2. UNCHANGED <<phases, askedAt, answers>>
    BY <1>13 DEF Tick, phases, askedAt, answers, Phase, At
  <2>3. Promise!Tick
    BY <2>1, <2>2 DEF Promise!Tick
  <2>. QED
    BY <2>3 DEF Promise!Next
<1>14. CASE UNCHANGED <<clock, call>>
  BY <1>14 DEF Promise!vars, phases, askedAt, answers, Phase, At
<1>. QED
  BY <1>1, <1>5, <1>6, <1>7, <1>8, <1>9, <1>10, <1>11, <1>12, <1>13, <1>14
     DEF Next, Step, RedisChanges, vars

(* get_or_set, with its two backends and all the races between them,       *)
(* implements the safety part of CachePromise.                             *)
THEOREM ImplementsPromise == Spec => Promise!Safety
<1>1. Init => Promise!Init
  <2> SUFFICES ASSUME Init PROVE Promise!Init
    OBVIOUS
  <2>1. clock \in 0 .. MaxClock
    BY TimesAssumption DEF Init
  <2>2. \A t \in Threads : /\ call[t].pc = "idle" /\ call[t].asked = 0
                            /\ Phase(call[t]) = "idle" /\ ~At(t, "done")
    BY DEF Init, NoCall, Phase, At
  <2>3. /\ phases = [t \in Threads |-> "idle"]
        /\ askedAt = [t \in Threads |-> 0]
        /\ answers = [t \in Threads |-> 0]
    BY <2>2 DEF phases, askedAt, answers
  <2>. QED
    BY <2>1, <2>3 DEF Promise!Init
<1>2. Init => ClocksAgree
  BY ClocksAgreeInit
<1>3. TypeOK /\ ClocksAgree /\ [Next]_vars => ClocksAgree'
  BY ClocksAgreeStep
<1>4. TypeOK /\ ClocksAgree' /\ [Next]_vars => [Promise!Next]_(Promise!vars)
  BY NextMaps
<1>. QED
  BY <1>1, <1>2, <1>3, <1>4, TypeCorrect, PTL DEF Spec, Promise!Safety
=============================================================================
