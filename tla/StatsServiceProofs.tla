------------------------- MODULE StatsServiceProofs -------------------------
(***************************************************************************)
(* Proofs about StatsService, for any number of threads, sources, types,   *)
(* connections and versions: where an answer comes from, and how old the   *)
(* definition is that it was read with.                                    *)
(***************************************************************************)
EXTENDS StatsService, TLAPS

-----------------------------------------------------------------------------
(* Redis is not used here, and requests pass only through the steps of     *)
(* get_or_set that lead to the memory.                                     *)

MemoryPCs == {"idle", "check", "clock", "lookup", "load", "store", "done"}
MemoryOnly ==
  /\ redisUrl = "none" /\ client = FALSE
  /\ \A t \in Threads : call[t].pc \in MemoryPCs /\ call[t].via = "memory"

Typed == TypeOK /\ MemoryOnly

(* The record of a thread that asks for nothing is a call.                 *)
LEMMA NoCallType ==
  /\ Cache!NoCall \in Cache!Calls
  /\ Cache!NoCall.pc = "idle" /\ Cache!NoCall.via = "memory"
<1>1. (CHOOSE k \in Sources : TRUE) \in Sources
  BY ServiceAssumption
<1>2. 0 \in Cache!Times
  BY ServiceAssumption DEF Cache!Times
<1>. QED
  BY <1>1, <1>2 DEF Cache!NoCall, Cache!Calls, Cache!PCs

(* A step of one thread leaves the calls of the others alone.              *)
LEMMA CallMoves ==
  ASSUME Typed, NEW t \in Threads, NEW r \in Cache!Calls,
         r.pc \in MemoryPCs, r.via = "memory",
         call' = [call EXCEPT ![t] = r]
  PROVE  /\ call' \in [Threads -> Cache!Calls]
         /\ call'[t] = r
         /\ \A u \in Threads \ {t} : call'[u] = call[u]
         /\ \A u \in Threads : call'[u].pc \in MemoryPCs /\ call'[u].via = "memory"
BY DEF Typed, TypeOK, MemoryOnly, Cache!TypeOK

(* What a call is made of.                                                 *)
LEMMA CallType ==
  ASSUME Typed, NEW t \in Threads
  PROVE  /\ call[t] \in Cache!Calls
         /\ call[t].pc \in MemoryPCs /\ call[t].via = "memory"
         /\ call[t].key \in Sources /\ call[t].asked \in Nat /\ call[t].now \in Nat
         /\ clock \in Cache!Times /\ clock \in Nat
BY ServiceAssumption DEF Typed, TypeOK, MemoryOnly, Cache!TypeOK, Cache!Calls, Cache!Times

(* The time at which an entry expires.                                     *)
LEMMA ExpiryType ==
  ASSUME Typed, NEW s \in Sources
  PROVE  store[s].expiry \in Nat
<1>1. store[s] \in Cache!Entries
  BY DEF Typed, TypeOK, Cache!TypeOK
<1>2. MaxClock + TTL \in Nat
  BY ServiceAssumption
<1>. QED
  BY <1>1, <1>2 DEF Cache!Entries, Cache!Expiries

(* A request begins with the check for a Redis client, now.                *)
LEMMA AskDoes ==
  ASSUME Typed, NEW t \in Threads, NEW s \in Sources, Ask(t, s)
  PROVE  \E r \in Cache!Calls :
           /\ call' = [call EXCEPT ![t] = r]
           /\ r.pc = "check" /\ r.via = "memory" /\ r.key = s /\ r.asked = clock
<1>. DEFINE r == [Cache!NoCall EXCEPT !.pc = "check", !.key = s, !.asked = clock]
<1>1. call' = [call EXCEPT ![t] = r]
  BY DEF Ask, CacheKey, Cache!Begin
<1>2. r \in Cache!Calls /\ r.pc = "check" /\ r.via = "memory" /\ r.key = s /\ r.asked = clock
  BY NoCallType, CallType DEF Cache!Calls, Cache!PCs
<1>. QED
  BY <1>1, <1>2

(* There is none; the time is read.                                        *)
LEMMA SeekDoes ==
  ASSUME Typed, NEW t \in Threads, Seek(t)
  PROVE  \E r \in Cache!Calls :
           /\ call' = [call EXCEPT ![t] = r]
           /\ r.via = "memory" /\ r.key = call[t].key /\ r.asked = call[t].asked
           /\ \/ call[t].pc = "check" /\ r.pc = "clock"
              \/ call[t].pc = "clock" /\ r.pc = "lookup" /\ r.now = clock
<1>1. CASE Cache!CheckClient(t)
  <2>. DEFINE r == [call[t] EXCEPT !.pc = "clock"]
  <2>1. call' = [call EXCEPT ![t] = r] /\ call[t].pc = "check"
    BY <1>1 DEF Typed, MemoryOnly, Cache!CheckClient, Cache!At, Cache!GoTo
  <2>2. r \in Cache!Calls /\ r.via = "memory" /\ r.key = call[t].key
        /\ r.asked = call[t].asked /\ r.pc = "clock"
    BY CallType DEF Cache!Calls, Cache!PCs
  <2>. QED
    BY <2>1, <2>2
<1>2. CASE Cache!ReadClock(t)
  <2>. DEFINE r == [call[t] EXCEPT !.pc = "lookup", !.now = clock]
  <2>1. call' = [call EXCEPT ![t] = r] /\ call[t].pc = "clock"
    BY <1>2 DEF Cache!ReadClock, Cache!At
  <2>2. r \in Cache!Calls /\ r.via = "memory" /\ r.key = call[t].key
        /\ r.asked = call[t].asked /\ r.pc = "lookup" /\ r.now = clock
    BY CallType DEF Cache!Calls, Cache!PCs
  <2>. QED
    BY <2>1, <2>2
<1>. QED
  BY <1>1, <1>2 DEF Seek

(* A live entry answers; otherwise the loader is called.                   *)
LEMMA LookUpDoes ==
  ASSUME Typed, NEW t \in Threads, LookUp(t)
  PROVE  \E r \in Cache!Calls :
           /\ call' = [call EXCEPT ![t] = r]
           /\ r.via = "memory" /\ r.key = call[t].key /\ r.asked = call[t].asked
           /\ r.now = call[t].now
           /\ call[t].pc = "lookup"
           /\ \/ r.pc = "done" /\ store[call[t].key].expiry > call[t].now
              \/ r.pc = "load"
<1>1. Cache!LookUp(t) /\ call[t].pc = "lookup"
  BY DEF LookUp, Cache!LookUp, Cache!At
<1>2. CASE Cache!Live(store[call[t].key], call[t].now)
  <2>. DEFINE v == store[call[t].key].readAt
              r == [call[t] EXCEPT !.pc = "done", !.value = v]
  <2>1. call' = [call EXCEPT ![t] = r]
    BY <1>1, <1>2 DEF Cache!LookUp, Cache!Found
  <2>2. v \in Cache!Times
    BY CallType DEF Typed, TypeOK, Cache!TypeOK, Cache!Entries
  <2>3. r \in Cache!Calls /\ r.via = "memory" /\ r.key = call[t].key
        /\ r.asked = call[t].asked /\ r.pc = "done" /\ r.now = call[t].now
    BY <2>2, CallType DEF Cache!Calls, Cache!PCs
  <2>. QED
    BY <1>1, <1>2, <2>1, <2>3 DEF Cache!Live
<1>3. CASE ~Cache!Live(store[call[t].key], call[t].now)
  <2>. DEFINE r == [call[t] EXCEPT !.pc = "load"]
  <2>1. call' = [call EXCEPT ![t] = r]
    BY <1>1, <1>3 DEF Cache!LookUp, Cache!GoTo
  <2>2. r \in Cache!Calls /\ r.via = "memory" /\ r.key = call[t].key
        /\ r.asked = call[t].asked /\ r.pc = "load" /\ r.now = call[t].now
    BY CallType DEF Cache!Calls, Cache!PCs
  <2>. QED
    BY <1>1, <2>1, <2>2
<1>. QED
  BY <1>2, <1>3

(* A request that has found its answer has what the entry was made from.   *)
LEMMA LookedUp ==
  ASSUME Typed, NEW t \in Threads, LookUp(t)
  PROVE  /\ hand' = hand /\ using' = using /\ got'[t] = stored[call[t].key]
         /\ call'[t].key = call[t].key
         /\ call'[t].asked = call[t].asked /\ call'[t].now = call[t].now
         /\ call[t].pc = "lookup"
         /\ \/ call'[t].pc = "done" /\ store[call[t].key].expiry > call[t].now
            \/ call'[t].pc = "load"
<1>1. PICK r \in Cache!Calls :
        /\ call' = [call EXCEPT ![t] = r]
        /\ r.key = call[t].key /\ r.asked = call[t].asked /\ r.now = call[t].now
        /\ call[t].pc = "lookup"
        /\ \/ r.pc = "done" /\ store[call[t].key].expiry > call[t].now
           \/ r.pc = "load"
  BY LookUpDoes
<1>2. call'[t] = r
  BY <1>1 DEF Typed, TypeOK, Cache!TypeOK
<1>3. hand' = hand /\ using' = using /\ got'[t] = stored[call[t].key]
  BY DEF LookUp, poolVars, Typed, TypeOK
<1>. QED
  BY <1>1, <1>2, <1>3

(* The loader returns what it has read now.                                *)
LEMMA QueryDoes ==
  ASSUME Typed, NEW t \in Threads, Query(t)
  PROVE  \E r \in Cache!Calls :
           /\ call' = [call EXCEPT ![t] = r]
           /\ r.via = "memory" /\ r.key = call[t].key /\ r.asked = call[t].asked
           /\ r.now = call[t].now
           /\ call[t].pc = "load" /\ r.pc = "store"
<1>. DEFINE r == [call[t] EXCEPT !.value = clock, !.pc = "store"]
<1>1. call' = [call EXCEPT ![t] = r] /\ call[t].pc = "load"
  BY DEF Typed, MemoryOnly, Query, Cache!Load, Cache!At
<1>2. r \in Cache!Calls /\ r.via = "memory" /\ r.key = call[t].key
      /\ r.asked = call[t].asked /\ r.pc = "store" /\ r.now = call[t].now
  BY CallType DEF Cache!Calls, Cache!PCs
<1>. QED
  BY <1>1, <1>2

(* What was loaded is kept for TTL, counted from before the loading.       *)
LEMMA StoreDoes ==
  ASSUME Typed, NEW t \in Threads, Store(t)
  PROVE  /\ \E r \in Cache!Calls :
              /\ call' = [call EXCEPT ![t] = r]
              /\ r.via = "memory" /\ r.key = call[t].key /\ r.asked = call[t].asked
              /\ call[t].pc = "store" /\ r.pc = "done"
         /\ store' \in [Sources -> Cache!Entries]
         /\ store'[call[t].key].expiry = call[t].now + TTL
         /\ \A s \in Sources \ {call[t].key} : store'[s] = store[s]
<1>. DEFINE r == [call[t] EXCEPT !.pc = "done"]
            e == [readAt |-> call[t].value, expiry |-> call[t].now + TTL]
<1>1. /\ call' = [call EXCEPT ![t] = r] /\ call[t].pc = "store"
      /\ store' = [store EXCEPT ![call[t].key] = e]
  BY DEF Store, Cache!Store, Cache!At, Cache!GoTo, Cache!StoredEntry
<1>2. r \in Cache!Calls /\ r.via = "memory" /\ r.key = call[t].key
      /\ r.asked = call[t].asked /\ r.pc = "done"
  BY CallType DEF Cache!Calls, Cache!PCs
<1>3. e \in Cache!Entries
  BY CallType, ServiceAssumption DEF Cache!Entries, Cache!Calls, Cache!Times, Cache!Expiries
<1>4. store \in [Sources -> Cache!Entries]
  BY DEF Typed, TypeOK, Cache!TypeOK
<1>. QED
  BY <1>1, <1>2, <1>3, <1>4, CallType

(* A request ends with an answer or an error.                              *)
LEMMA EndDoes ==
  ASSUME Typed, NEW t \in Threads, LoadFails(t) \/ Reply(t)
  PROVE  call' = [call EXCEPT ![t] = Cache!NoCall]
BY DEF LoadFails, Reply, Cache!LoadFails, Cache!Raise, Cache!Return

(* The variables of the cache that no step of StatsService changes, but    *)
(* for those of which a lemma above says more.                             *)
LEMMA CacheStays ==
  ASSUME Typed, [Next]_vars
  PROVE  /\ redisUrl' = "none" /\ redisUp' = redisUp /\ redis' = redis /\ client' = FALSE
         /\ backend' \in {"memory", "redis"}
         /\ store' = store \/ \E t \in Threads : Store(t)
         /\ clock' = clock \/ (clock' = clock + 1 /\ clock < MaxClock /\ Tick)
<1>1. redisUrl = "none" /\ client = FALSE /\ backend \in {"memory", "redis"}
  BY DEF Typed, TypeOK, MemoryOnly, Cache!TypeOK
<1>2. CASE UNCHANGED cacheVars
  BY <1>1, <1>2 DEF cacheVars
<1>3. ASSUME NEW t \in Threads, NEW s \in Sources, Ask(t, s) PROVE UNCHANGED <<store, clock>>
  BY <1>3 DEF Ask, Cache!Begin
<1>4. ASSUME NEW t \in Threads, Seek(t) \/ LookUp(t) \/ LoadFails(t) \/ Query(t) \/ Reply(t)
      PROVE  UNCHANGED <<store, clock>>
  BY <1>4 DEF Seek, LookUp, LoadFails, Query, Reply, Cache!CheckClient, Cache!ReadClock,
     Cache!LookUp, Cache!Load, Cache!Return
<1>5. ASSUME NEW t \in Threads,
             \/ \E s \in Sources : Ask(t, s)
             \/ Seek(t) \/ LookUp(t) \/ LoadFails(t) \/ Query(t) \/ Store(t) \/ Reply(t)
      PROVE  /\ redisUrl' = redisUrl /\ redisUp' = redisUp /\ redis' = redis
             /\ client' = client /\ backend' \in {"memory", "redis"}
  BY <1>1, <1>5 DEF Ask, Seek, LookUp, LoadFails, Query, Reply, Store, Cache!Begin,
     Cache!CheckClient, Cache!ReadClock, Cache!LookUp, Cache!Load, Cache!Store, Cache!Return
<1>6. ASSUME NEW t \in Threads, Store(t) PROVE clock' = clock
  BY <1>6 DEF Store, Cache!Store
<1>7. ASSUME Tick
      PROVE  /\ redisUrl' = redisUrl /\ redisUp' = redisUp /\ redis' = redis
             /\ client' = client /\ backend' = backend /\ store' = store
             /\ clock' = clock + 1 /\ clock < MaxClock
  BY <1>7 DEF Tick, Cache!Tick
<1>8. ASSUME NEW t \in Threads, Step(t)
      PROVE  \/ UNCHANGED cacheVars
             \/ \E s \in Sources : Ask(t, s)
             \/ Seek(t) \/ LookUp(t) \/ LoadFails(t) \/ Query(t) \/ Store(t) \/ Reply(t)
  BY <1>8 DEF Step, NotFound, Reuse, Discard, Connect, GiveBack, vars
<1>9. \/ UNCHANGED cacheVars \/ Tick
      \/ \E t \in Threads : Step(t)
  BY DEF Next, vars, Save, Delete
<1>. QED
  BY <1>1, <1>2, <1>3, <1>4, <1>5, <1>6, <1>7, <1>8, <1>9

(* The steps that leave the calls alone.                                   *)
LEMMA CallStays ==
  ASSUME [Next]_vars
  PROVE  \/ \E t \in Threads :
              \/ \E s \in Sources : Ask(t, s)
              \/ Seek(t) \/ LookUp(t) \/ LoadFails(t) \/ Query(t) \/ Store(t) \/ Reply(t)
         \/ call' = call
BY DEF Next, Step, vars, cacheVars, NotFound, Reuse, Discard, Connect, GiveBack, Tick,
       Save, Delete, Cache!Tick

(* Every step leaves calls that stay with the memory.                      *)
LEMMA CallsTyped ==
  ASSUME Typed, [Next]_vars
  PROVE  /\ call' \in [Threads -> Cache!Calls]
         /\ \A u \in Threads : call'[u].pc \in MemoryPCs /\ call'[u].via = "memory"
<1>. DEFINE Goal == /\ call' \in [Threads -> Cache!Calls]
                    /\ \A u \in Threads : call'[u].pc \in MemoryPCs /\ call'[u].via = "memory"
<1>1. ASSUME NEW t \in Threads,
             \E r \in Cache!Calls : /\ call' = [call EXCEPT ![t] = r]
                                    /\ r.pc \in MemoryPCs /\ r.via = "memory"
      PROVE  Goal
  BY <1>1, CallMoves
<1>2. ASSUME NEW t \in Threads, NEW s \in Sources, Ask(t, s) PROVE Goal
  BY <1>1, <1>2, AskDoes DEF MemoryPCs
<1>3. ASSUME NEW t \in Threads, Seek(t) PROVE Goal
  BY <1>1, <1>3, SeekDoes DEF MemoryPCs
<1>4. ASSUME NEW t \in Threads, LookUp(t) PROVE Goal
  BY <1>1, <1>4, LookUpDoes DEF MemoryPCs
<1>5. ASSUME NEW t \in Threads, Query(t) PROVE Goal
  BY <1>1, <1>5, QueryDoes DEF MemoryPCs
<1>6. ASSUME NEW t \in Threads, Store(t) PROVE Goal
  BY <1>1, <1>6, StoreDoes DEF MemoryPCs
<1>7. ASSUME NEW t \in Threads, LoadFails(t) \/ Reply(t) PROVE Goal
  BY <1>1, <1>7, EndDoes, NoCallType DEF MemoryPCs
<1>8. CASE call' = call
  BY <1>8 DEF Typed, TypeOK, MemoryOnly, Cache!TypeOK
<1>. QED
  BY <1>2, <1>3, <1>4, <1>5, <1>6, <1>7, <1>8, CallStays

-----------------------------------------------------------------------------
(* Versions: a save adds one and may end one, a delete may end one.        *)

Version == [source : Sources, kind : Kinds, until : 0 .. Current]

(* What a step may do to a version: nothing but end it now.                *)
Ends(v) ==
  /\ defs'[v].source = defs[v].source /\ defs'[v].kind = defs[v].kind
  /\ \/ defs'[v].until = defs[v].until
     \/ defs[v].until = Current /\ defs'[v].until = clock /\ clock' = clock

(* The versions are numbered from 1 and end at most now.                   *)
LEMMA VersionType ==
  ASSUME Typed
  PROVE  /\ Len(defs) \in Nat /\ Len(defs) =< MaxVersions
         /\ Versions \subseteq 0 .. MaxVersions
         /\ \A v \in Versions : defs[v] \in Version
         /\ Current \in Nat /\ clock \in 0 .. Current /\ clock < Current
<1>1. defs \in Seq(Version) /\ Len(defs) =< MaxVersions
  BY DEF Typed, TypeOK, Version
<1>2. clock \in 0 .. MaxClock
  BY DEF Typed, TypeOK, Cache!TypeOK, Cache!Times
<1>. QED
  BY <1>1, <1>2, ServiceAssumption DEF Versions, Current

(* Ending a source's definition changes no version but in its until.       *)
LEMMA EndedFacts ==
  ASSUME Typed, NEW s
  PROVE  /\ Ended(s) \in Seq(Version) /\ Len(Ended(s)) = Len(defs)
         /\ \A v \in Versions :
              /\ Ended(s)[v].source = defs[v].source /\ Ended(s)[v].kind = defs[v].kind
              /\ \/ Ended(s)[v].until = defs[v].until
                 \/ defs[v].until = Current /\ Ended(s)[v].until = clock
<1>. DEFINE n == Len(defs)
<1>1. n \in Nat /\ \A v \in 1 .. n : defs[v] \in Version /\ clock \in 0 .. Current
  BY VersionType DEF Versions
<1>2. \A v \in 1 .. n :
        LET d == IF v \in CurrentOf(s) THEN [defs[v] EXCEPT !.until = clock] ELSE defs[v]
        IN  /\ d \in Version /\ d.source = defs[v].source /\ d.kind = defs[v].kind
            /\ d.until = defs[v].until \/ (defs[v].until = Current /\ d.until = clock)
  BY <1>1 DEF Version, CurrentOf
<1>. DEFINE E(v) == IF v \in CurrentOf(s) THEN [defs[v] EXCEPT !.until = clock] ELSE defs[v]
<1>3. Ended(s) = [v \in 1 .. n |-> E(v)]
  BY DEF Ended, Versions
<1>. HIDE DEF n, E
<1>4. [v \in 1 .. n |-> E(v)] \in Seq(Version) /\ Len([v \in 1 .. n |-> E(v)]) = n
  BY <1>1, <1>2 DEF E
<1>. QED
  BY <1>2, <1>3, <1>4 DEF n, E, Versions

(* No step removes a version or changes where it belongs.                  *)
LEMMA DefsGrow ==
  ASSUME Typed, [Next]_vars
  PROVE  /\ defs' \in Seq(Version) /\ Len(defs') =< MaxVersions
         /\ Versions \subseteq Versions'
         /\ \A v \in Versions : Ends(v)
<1>1. CASE defs' = defs
  BY <1>1 DEF Typed, TypeOK, Version, Versions, Ends
<1>2. ASSUME NEW s \in Sources, NEW kind \in Kinds, Save(s, kind)
      PROVE  /\ defs' \in Seq(Version) /\ Len(defs') =< MaxVersions
             /\ Versions \subseteq Versions'
             /\ \A v \in Versions : Ends(v)
  <2>. DEFINE d == [source |-> s, kind |-> kind, until |-> Current]
              e == Ended(s)
  <2>1. d \in Version
    BY VersionType DEF Version
  <2>2. defs' = Append(e, d) /\ clock' = clock /\ Len(defs) < MaxVersions
    BY <1>2 DEF Save, cacheVars
  <2>3. e \in Seq(Version) /\ Len(e) = Len(defs) /\ Len(defs) \in Nat
    BY EndedFacts, VersionType
  <2>. HIDE DEF d, e
  <2>4. /\ defs' \in Seq(Version) /\ Len(defs') = Len(defs) + 1
        /\ \A v \in 1 .. Len(defs) : defs'[v] = e[v]
    BY <2>1, <2>2, <2>3
  <2>. QED
    BY <2>2, <2>3, <2>4, EndedFacts, ServiceAssumption DEF e, Ends, Versions
<1>3. ASSUME NEW s \in Sources, Delete(s)
      PROVE  /\ defs' \in Seq(Version) /\ Len(defs') =< MaxVersions
             /\ Versions \subseteq Versions'
             /\ \A v \in Versions : Ends(v)
  BY <1>3, EndedFacts, VersionType DEF Delete, cacheVars, Ends, Versions
<1>. QED
  BY <1>1, <1>2, <1>3
     DEF Next, Step, vars, NotFound, Ask, Seek, LookUp, Reuse, Discard, Connect,
         LoadFails, Query, GiveBack, Store, Reply, Tick

-----------------------------------------------------------------------------
(* Where things come from.                                                 *)

(* v is a version of the source s.                                         *)
Of(v, s) == v \in Versions /\ defs[v].source = s

(* A value that was read with a definition of s from a server that s was   *)
(* defined with, of the type that the definition names.                    *)
Valid(o, s) ==
  /\ Of(o.def, s) /\ Of(o.server, s)
  /\ defs[o.server].kind = defs[o.def].kind

(* A connection is to a server that its pool's key stands for.             *)
Serves(c, k) == server[c] \in Versions /\ PoolKey(server[c]) = k

Asking(t) == call[t].pc # "idle"

Exclusive ==
  /\ \A k, l \in PoolKeys : \A c \in Conns : c \in idle[k] /\ c \in idle[l] => k = l
  /\ \A t \in Threads : \A k, l \in PoolKeys : \A c \in Conns :
       hand[t] = <<k, c>> => c \notin idle[l]
  /\ \A t, u \in Threads : \A k, l \in PoolKeys : \A c \in Conns :
       hand[t] = <<k, c>> /\ hand[u] = <<l, c>> => t = u

RequestOwn(t) ==
  /\ Asking(t) => Of(using[t], call[t].key)
  /\ call[t].pc \in {"check", "clock", "lookup"} => hand[t] = None
  /\ call[t].pc \in {"store", "done"} => Valid(got[t], call[t].key)

IdleServe == \A k \in PoolKeys, c \in Conns : c \in idle[k] => Serves(c, k)
HandServe ==
  \A t \in Threads, k \in PoolKeys, c \in Conns :
    hand[t] = <<k, c>> => Serves(c, k) /\ (Loading(t) => k = PoolKey(using[t]))

StoreOwn == \A s \in Sources : store[s].expiry > 0 => Valid(stored[s], s)

Own == /\ \A t \in Threads : RequestOwn(t)
       /\ IdleServe /\ HandServe /\ StoreOwn

(* While it loads, a request has the key of a pool.                        *)
LEMMA LoadingKey ==
  ASSUME Typed, Own, NEW t \in Threads, Loading(t)
  PROVE  /\ using[t] \in Versions /\ PoolKey(using[t]) \in PoolKeys
         /\ call[t].pc = "load"
<1>1. call[t].pc = "load" /\ Of(using[t], call[t].key)
  BY DEF Loading, Cache!At, Own, RequestOwn, Asking
<1>2. using[t] \in Versions
  BY <1>1 DEF Of
<1>3. defs[using[t]] \in Version
  BY <1>2, VersionType
<1>. QED
  BY <1>1, <1>2, <1>3 DEF PoolKey, PoolKeys, Version

(* What is in hand is a connection for a key.                              *)
LEMMA HandType ==
  ASSUME Typed, NEW t \in Threads, hand[t] # None
  PROVE  \E k \in PoolKeys, c \in Conns : hand[t] = <<k, c>> /\ hand[t][2] = c
<1>1. hand[t] \in PoolKeys \X Conns
  BY DEF Typed, TypeOK
<1>. QED
  BY <1>1

(* What each step does to the pool.                                        *)
LEMMA ReuseDoes ==
  ASSUME Typed, Own, NEW t \in Threads, NEW c \in Conns, Reuse(t, c)
  PROVE  \E k \in PoolKeys :
           /\ k = PoolKey(using[t]) /\ c \in idle[k] /\ hand[t] = None
           /\ idle' = [idle EXCEPT ![k] = @ \ {c}]
           /\ hand' = [hand EXCEPT ![t] = <<k, c>>]
<1>1. PoolKey(using[t]) \in PoolKeys
  BY LoadingKey DEF Reuse
<1>. QED
  BY <1>1, Zenon DEF Reuse, Pool!Take, Pool!Hold

(* A dead connection leaves the pool and has no server any more.           *)
LEMMA DiscardDoes ==
  ASSUME Typed, Own, NEW t \in Threads, NEW c \in Conns, Discard(t, c)
  PROVE  \E k \in PoolKeys :
           /\ k = PoolKey(using[t]) /\ c \in idle[k] /\ hand' = hand
           /\ idle' = [idle EXCEPT ![k] = @ \ {c}]
           /\ server' = [server EXCEPT ![c] = NoVersion]
<1>1. PoolKey(using[t]) \in PoolKeys
  BY LoadingKey DEF Discard
<1>. QED
  BY <1>1, Zenon DEF Discard, Pool!Discard

(* A new one is nowhere else and has the server of the definition read.    *)
LEMMA ConnectDoes ==
  ASSUME Typed, Own, NEW t \in Threads, NEW c \in Conns, Connect(t, c)
  PROVE  \E k \in PoolKeys :
           /\ k = PoolKey(using[t]) /\ hand[t] = None
           /\ idle' = idle
           /\ hand' = [hand EXCEPT ![t] = <<k, c>>]
           /\ server' = [server EXCEPT ![c] = using[t]]
           /\ \A l \in PoolKeys : c \notin idle[l]
           /\ \A u \in Threads, l \in PoolKeys : hand[u] # <<l, c>>
<1>1. PoolKey(using[t]) \in PoolKeys
  BY LoadingKey DEF Connect
<1>. QED
  BY <1>1, Zenon DEF Connect, Pool!Open, Pool!Hold, Pool!Fresh

(* What was in hand goes back into its pool or is closed.                  *)
LEMMA GiveBackDoes ==
  ASSUME Typed, NEW t \in Threads, GiveBack(t)
  PROVE  \E k \in PoolKeys, c \in Conns :
           /\ hand[t] = <<k, c>>
           /\ hand' = [hand EXCEPT ![t] = None]
           /\ \/ idle' = [idle EXCEPT ![k] = @ \union {c}] /\ server' = server
              \/ idle' = idle /\ server' = [server EXCEPT ![c] = NoVersion]
<1>1. CASE Pool!Give(t) /\ UNCHANGED server
  BY <1>1, Zenon DEF Pool!Give
<1>2. CASE Pool!Drop(t) /\ server' = [server EXCEPT ![hand[t][2]] = NoVersion]
  BY <1>2, HandType DEF Pool!Drop
<1>. QED
  BY <1>1, <1>2 DEF GiveBack

(* The steps that leave the pool alone.                                    *)
LEMMA PoolStays ==
  ASSUME [Next]_vars
  PROVE  \/ \E t \in Threads :
              (\E c \in Conns : Reuse(t, c) \/ Discard(t, c) \/ Connect(t, c)) \/ GiveBack(t)
         \/ UNCHANGED <<idle, hand, server>>
BY DEF Next, Step, vars, poolVars, NotFound, Ask, Seek, LookUp, LoadFails, Query, Store,
       Reply, Tick, Save, Delete

(* The first states.                                                       *)
LEMMA InitTyped == Init => Typed
<1> SUFFICES ASSUME Init PROVE Typed
  OBVIOUS
<1>1. /\ Cache!TypeOK /\ MemoryOnly
  <2>1. Cache!NoEntry \in Cache!Entries
    BY ServiceAssumption DEF Cache!NoEntry, Cache!Entries, Cache!Times, Cache!Expiries
  <2>2. /\ store \in [Sources -> Cache!Entries] /\ redis \in [Sources -> Cache!Entries]
        /\ clock \in Cache!Times
    BY <2>1, ServiceAssumption DEF Init, Cache!Init, Cache!Times
  <2>3. call \in [Threads -> Cache!Calls] /\ MemoryOnly
    BY NoCallType DEF Init, Cache!Init, MemoryOnly, MemoryPCs
  <2>4. /\ redisUrl \in {"none", "bad", "good"} /\ redisUp \in BOOLEAN
        /\ client \in BOOLEAN /\ backend \in {"memory", "redis"}
    BY DEF Init, Cache!Init
  <2>. QED
    BY <2>2, <2>3, <2>4 DEF Cache!TypeOK
<1>2. /\ idle \in [PoolKeys -> SUBSET Conns]
      /\ hand \in [Threads -> {None} \union (PoolKeys \X Conns)]
  BY DEF Init, Pool!Init
<1>3. defs \in Seq(Version) /\ Len(defs) =< MaxVersions
  BY ServiceAssumption DEF Init
<1>4. /\ using \in [Threads -> 0 .. MaxVersions]
      /\ server \in [Conns -> 0 .. MaxVersions]
      /\ got \in [Threads -> Origins]
      /\ stored \in [Sources -> Origins]
  BY ServiceAssumption DEF Init, NoVersion, Nothing, Origins
<1>. QED
  BY <1>1, <1>2, <1>3, <1>4 DEF Typed, TypeOK, Version

(* The pool and its servers keep their types.                              *)
LEMMA PoolTyped ==
  ASSUME Typed, Own, [Next]_vars
  PROVE  /\ idle' \in [PoolKeys -> SUBSET Conns]
         /\ hand' \in [Threads -> {None} \union (PoolKeys \X Conns)]
         /\ server' \in [Conns -> 0 .. MaxVersions]
<1>. DEFINE Goal == /\ idle' \in [PoolKeys -> SUBSET Conns]
                    /\ hand' \in [Threads -> {None} \union (PoolKeys \X Conns)]
                    /\ server' \in [Conns -> 0 .. MaxVersions]
<1>0. /\ idle \in [PoolKeys -> SUBSET Conns]
      /\ hand \in [Threads -> {None} \union (PoolKeys \X Conns)]
      /\ server \in [Conns -> 0 .. MaxVersions]
      /\ NoVersion \in 0 .. MaxVersions
      /\ \A t \in Threads : using[t] \in 0 .. MaxVersions
  BY ServiceAssumption DEF Typed, TypeOK, NoVersion
<1>1. ASSUME NEW t \in Threads, NEW c \in Conns, Reuse(t, c) PROVE Goal
  <2>1. server' = server
    BY <1>1 DEF Reuse
  <2>2. PICK k \in PoolKeys : /\ idle' = [idle EXCEPT ![k] = @ \ {c}]
                              /\ hand' = [hand EXCEPT ![t] = <<k, c>>]
    BY <1>1, ReuseDoes, Zenon
  <2>3. <<k, c>> \in PoolKeys \X Conns
    OBVIOUS
  <2>4. hand' \in [Threads -> {None} \union (PoolKeys \X Conns)]
    BY <1>0, <2>2, <2>3
  <2>5. idle' \in [PoolKeys -> SUBSET Conns]
    BY <1>0, <2>2
  <2>. QED
    BY <1>0, <2>1, <2>4, <2>5
<1>2. ASSUME NEW t \in Threads, NEW c \in Conns, Discard(t, c) PROVE Goal
  <2>1. PICK k \in PoolKeys : /\ idle' = [idle EXCEPT ![k] = @ \ {c}] /\ hand' = hand
                              /\ server' = [server EXCEPT ![c] = NoVersion]
    BY <1>2, DiscardDoes, Zenon
  <2>2. idle' \in [PoolKeys -> SUBSET Conns]
    BY <1>0, <2>1
  <2>3. server' \in [Conns -> 0 .. MaxVersions]
    BY <1>0, <2>1
  <2>. QED
    BY <1>0, <2>1, <2>2, <2>3
<1>3. ASSUME NEW t \in Threads, NEW c \in Conns, Connect(t, c) PROVE Goal
  <2>1. PICK k \in PoolKeys : /\ idle' = idle /\ hand' = [hand EXCEPT ![t] = <<k, c>>]
                              /\ server' = [server EXCEPT ![c] = using[t]]
    BY <1>3, ConnectDoes, Zenon
  <2>2. <<k, c>> \in PoolKeys \X Conns
    OBVIOUS
  <2>3. hand' \in [Threads -> {None} \union (PoolKeys \X Conns)]
    BY <1>0, <2>1, <2>2
  <2>4. server' \in [Conns -> 0 .. MaxVersions]
    BY <1>0, <2>1
  <2>. QED
    BY <1>0, <2>1, <2>3, <2>4
<1>4. ASSUME NEW t \in Threads, GiveBack(t) PROVE Goal
  <2>1. PICK k \in PoolKeys, c \in Conns :
          /\ hand[t] = <<k, c>>
          /\ hand' = [hand EXCEPT ![t] = None]
          /\ \/ idle' = [idle EXCEPT ![k] = @ \union {c}] /\ server' = server
             \/ idle' = idle /\ server' = [server EXCEPT ![c] = NoVersion]
    BY <1>4, GiveBackDoes, Zenon
  <2>2. hand' \in [Threads -> {None} \union (PoolKeys \X Conns)]
    BY <1>0, <2>1
  <2>3. idle' \in [PoolKeys -> SUBSET Conns]
    BY <1>0, <2>1
  <2>4. server' \in [Conns -> 0 .. MaxVersions]
    BY <1>0, <2>1
  <2>. QED
    BY <2>2, <2>3, <2>4
<1>5. CASE UNCHANGED <<idle, hand, server>>
  BY <1>0, <1>5
<1>. QED
  BY <1>1, <1>2, <1>3, <1>4, <1>5, PoolStays

(* What a step does to where values come from.                             *)
LEMMA OriginsTyped ==
  ASSUME Typed, [Next]_vars
  PROVE  /\ using' \in [Threads -> 0 .. MaxVersions]
         /\ got' \in [Threads -> Origins]
         /\ stored' \in [Sources -> Origins]
<1>0. /\ using \in [Threads -> 0 .. MaxVersions]
      /\ got \in [Threads -> Origins]
      /\ stored \in [Sources -> Origins]
      /\ server \in [Conns -> 0 .. MaxVersions]
      /\ NoVersion \in 0 .. MaxVersions /\ Nothing \in Origins
      /\ \A t \in Threads : call[t].key \in Sources
      /\ \A s \in Sources : CurrentOf(s) \subseteq 0 .. MaxVersions
  <2>1. \A t \in Threads : call[t].key \in Sources
    BY CallType
  <2>2. \A s \in Sources : CurrentOf(s) \subseteq 0 .. MaxVersions
    BY VersionType DEF CurrentOf
  <2>3. NoVersion \in 0 .. MaxVersions
    BY ServiceAssumption DEF NoVersion
  <2>4. Nothing \in Origins
    BY <2>3 DEF Nothing, Origins
  <2>. QED
    BY <2>1, <2>2, <2>3, <2>4 DEF Typed, TypeOK
<1>. DEFINE Goal == /\ using' \in [Threads -> 0 .. MaxVersions]
                    /\ got' \in [Threads -> Origins]
                    /\ stored' \in [Sources -> Origins]
<1>1. ASSUME NEW t \in Threads, NEW s \in Sources, Ask(t, s) PROVE Goal
  BY <1>0, <1>1 DEF Ask
<1>2. ASSUME NEW t \in Threads, LookUp(t) PROVE Goal
  BY <1>0, <1>2 DEF LookUp
<1>3. ASSUME NEW t \in Threads, LoadFails(t) \/ Reply(t) PROVE Goal
  BY <1>0, <1>3 DEF LoadFails, Reply
<1>4. ASSUME NEW t \in Threads, Query(t) PROVE Goal
  <2>1. server[hand[t][2]] \in 0 .. MaxVersions
    BY <1>0, <1>4, HandType DEF Query
  <2>2. [def |-> using[t], server |-> server[hand[t][2]]] \in Origins
    BY <1>0, <2>1 DEF Origins
  <2>. QED
    BY <1>0, <1>4, <2>2 DEF Query
<1>5. ASSUME NEW t \in Threads, Store(t) PROVE Goal
  BY <1>0, <1>5 DEF Store
<1>6. CASE UNCHANGED <<using, got, stored>>
  BY <1>0, <1>6
<1>. QED
  BY <1>1, <1>2, <1>3, <1>4, <1>5, <1>6
     DEF Next, Step, vars, NotFound, Seek, Reuse, Discard, Connect, GiveBack, Tick, Save, Delete

(* The typing is kept; that a loading request has a pool needs Own.        *)
LEMMA TypedStep == Typed /\ Own /\ [Next]_vars => Typed'
<1> SUFFICES ASSUME Typed, Own, [Next]_vars PROVE Typed'
  OBVIOUS
<1>1. Cache!TypeOK'
  <2>1. Cache!TypeOK
    BY DEF Typed, TypeOK
  <2>2. clock' \in Cache!Times
    <3>1. clock \in 0 .. MaxClock /\ MaxClock \in Nat
      BY <2>1, ServiceAssumption DEF Cache!TypeOK, Cache!Times
    <3>2. clock' = clock \/ (clock' = clock + 1 /\ clock < MaxClock)
      BY CacheStays
    <3>. QED
      BY <3>1, <3>2 DEF Cache!Times
  <2>3. store' \in [Sources -> Cache!Entries]
    BY <2>1, CacheStays, StoreDoes DEF Cache!TypeOK
  <2>. QED
    BY <2>1, <2>2, <2>3, CacheStays, CallsTyped DEF Cache!TypeOK
<1>2. MemoryOnly'
  BY CacheStays, CallsTyped DEF MemoryOnly
<1>. QED
  BY <1>1, <1>2, DefsGrow, PoolTyped, OriginsTyped DEF Typed, TypeOK, Version

-----------------------------------------------------------------------------
(* A connection is idle in one pool or in one hand, and stays so.          *)
LEMMA ExclusiveStep == Typed /\ Own /\ Exclusive /\ [Next]_vars => Exclusive'
<1> SUFFICES ASSUME Typed, Own, Exclusive, [Next]_vars PROVE Exclusive'
  OBVIOUS
<1>0. /\ idle \in [PoolKeys -> SUBSET Conns]
      /\ hand \in [Threads -> {None} \union (PoolKeys \X Conns)]
      /\ None \notin PoolKeys \X Conns
  BY ServiceAssumption DEF Typed, TypeOK, PoolKeys
<1>1. ASSUME NEW t \in Threads, NEW c \in Conns, Reuse(t, c) PROVE Exclusive'
  <2>1. PICK k \in PoolKeys : /\ c \in idle[k]
                              /\ idle' = [idle EXCEPT ![k] = @ \ {c}]
                              /\ hand' = [hand EXCEPT ![t] = <<k, c>>]
    BY <1>1, ReuseDoes, Zenon
  <2>2. /\ hand'[t] = <<k, c>> /\ \A u \in Threads \ {t} : hand'[u] = hand[u]
        /\ \A l \in PoolKeys : idle'[l] = IF l = k THEN idle[l] \ {c} ELSE idle[l]
    BY <1>0, <2>1
  <2>. QED
    BY <2>1, <2>2 DEF Exclusive
<1>2. ASSUME NEW t \in Threads, NEW c \in Conns, Discard(t, c) PROVE Exclusive'
  <2>1. PICK k \in PoolKeys : /\ idle' = [idle EXCEPT ![k] = @ \ {c}] /\ hand' = hand
    BY <1>2, DiscardDoes, Zenon
  <2>2. \A l \in PoolKeys : idle'[l] \subseteq idle[l]
    BY <1>0, <2>1
  <2>. QED
    BY <2>1, <2>2 DEF Exclusive
<1>3. ASSUME NEW t \in Threads, NEW c \in Conns, Connect(t, c) PROVE Exclusive'
  <2>1. PICK k \in PoolKeys :
          /\ idle' = idle /\ hand' = [hand EXCEPT ![t] = <<k, c>>]
          /\ \A l \in PoolKeys : c \notin idle[l]
          /\ \A u \in Threads, l \in PoolKeys : hand[u] # <<l, c>>
    BY <1>3, ConnectDoes, Zenon
  <2>2. hand'[t] = <<k, c>> /\ \A u \in Threads \ {t} : hand'[u] = hand[u]
    BY <1>0, <2>1
  <2>. QED
    BY <2>1, <2>2 DEF Exclusive
<1>4. ASSUME NEW t \in Threads, GiveBack(t) PROVE Exclusive'
  <2>1. PICK k \in PoolKeys, c \in Conns :
          /\ hand[t] = <<k, c>>
          /\ hand' = [hand EXCEPT ![t] = None]
          /\ \/ idle' = [idle EXCEPT ![k] = @ \union {c}] /\ server' = server
             \/ idle' = idle /\ server' = [server EXCEPT ![c] = NoVersion]
    BY <1>4, GiveBackDoes, Zenon
  <2>2. /\ \A u \in Threads \ {t} : hand'[u] = hand[u]
        /\ \A l \in PoolKeys, d \in Conns : hand'[t] # <<l, d>>
    BY <1>0, <2>1
  <2>3. \A l \in PoolKeys : \A d \in Conns :
          d \in idle'[l] => d \in idle[l] \/ (l = k /\ d = c)
    BY <1>0, <2>1
  <2>. QED
    BY <2>1, <2>2, <2>3 DEF Exclusive
<1>5. CASE UNCHANGED <<idle, hand, server>>
  BY <1>5 DEF Exclusive
<1>. QED
  BY <1>1, <1>2, <1>3, <1>4, <1>5, PoolStays

-----------------------------------------------------------------------------
(* Where things come from, step by step.                                   *)

(* A version keeps its source and its type.                                *)
LEMMA OriginStays ==
  ASSUME Typed, [Next]_vars
  PROVE  /\ \A v : \A s : Of(v, s) => Of(v, s)'
         /\ \A o : \A s : Valid(o, s) => Valid(o, s)'
         /\ \A v \in Versions : v \in Versions' /\ PoolKey(v)' = PoolKey(v)
BY DefsGrow DEF Of, Valid, Ends, PoolKey

(* The request of thread u stays as it is.                                 *)
Same(u) ==
  /\ call'[u] = call[u] /\ using'[u] = using[u]
  /\ got'[u] = got[u] /\ hand'[u] = hand[u]

(* A step of one thread changes nothing of another's request.              *)
LEMMA OthersStay ==
  ASSUME Typed, NEW t \in Threads, Step(t), NEW u \in Threads \ {t}
  PROVE  Same(u)
<1>0. /\ call \in [Threads -> Cache!Calls]
      /\ hand \in [Threads -> {None} \union (PoolKeys \X Conns)]
      /\ using \in [Threads -> 0 .. MaxVersions] /\ got \in [Threads -> Origins]
  BY DEF Typed, TypeOK, Cache!TypeOK
<1>1. ASSUME NEW s \in Sources, NotFound(t, s) PROVE Same(u)
  BY <1>1 DEF NotFound, Same, vars, cacheVars, poolVars
<1>2. ASSUME NEW s \in Sources, Ask(t, s) PROVE Same(u)
  BY <1>0, <1>2 DEF Ask, Cache!Begin, Same, poolVars
<1>3. CASE Seek(t)
  BY <1>0, <1>3 DEF Seek, Cache!CheckClient, Cache!ReadClock, Cache!GoTo, Same, poolVars
<1>4. CASE LookUp(t)
  BY <1>0, <1>4 DEF LookUp, Cache!LookUp, Cache!Found, Cache!GoTo, Same, poolVars
<1>5. ASSUME NEW c \in Conns, Reuse(t, c) PROVE Same(u)
  BY <1>0, <1>5 DEF Reuse, Pool!Take, Pool!Hold, Same, cacheVars
<1>6. ASSUME NEW c \in Conns, Discard(t, c) PROVE Same(u)
  BY <1>0, <1>6 DEF Discard, Pool!Discard, Same, cacheVars
<1>7. ASSUME NEW c \in Conns, Connect(t, c) PROVE Same(u)
  BY <1>0, <1>7 DEF Connect, Pool!Open, Pool!Hold, Same, cacheVars
<1>8. CASE LoadFails(t)
  BY <1>0, <1>8 DEF LoadFails, Cache!LoadFails, Cache!Raise, Same, poolVars
<1>9. CASE Query(t)
  BY <1>0, <1>9 DEF Query, Cache!Load, Cache!LoadFails, Same, poolVars
<1>10. CASE GiveBack(t)
  BY <1>0, <1>10 DEF GiveBack, Pool!Give, Pool!Drop, Same, cacheVars
<1>11. CASE Store(t)
  BY <1>0, <1>11 DEF Store, Cache!Store, Cache!GoTo, Same, poolVars
<1>12. CASE Reply(t)
  BY <1>0, <1>12 DEF Reply, Cache!Return, Same, poolVars
<1>. QED
  BY <1>1, <1>2, <1>3, <1>4, <1>5, <1>6, <1>7, <1>8, <1>9, <1>10, <1>11, <1>12 DEF Step

(* The other steps change no request.                                      *)
LEMMA AllStay ==
  ASSUME [Next]_vars, NEW u \in Threads
  PROVE  (\E t \in Threads : Step(t)) \/ Same(u)
BY DEF Next, vars, cacheVars, poolVars, Delete, Save, Tick, Cache!Tick, Same

(* A request that stays as it is has its own data still.                   *)
LEMMA SameOwn ==
  ASSUME Typed, Own, [Next]_vars, NEW u \in Threads, Same(u)
  PROVE  RequestOwn(u)'
<1>1. PICK v, r, g : v = using[u] /\ r = call[u] /\ g = got[u]
  OBVIOUS
<1>2. RequestOwn(u)
  BY DEF Own
<1>3. using'[u] = v /\ call'[u] = r /\ got'[u] = g /\ hand'[u] = hand[u]
  BY <1>1 DEF Same
<1>. QED
  BY <1>1, <1>2, <1>3, OriginStays DEF RequestOwn, Asking

(* What a step makes of the request of its own thread.                     *)
LEMMA OwnRequest ==
  ASSUME Typed, Own, [Next]_vars, NEW t \in Threads, Step(t)
  PROVE  RequestOwn(t)'
<1>. DEFINE s0 == call[t].key
<1>0. /\ call \in [Threads -> Cache!Calls]
      /\ hand \in [Threads -> {None} \union (PoolKeys \X Conns)]
      /\ using \in [Threads -> 0 .. MaxVersions] /\ got \in [Threads -> Origins]
  BY DEF Typed, TypeOK, Cache!TypeOK
<1>a. RequestOwn(t)
  BY DEF Own
<1>b. \A v : \A s : Of(v, s) => Of(v, s)'
  BY OriginStays
<1>c. \A o : \A s : Valid(o, s) => Valid(o, s)'
  BY OriginStays
<1>1. ASSUME NEW s \in Sources, NotFound(t, s) PROVE RequestOwn(t)'
  BY <1>1, SameOwn DEF NotFound, Same, vars, cacheVars, poolVars
<1>2. ASSUME NEW s \in Sources, Ask(t, s) PROVE RequestOwn(t)'
  <2>1. /\ hand[t] = None /\ hand' = hand
        /\ \E v \in CurrentOf(s) : using' = [using EXCEPT ![t] = v]
    BY <1>2 DEF Ask, poolVars
  <2>2. PICK v \in CurrentOf(s) : using'[t] = v
    BY <1>0, <2>1
  <2>3. Of(v, s)'
    BY <1>b DEF Of, CurrentOf
  <2>4. call'[t].pc = "check" /\ call'[t].key = s
    BY <1>0, <1>2, AskDoes
  <2>. QED
    BY <2>1, <2>2, <2>3, <2>4 DEF RequestOwn
<1>3. CASE Seek(t)
  <2>1. /\ hand' = hand /\ using' = using
        /\ call'[t].key = call[t].key /\ call[t].pc \in {"check", "clock"}
        /\ call'[t].pc \in {"clock", "lookup"}
    BY <1>0, <1>3, SeekDoes DEF Seek, poolVars
  <2>2. hand[t] = None /\ Of(using[t], call[t].key)
    BY <1>a, <2>1 DEF RequestOwn, Asking
  <2>. QED
    BY <1>b, <2>1, <2>2 DEF RequestOwn
<1>4. CASE LookUp(t)
  <2>1. /\ hand' = hand /\ using' = using /\ got'[t] = stored[call[t].key]
        /\ call'[t].key = call[t].key /\ call[t].pc = "lookup"
        /\ \/ call'[t].pc = "done" /\ store[call[t].key].expiry > call[t].now
           \/ call'[t].pc = "load"
    BY <1>4, LookedUp
  <2>2. Of(using[t], call[t].key)
    BY <1>a, <2>1 DEF RequestOwn, Asking
  <2>3. ASSUME call'[t].pc = "done" PROVE Valid(stored[call[t].key], call[t].key)
    <3>1. store[call[t].key].expiry > call[t].now
      BY <2>1, <2>3
    <3>2. /\ call[t].now \in Nat /\ call[t].key \in Sources
          /\ store[call[t].key].expiry \in Nat
      BY CallType, ExpiryType
    <3>. QED
      BY <3>1, <3>2 DEF Own, StoreOwn
  <2>. QED
    BY <1>b, <1>c, <2>1, <2>2, <2>3 DEF RequestOwn
<1>5. ASSUME NEW c \in Conns, Reuse(t, c) \/ Discard(t, c) \/ Connect(t, c)
      PROVE  RequestOwn(t)'
  <2>1. call' = call /\ using' = using /\ call[t].pc = "load"
    BY <1>5 DEF Reuse, Discard, Connect, cacheVars, Loading, Cache!At
  <2>2. Of(using[t], call[t].key)
    BY <1>a, <2>1 DEF RequestOwn, Asking
  <2>. QED
    BY <1>b, <2>1, <2>2 DEF RequestOwn
<1>6. CASE LoadFails(t) \/ Reply(t)
  <2>1. call'[t].pc = "idle"
    BY <1>0, <1>6, EndDoes, NoCallType
  <2>. QED
    BY <2>1 DEF RequestOwn, Asking
<1>7. CASE Query(t)
  <2>1. /\ hand[t] # None /\ using' = using
        /\ got'[t] = [def |-> using[t], server |-> server[hand[t][2]]]
        /\ call'[t].key = call[t].key /\ call[t].pc = "load" /\ call'[t].pc = "store"
    BY <1>0, <1>7, QueryDoes DEF Query, poolVars
  <2>2. PICK k \in PoolKeys, c \in Conns : hand[t] = <<k, c>> /\ hand[t][2] = c
    BY <2>1, HandType
  <2>3. Serves(c, k) /\ k = PoolKey(using[t])
    BY <2>1, <2>2 DEF Own, HandServe, Loading, Cache!At
  <2>4. Of(using[t], call[t].key)
    BY <1>a, <2>1 DEF RequestOwn, Asking
  <2>5. Valid(got'[t], call[t].key)
    BY <2>1, <2>2, <2>3, <2>4 DEF Valid, Serves, PoolKey, Of
  <2>. QED
    BY <1>b, <1>c, <2>1, <2>4, <2>5 DEF RequestOwn
<1>8. CASE GiveBack(t)
  <2>1. /\ call' = call /\ using' = using /\ got' = got /\ hand'[t] = None
    BY <1>0, <1>8, GiveBackDoes DEF GiveBack, cacheVars
  <2>. QED
    BY <1>a, <1>b, <1>c, <2>1 DEF RequestOwn, Asking
<1>9. CASE Store(t)
  <2>1. /\ using' = using /\ got' = got
        /\ call'[t].key = call[t].key /\ call[t].pc = "store" /\ call'[t].pc = "done"
    BY <1>0, <1>9, StoreDoes DEF Store, poolVars
  <2>. QED
    BY <1>a, <1>b, <1>c, <2>1 DEF RequestOwn, Asking
<1>. QED
  BY <1>1, <1>2, <1>3, <1>4, <1>5, <1>6, <1>7, <1>8, <1>9 DEF Step

(* The entries.                                                            *)
LEMMA StoreOwnStep ==
  ASSUME Typed, Own, [Next]_vars
  PROVE  StoreOwn'
<1>1. ASSUME NEW t \in Threads, Store(t) PROVE StoreOwn'
  <2>1. /\ call[t].pc = "store" /\ call[t].key \in Sources
        /\ stored' = [stored EXCEPT ![call[t].key] = got[t]]
        /\ \A s \in Sources \ {call[t].key} : store'[s] = store[s]
    BY <1>1, StoreDoes, CallType DEF Store
  <2>2. Valid(got[t], call[t].key)
    BY <2>1 DEF Own, RequestOwn
  <2>3. /\ stored'[call[t].key] = got[t]
        /\ \A s \in Sources \ {call[t].key} : stored'[s] = stored[s]
    BY <2>1 DEF Typed, TypeOK
  <2>. QED
    BY <2>1, <2>2, <2>3, OriginStays DEF Own, StoreOwn
<1>2. CASE store' = store /\ stored' = stored
  BY <1>2, OriginStays DEF Own, StoreOwn
<1>3. (\E t \in Threads : Store(t)) \/ (store' = store /\ stored' = stored)
  BY CacheStays DEF Next, Step, vars, NotFound, Ask, Seek, LookUp, Reuse, Discard, Connect,
     LoadFails, Query, GiveBack, Reply, Tick, Save, Delete
<1>. QED
  BY <1>1, <1>2, <1>3

(* The connections in the pool.                                            *)
LEMMA IdleServeStep ==
  ASSUME Typed, Own, Exclusive, [Next]_vars
  PROVE  IdleServe'
<1>0. /\ idle \in [PoolKeys -> SUBSET Conns]
      /\ server \in [Conns -> 0 .. MaxVersions]
  BY DEF Typed, TypeOK
<1>a. \A v \in Versions : v \in Versions' /\ PoolKey(v)' = PoolKey(v)
  BY OriginStays
<1>b. ASSUME NEW k \in PoolKeys, NEW c \in Conns, Serves(c, k), server'[c] = server[c]
      PROVE  Serves(c, k)'
  BY <1>a, <1>b DEF Serves
<1>1. ASSUME NEW t \in Threads, NEW c \in Conns, Reuse(t, c) PROVE IdleServe'
  <2>1. server' = server
    BY <1>1 DEF Reuse
  <2>2. \A l \in PoolKeys : idle'[l] \subseteq idle[l]
    BY <1>0, <1>1, ReuseDoes
  <2>. QED
    BY <1>b, <2>1, <2>2 DEF Own, IdleServe
<1>2. ASSUME NEW t \in Threads, NEW c \in Conns, Discard(t, c) PROVE IdleServe'
  <2>1. PICK k \in PoolKeys : /\ c \in idle[k] /\ idle' = [idle EXCEPT ![k] = @ \ {c}]
                              /\ server' = [server EXCEPT ![c] = NoVersion]
    BY <1>2, DiscardDoes, Zenon
  <2>2. \A l \in PoolKeys : idle'[l] \subseteq idle[l] /\ c \notin idle'[l]
    BY <1>0, <2>1 DEF Exclusive
  <2>3. \A d \in Conns \ {c} : server'[d] = server[d]
    BY <1>0, <2>1
  <2>. QED
    BY <1>b, <2>2, <2>3 DEF Own, IdleServe
<1>3. ASSUME NEW t \in Threads, NEW c \in Conns, Connect(t, c) PROVE IdleServe'
  <2>1. /\ idle' = idle /\ \A l \in PoolKeys : c \notin idle[l]
        /\ server' = [server EXCEPT ![c] = using[t]]
    BY <1>3, ConnectDoes
  <2>2. \A d \in Conns \ {c} : server'[d] = server[d]
    BY <1>0, <2>1
  <2>. QED
    BY <1>b, <2>1, <2>2 DEF Own, IdleServe
<1>4. ASSUME NEW t \in Threads, GiveBack(t) PROVE IdleServe'
  <2>1. PICK k \in PoolKeys, c \in Conns :
          /\ hand[t] = <<k, c>>
          /\ \/ idle' = [idle EXCEPT ![k] = @ \union {c}] /\ server' = server
             \/ idle' = idle /\ server' = [server EXCEPT ![c] = NoVersion]
    BY <1>4, GiveBackDoes, Zenon
  <2>2. Serves(c, k) /\ \A l \in PoolKeys : c \notin idle[l]
    BY <2>1 DEF Own, HandServe, Exclusive
  <2>3. CASE idle' = [idle EXCEPT ![k] = @ \union {c}] /\ server' = server
    <3>1. \A l \in PoolKeys, d \in Conns :
            d \in idle'[l] => d \in idle[l] \/ (l = k /\ d = c)
      BY <1>0, <2>3
    <3>. QED
      BY <1>b, <2>2, <2>3, <3>1 DEF Own, IdleServe
  <2>4. CASE idle' = idle /\ server' = [server EXCEPT ![c] = NoVersion]
    <3>1. \A d \in Conns \ {c} : server'[d] = server[d]
      BY <1>0, <2>4
    <3>. QED
      BY <1>b, <2>2, <2>4, <3>1 DEF Own, IdleServe
  <2>. QED
    BY <2>1, <2>3, <2>4
<1>5. CASE UNCHANGED <<idle, hand, server>>
  BY <1>b, <1>5 DEF Own, IdleServe
<1>. QED
  BY <1>1, <1>2, <1>3, <1>4, <1>5, PoolStays

(* What is in hand keeps its server, ...                                   *)
LEMMA HandKeepsServer ==
  ASSUME Typed, Own, Exclusive, [Next]_vars,
         NEW u \in Threads, NEW l \in PoolKeys, NEW d \in Conns,
         hand[u] = <<l, d>>, hand'[u] = hand[u]
  PROVE  server'[d] = server[d]
<1>0. /\ hand \in [Threads -> {None} \union (PoolKeys \X Conns)]
      /\ server \in [Conns -> 0 .. MaxVersions] /\ <<l, d>> # None
  BY ServiceAssumption DEF Typed, TypeOK, PoolKeys
<1>1. ASSUME NEW t \in Threads, NEW c \in Conns, Reuse(t, c) PROVE server'[d] = server[d]
  BY <1>1 DEF Reuse
<1>2. ASSUME NEW t \in Threads, NEW c \in Conns, Discard(t, c) PROVE server'[d] = server[d]
  <2>1. PICK k \in PoolKeys : c \in idle[k] /\ server' = [server EXCEPT ![c] = NoVersion]
    BY <1>2, DiscardDoes, Zenon
  <2>2. c # d
    BY <2>1 DEF Exclusive
  <2>. QED
    BY <1>0, <2>1, <2>2
<1>3. ASSUME NEW t \in Threads, NEW c \in Conns, Connect(t, c) PROVE server'[d] = server[d]
  <2>1. c # d /\ server' = [server EXCEPT ![c] = using[t]]
    BY <1>3, ConnectDoes
  <2>. QED
    BY <1>0, <2>1
<1>4. ASSUME NEW t \in Threads, GiveBack(t) PROVE server'[d] = server[d]
  <2>1. PICK k \in PoolKeys, c \in Conns :
          /\ hand[t] = <<k, c>>
          /\ hand' = [hand EXCEPT ![t] = None]
          /\ \/ idle' = [idle EXCEPT ![k] = @ \union {c}] /\ server' = server
             \/ idle' = idle /\ server' = [server EXCEPT ![c] = NoVersion]
    BY <1>4, GiveBackDoes, Zenon
  <2>2. t # u
    BY <1>0, <2>1
  <2>3. c # d
    BY <2>1, <2>2 DEF Exclusive
  <2>. QED
    BY <1>0, <2>1, <2>3
<1>. QED
  BY <1>1, <1>2, <1>3, <1>4, PoolStays

(* ... was taken while the request was loading already, ...                *)
LEMMA HandKeepsRequest ==
  ASSUME Typed, Own, [Next]_vars, NEW u \in Threads,
         hand[u] # None, hand'[u] = hand[u], Loading(u)'
  PROVE  Loading(u) /\ using'[u] = using[u]
<1>0. /\ call \in [Threads -> Cache!Calls]
      /\ call'[u].pc = "load"
  BY DEF Typed, TypeOK, Cache!TypeOK, Loading, Cache!At
<1>1. CASE Same(u)
  BY <1>1 DEF Same, Loading, Cache!At
<1>2. CASE Step(u)
  <2>1. ASSUME NEW s \in Sources, Ask(u, s) PROVE FALSE
    BY <1>0, <2>1, AskDoes
  <2>2. CASE Seek(u)
    BY <1>0, <2>2, SeekDoes
  <2>3. CASE LookUp(u)
    BY <2>3, LookUpDoes DEF Own, RequestOwn
  <2>4. CASE LoadFails(u) \/ Reply(u)
    BY <1>0, <2>4, EndDoes, NoCallType
  <2>5. CASE Query(u)
    BY <1>0, <2>5, QueryDoes
  <2>6. CASE Store(u)
    BY <1>0, <2>6, StoreDoes
  <2>7. CASE call' = call /\ using' = using
    BY <2>7 DEF Loading, Cache!At
  <2>. QED
    BY <1>2, <2>1, <2>2, <2>3, <2>4, <2>5, <2>6, <2>7
       DEF Step, NotFound, Reuse, Discard, Connect, GiveBack, vars, cacheVars
<1>. QED
  BY <1>1, <1>2, AllStay, OthersStay

(* ... and came there with the server that it stands for.                  *)
LEMMA HandGets ==
  ASSUME Typed, Own, [Next]_vars,
         NEW u \in Threads, NEW l \in PoolKeys, NEW d \in Conns,
         hand'[u] = <<l, d>>, hand'[u] # hand[u]
  PROVE  /\ server'[d] \in Versions /\ PoolKey(server'[d]) = l
         /\ l = PoolKey(using[u]) /\ using'[u] = using[u] /\ using[u] \in Versions
<1>0. /\ hand \in [Threads -> {None} \union (PoolKeys \X Conns)]
      /\ server \in [Conns -> 0 .. MaxVersions] /\ <<l, d>> # None
  BY ServiceAssumption DEF Typed, TypeOK, PoolKeys
<1>. DEFINE Goal ==
       /\ server'[d] \in Versions /\ PoolKey(server'[d]) = l
       /\ l = PoolKey(using[u]) /\ using'[u] = using[u] /\ using[u] \in Versions
<1>1. ASSUME NEW t \in Threads, NEW c \in Conns, Reuse(t, c) PROVE Goal
  <2>1. PICK k \in PoolKeys : /\ k = PoolKey(using[t]) /\ c \in idle[k]
                              /\ hand' = [hand EXCEPT ![t] = <<k, c>>]
    BY <1>1, ReuseDoes, Zenon
  <2>2. t = u /\ k = l /\ c = d
    BY <1>0, <2>1
  <2>3. server' = server /\ using' = using /\ using[u] \in Versions
    BY <1>1, <2>2, LoadingKey DEF Reuse
  <2>. QED
    BY <2>1, <2>2, <2>3 DEF Own, IdleServe, Serves
<1>2. ASSUME NEW t \in Threads, NEW c \in Conns, Connect(t, c) PROVE Goal
  <2>1. PICK k \in PoolKeys : /\ k = PoolKey(using[t])
                              /\ hand' = [hand EXCEPT ![t] = <<k, c>>]
                              /\ server' = [server EXCEPT ![c] = using[t]]
    BY <1>2, ConnectDoes, Zenon
  <2>2. t = u /\ k = l /\ c = d
    BY <1>0, <2>1
  <2>3. using' = using /\ using[u] \in Versions
    BY <1>2, <2>2, LoadingKey DEF Connect
  <2>. QED
    BY <1>0, <2>1, <2>2, <2>3
<1>3. ASSUME NEW t \in Threads, NEW c \in Conns, Discard(t, c) PROVE FALSE
  BY <1>3, DiscardDoes
<1>4. ASSUME NEW t \in Threads, GiveBack(t) PROVE FALSE
  <2>1. hand' = [hand EXCEPT ![t] = None]
    BY <1>4, GiveBackDoes
  <2>. QED
    BY <1>0, <2>1
<1>. QED
  BY <1>1, <1>2, <1>3, <1>4, PoolStays

(* The connections in hand.                                                *)
LEMMA HandServeStep ==
  ASSUME Typed, Own, Exclusive, [Next]_vars
  PROVE  HandServe'
<1> SUFFICES ASSUME NEW u \in Threads, NEW l \in PoolKeys, NEW d \in Conns,
                    hand'[u] = <<l, d>>
             PROVE  Serves(d, l)' /\ (Loading(u)' => l = PoolKey(using[u])')
  BY DEF HandServe
<1>0. <<l, d>> # None /\ \A v \in Versions : v \in Versions' /\ PoolKey(v)' = PoolKey(v)
  BY OriginStays, ServiceAssumption DEF PoolKeys
<1>1. PICK v, w : v = server'[d] /\ w = using'[u]
  OBVIOUS
<1>2. v \in Versions /\ PoolKey(v) = l
  <2>1. CASE hand'[u] = hand[u]
    <3>1. server'[d] = server[d]
      BY <2>1, HandKeepsServer
    <3>2. Serves(d, l)
      BY <2>1 DEF Own, HandServe
    <3>. QED
      BY <1>1, <3>1, <3>2 DEF Serves
  <2>2. CASE hand'[u] # hand[u]
    BY <1>1, <2>2, HandGets
  <2>. QED
    BY <2>1, <2>2
<1>3. ASSUME Loading(u)' PROVE w \in Versions /\ l = PoolKey(w)
  <2>1. CASE hand'[u] = hand[u]
    <3>1. Loading(u) /\ using'[u] = using[u]
      BY <1>0, <1>3, <2>1, HandKeepsRequest
    <3>2. l = PoolKey(using[u]) /\ using[u] \in Versions
      BY <2>1, <3>1, LoadingKey DEF Own, HandServe
    <3>. QED
      BY <1>1, <3>1, <3>2
  <2>2. CASE hand'[u] # hand[u]
    BY <1>1, <2>2, HandGets
  <2>. QED
    BY <2>1, <2>2
<1>4. Serves(d, l)'
  BY <1>0, <1>1, <1>2 DEF Serves
<1>. QED
  BY <1>0, <1>1, <1>3, <1>4

(* Where things come from is kept, given that no connection is shared.     *)
LEMMA OwnStep == Typed /\ Own /\ Exclusive /\ [Next]_vars => Own'
<1> SUFFICES ASSUME Typed, Own, Exclusive, [Next]_vars PROVE Own'
  OBVIOUS
<1>1. ASSUME NEW u \in Threads PROVE RequestOwn(u)'
  BY <1>1, AllStay, OthersStay, OwnRequest, SameOwn
<1>. QED
  BY <1>1, StoreOwnStep, IdleServeStep, HandServeStep DEF Own

(* It holds at first, of nothing.                                          *)
LEMMA InitOwn == Init => Exclusive /\ Own
<1> SUFFICES ASSUME Init PROVE Exclusive /\ Own
  OBVIOUS
<1>1. /\ \A k \in PoolKeys : idle[k] = {}
      /\ \A t \in Threads : hand[t] = None /\ call[t].pc = "idle"
      /\ \A s \in Sources : store[s].expiry = 0
  BY NoCallType DEF Init, Pool!Init, Cache!Init, Cache!NoEntry, Cache!NoCall
<1>2. None \notin PoolKeys \X Conns
  BY ServiceAssumption DEF PoolKeys
<1>3. Exclusive /\ IdleServe /\ HandServe
  BY <1>1, <1>2 DEF Exclusive, IdleServe, HandServe
<1>4. \A t \in Threads : RequestOwn(t)
  BY <1>1 DEF RequestOwn, Asking
<1>5. StoreOwn
  BY <1>1 DEF StoreOwn
<1>. QED
  BY <1>3, <1>4, <1>5 DEF Own

-----------------------------------------------------------------------------
(* How old the definitions are that requests and entries were read with.   *)

(* A request read its definition while that was current; it reads the      *)
(* clock within MaxDelay; and what answers it was read with a definition   *)
(* that ended, if it did, less than TTL before.                            *)
RequestTimely(t) ==
  /\ Asking(t) => call[t].asked =< clock /\ call[t].asked =< defs[using[t]].until
  /\ call[t].pc \in {"check", "clock"} => clock =< call[t].asked + MaxDelay
  /\ call[t].pc \in {"lookup", "load", "store"} =>
       /\ call[t].asked =< call[t].now /\ call[t].now =< clock
       /\ call[t].now =< call[t].asked + MaxDelay
  /\ call[t].pc = "store" => got[t].def = using[t]
  /\ call[t].pc = "done" => StillCurrent(got[t].def, call[t].asked)

(* An entry lives no longer than TTL after the end of its definition, but  *)
(* for the time between reading the definition and reading the clock.      *)
StoreTimely ==
  \A s \in Sources :
    /\ store[s].expiry =< clock + TTL
    /\ store[s].expiry > 0 =>
         store[s].expiry =< defs[stored[s].def].until + TTL + MaxDelay

Timely == (\A t \in Threads : RequestTimely(t)) /\ StoreTimely

(* The clock stands still or ticks.                                        *)
LEMMA ClockMoves ==
  ASSUME Typed, [Next]_vars
  PROVE  clock \in Nat /\ (clock' = clock \/ (clock' = clock + 1 /\ Tick))
<1>1. clock \in Nat
  BY VersionType
<1>2. clock' = clock \/ (clock' = clock + 1 /\ Tick)
  BY CacheStays
<1>. QED
  BY <1>1, <1>2

(* A version's until moves only to now, and the clock only forwards.       *)
LEMMA UntilStays ==
  ASSUME Typed, [Next]_vars
  PROVE  /\ \A v \in Versions :
              /\ v \in Versions' /\ defs[v].until \in Nat /\ defs'[v].until \in Nat
              /\ defs'[v].until = defs[v].until \/ defs'[v].until = clock
         /\ clock \in Nat /\ clock' \in Nat /\ clock =< clock'
<1>1. clock \in Nat /\ (clock' = clock \/ clock' = clock + 1)
  BY ClockMoves
<1>2. \A v \in Versions :
        /\ v \in Versions' /\ defs[v].until \in Nat
        /\ defs'[v].until = defs[v].until \/ defs'[v].until = clock
  BY DefsGrow, VersionType DEF Ends, Version
<1>. QED
  BY <1>1, <1>2

(* The facts about the bounds that the steps below need.                   *)
LEMMA Bounds == TTL \in Nat /\ TTL > 0 /\ MaxDelay \in Nat
BY ServiceAssumption

(* Time passes only for requests that the bound allows it to pass for.     *)
LEMMA SameTimely ==
  ASSUME Typed, Own, Timely, [Next]_vars, NEW u \in Threads, Same(u)
  PROVE  RequestTimely(u)'
<1>1. PICK v, r, g : v = using[u] /\ r = call[u] /\ g = got[u]
  OBVIOUS
<1>2. using'[u] = v /\ call'[u] = r /\ got'[u] = g
  BY <1>1 DEF Same
<1>3. r.asked \in Nat /\ r.now \in Nat
  BY <1>1, CallType
<1>4. RequestTimely(u) /\ RequestOwn(u)
  BY DEF Timely, Own
<1>5. ASSUME r.pc # "idle"
      PROVE  r.asked =< clock' /\ r.asked =< defs'[v].until
  BY <1>1, <1>3, <1>4, <1>5, UntilStays DEF RequestTimely, RequestOwn, Asking, Of
<1>6. ASSUME r.pc \in {"check", "clock"} PROVE clock' =< r.asked + MaxDelay
  <2>1. clock =< r.asked + MaxDelay
    BY <1>1, <1>4, <1>6 DEF RequestTimely
  <2>2. Tick => clock < r.asked + MaxDelay
    BY <1>1, <1>6 DEF Tick, Cache!At
  <2>. QED
    BY <1>3, <2>1, <2>2, ClockMoves, Bounds
<1>7. ASSUME r.pc \in {"lookup", "load", "store"}
      PROVE  r.asked =< r.now /\ r.now =< clock' /\ r.now =< r.asked + MaxDelay
  BY <1>1, <1>3, <1>4, <1>7, UntilStays DEF RequestTimely
<1>8. r.pc = "store" => g.def = v
  BY <1>1, <1>4 DEF RequestTimely
<1>9. ASSUME r.pc = "done" PROVE defs'[g.def].until + TTL + MaxDelay > r.asked
  <2>1. g.def \in Versions
    BY <1>1, <1>4, <1>9 DEF RequestOwn, Valid, Of
  <2>2. defs[g.def].until + TTL + MaxDelay > r.asked /\ r.asked =< clock
    BY <1>1, <1>4, <1>9 DEF RequestTimely, StillCurrent, Asking
  <2>. QED
    BY <1>3, <2>1, <2>2, UntilStays, Bounds
<1>. QED
  BY <1>2, <1>5, <1>6, <1>7, <1>8, <1>9 DEF RequestTimely, Asking, StillCurrent

(* The thread of a step: time stands still, and definitions too.           *)
LEMMA StepsStandStill ==
  ASSUME NEW t \in Threads, Step(t)
  PROVE  clock' = clock /\ defs' = defs
BY DEF Step, NotFound, Ask, Seek, LookUp, Reuse, Discard, Connect, LoadFails, Query, GiveBack,
       Store, Reply, vars, cacheVars, Cache!Begin, Cache!CheckClient, Cache!ReadClock,
       Cache!LookUp, Cache!Load, Cache!Store, Cache!Return

(* What a step makes of the request of its own thread.                     *)
LEMMA OwnTimely ==
  ASSUME Typed, Own, Timely, [Next]_vars, NEW t \in Threads, Step(t)
  PROVE  RequestTimely(t)'
<1>0. /\ call \in [Threads -> Cache!Calls]
      /\ hand \in [Threads -> {None} \union (PoolKeys \X Conns)]
      /\ using \in [Threads -> 0 .. MaxVersions] /\ got \in [Threads -> Origins]
  BY DEF Typed, TypeOK, Cache!TypeOK
<1>a. RequestOwn(t) /\ RequestTimely(t)
  BY DEF Own, Timely
<1>b. clock' = clock /\ defs' = defs /\ clock \in Nat
  BY StepsStandStill, UntilStays
<1>c. call[t].asked \in Nat /\ call[t].now \in Nat
  BY CallType
<1>1. ASSUME NEW s \in Sources, NotFound(t, s) PROVE RequestTimely(t)'
  BY <1>1, SameTimely DEF NotFound, Same, vars, cacheVars, poolVars
<1>2. ASSUME NEW s \in Sources, Ask(t, s) PROVE RequestTimely(t)'
  <2>1. PICK v \in CurrentOf(s) : using'[t] = v
    BY <1>0, <1>2 DEF Ask
  <2>2. clock =< defs[v].until
    BY VersionType DEF CurrentOf
  <2>3. call'[t].pc = "check" /\ call'[t].asked = clock
    BY <1>0, <1>2, AskDoes
  <2>. QED
    BY <1>b, <2>1, <2>2, <2>3, Bounds DEF RequestTimely
<1>3. CASE Seek(t)
  <2>1. /\ using' = using /\ call'[t].asked = call[t].asked
        /\ \/ call[t].pc = "check" /\ call'[t].pc = "clock"
           \/ call[t].pc = "clock" /\ call'[t].pc = "lookup" /\ call'[t].now = clock
    BY <1>0, <1>3, SeekDoes DEF Seek
  <2>. QED
    BY <1>a, <1>b, <1>c, <2>1 DEF RequestTimely, Asking
<1>4. CASE LookUp(t)
  <2>1. /\ using' = using /\ got'[t] = stored[call[t].key]
        /\ call'[t].asked = call[t].asked /\ call'[t].now = call[t].now
        /\ call[t].pc = "lookup"
        /\ \/ call'[t].pc = "done" /\ store[call[t].key].expiry > call[t].now
           \/ call'[t].pc = "load"
    BY <1>4, LookedUp
  <2>2. ASSUME call'[t].pc = "done"
        PROVE  defs[stored[call[t].key].def].until + TTL + MaxDelay > call[t].asked
    <3>0. PICK s \in Sources : s = call[t].key
      BY CallType
    <3>1. PICK e, n, a :
            e = store[s].expiry /\ n = call[t].now /\ a = call[t].asked
      OBVIOUS
    <3>2. e > n /\ e \in Nat /\ n \in Nat /\ a \in Nat /\ a =< n
      BY <1>a, <1>c, <2>1, <2>2, <3>0, <3>1, ExpiryType DEF RequestTimely
    <3>3. e =< defs[stored[s].def].until + TTL + MaxDelay
      BY <3>1, <3>2 DEF Timely, StoreTimely
    <3>4. defs[stored[s].def].until \in Nat
      BY <3>1, <3>2, UntilStays DEF Own, StoreOwn, Valid, Of
    <3>. QED
      BY <3>0, <3>1, <3>2, <3>3, <3>4, Bounds
  <2>. QED
    BY <1>a, <1>b, <2>1, <2>2 DEF RequestTimely, Asking, StillCurrent
<1>5. ASSUME NEW c \in Conns, Reuse(t, c) \/ Discard(t, c) \/ Connect(t, c)
      PROVE  RequestTimely(t)'
  <2>1. call' = call /\ using' = using /\ got' = got
    BY <1>5 DEF Reuse, Discard, Connect, cacheVars
  <2>. QED
    BY <1>a, <1>b, <2>1 DEF RequestTimely, Asking, StillCurrent
<1>6. CASE LoadFails(t) \/ Reply(t)
  <2>1. call'[t].pc = "idle"
    BY <1>0, <1>6, EndDoes, NoCallType
  <2>. QED
    BY <2>1 DEF RequestTimely, Asking
<1>7. CASE Query(t)
  <2>1. /\ using' = using /\ got'[t].def = using[t]
        /\ call'[t].asked = call[t].asked /\ call'[t].now = call[t].now
        /\ call[t].pc = "load" /\ call'[t].pc = "store"
    BY <1>0, <1>7, QueryDoes DEF Query
  <2>. QED
    BY <1>a, <1>b, <2>1 DEF RequestTimely, Asking
<1>8. CASE GiveBack(t)
  <2>1. call' = call /\ using' = using /\ got' = got
    BY <1>8 DEF GiveBack, cacheVars
  <2>. QED
    BY <1>a, <1>b, <2>1 DEF RequestTimely, Asking, StillCurrent
<1>9. CASE Store(t)
  <2>1. /\ using' = using /\ got' = got /\ call'[t].asked = call[t].asked
        /\ call[t].pc = "store" /\ call'[t].pc = "done"
    BY <1>0, <1>9, StoreDoes DEF Store
  <2>2. /\ got[t].def = using[t] /\ call[t].asked =< defs[using[t]].until
        /\ call[t].asked =< clock
    BY <1>a, <2>1 DEF RequestTimely, Asking
  <2>3. defs[using[t]].until \in Nat
    BY <1>a, <2>1, UntilStays DEF RequestOwn, Asking, Of
  <2>. QED
    BY <1>b, <1>c, <2>1, <2>2, <2>3, Bounds DEF RequestTimely, StillCurrent
<1>. QED
  BY <1>1, <1>2, <1>3, <1>4, <1>5, <1>6, <1>7, <1>8, <1>9 DEF Step

(* An entry is stored for TTL from a time within MaxDelay of its definition,*)
(* or its definition ends now, when it has at most TTL left.               *)
LEMMA StoreTimelyStep ==
  ASSUME Typed, Own, Timely, [Next]_vars
  PROVE  StoreTimely'
<1>0. \A s \in Sources : store[s].expiry \in Nat
  BY ExpiryType
<1>1. ASSUME NEW s \in Sources, store'[s] = store[s], stored'[s] = stored[s]
      PROVE  /\ store'[s].expiry =< clock' + TTL
             /\ store'[s].expiry > 0 =>
                  store'[s].expiry =< defs'[stored'[s].def].until + TTL + MaxDelay
  <2>1. PICK e, v : e = store[s].expiry /\ v = stored[s].def
    OBVIOUS
  <2>2. /\ e \in Nat /\ e =< clock + TTL
        /\ e > 0 => v \in Versions /\ e =< defs[v].until + TTL + MaxDelay
    BY <1>0, <2>1 DEF Timely, StoreTimely, Own, StoreOwn, Valid, Of
  <2>3. e =< clock' + TTL /\ (e > 0 => e =< defs'[v].until + TTL + MaxDelay)
    BY <2>2, UntilStays, Bounds
  <2>. QED
    BY <1>1, <2>1, <2>3
<1>2. ASSUME NEW t \in Threads, Store(t) PROVE StoreTimely'
  <2>1. PICK k \in Sources : k = call[t].key
    BY CallType
  <2>2. /\ call[t].pc = "store" /\ store'[k].expiry = call[t].now + TTL
        /\ stored' = [stored EXCEPT ![k] = got[t]]
        /\ \A s \in Sources \ {k} : store'[s] = store[s]
    BY <1>2, <2>1, StoreDoes DEF Store
  <2>3. stored'[k] = got[t] /\ \A s \in Sources \ {k} : stored'[s] = stored[s]
    BY <2>2 DEF Typed, TypeOK
  <2>4. clock' = clock /\ defs' = defs
    BY <1>2, StepsStandStill DEF Step
  <2>5. /\ got[t].def = using[t] /\ call[t].asked =< defs[using[t]].until
        /\ call[t].now =< clock /\ call[t].now =< call[t].asked + MaxDelay
    BY <2>2 DEF Timely, RequestTimely, Asking
  <2>6. using[t] \in Versions
    BY <2>2 DEF Own, RequestOwn, Asking, Of
  <2>7. /\ call[t].now + TTL =< clock + TTL
        /\ call[t].now + TTL =< defs[using[t]].until + TTL + MaxDelay
    BY <2>5, <2>6, UntilStays, CallType, Bounds
  <2>. QED
    BY <1>1, <2>2, <2>3, <2>4, <2>5, <2>7 DEF StoreTimely
<1>3. CASE store' = store /\ stored' = stored
  BY <1>1, <1>3 DEF StoreTimely
<1>4. (\E t \in Threads : Store(t)) \/ (store' = store /\ stored' = stored)
  BY CacheStays DEF Next, Step, vars, NotFound, Ask, Seek, LookUp, Reuse, Discard, Connect,
     LoadFails, Query, GiveBack, Reply, Tick, Save, Delete
<1>. QED
  BY <1>2, <1>3, <1>4

(* Ages stay within the bounds.                                            *)
LEMMA TimelyStep == Typed /\ Own /\ Timely /\ [Next]_vars => Timely'
<1> SUFFICES ASSUME Typed, Own, Timely, [Next]_vars PROVE Timely'
  OBVIOUS
<1>1. ASSUME NEW u \in Threads PROVE RequestTimely(u)'
  BY <1>1, AllStay, OthersStay, OwnTimely, SameTimely
<1>. QED
  BY <1>1, StoreTimelyStep DEF Timely

(* They are at first, of nothing.                                          *)
LEMMA InitTimely == Init => Timely
<1> SUFFICES ASSUME Init PROVE Timely
  OBVIOUS
<1>1. /\ \A t \in Threads : call[t].pc = "idle"
      /\ \A s \in Sources : store[s].expiry = 0
      /\ clock = 1
  BY NoCallType DEF Init, Cache!Init, Cache!NoEntry, Cache!NoCall
<1>2. \A t \in Threads : RequestTimely(t)
  BY <1>1 DEF RequestTimely, Asking
<1>3. StoreTimely
  BY <1>1, Bounds DEF StoreTimely
<1>. QED
  BY <1>2, <1>3 DEF Timely

-----------------------------------------------------------------------------
(* The theorems.                                                           *)

IInv == Typed /\ Exclusive /\ Own /\ Timely

(* IInv is an inductive invariant.                                         *)
THEOREM Invariant == Spec => []IInv
<1>1. Init => IInv
  BY InitTyped, InitOwn, InitTimely DEF IInv
<1>2. IInv /\ [Next]_vars => IInv'
  BY TypedStep, ExclusiveStep, OwnStep, TimelyStep DEF IInv
<1>. QED
  BY <1>1, <1>2, PTL DEF Spec

(* The variables have their types (the parts of the cache, the pool and    *)
(* the definitions).                                                       *)
THEOREM TypeCorrect == Spec => []TypeOK
<1>1. IInv => TypeOK
  BY DEF IInv, Typed
<1>. QED
  BY <1>1, Invariant, PTL

(* Whatever is saved, deleted and created again under an id, and whoever   *)
(* shares the cache and the pools: the answer to a request about a source  *)
(* was read from a database that this source was defined with, of the type *)
(* whose SQL was sent to it (stats.py, query_cache.py, source_client.py).  *)
THEOREM AnswersAreOwn == Spec => []OwnDatabase
<1>1. IInv => OwnDatabase
  <2> SUFFICES ASSUME IInv, NEW t \in Threads, call[t].pc = "done"
               PROVE  /\ defs[got[t].def].source = defs[using[t]].source
                      /\ defs[got[t].server].source = defs[got[t].def].source
                      /\ defs[got[t].server].kind = defs[got[t].def].kind
    BY DEF OwnDatabase, Answered, Cache!At
  <2>1. Of(using[t], call[t].key) /\ Valid(got[t], call[t].key)
    BY DEF IInv, Own, RequestOwn, Asking
  <2>. QED
    BY <2>1 DEF Of, Valid
<1>. QED
  BY <1>1, Invariant, PTL

(* An answer whose loader opened its own connection is from a definition   *)
(* that was current, or replaced for less than TTL, when it was asked for: *)
(* a definition outlives its replacement longer only in the pool.          *)
THEOREM OnlyPoolsKeepOld == Spec => []StaleOnlyByPool
<1>1. IInv => StaleOnlyByPool
  BY DEF IInv, Timely, RequestTimely, StaleOnlyByPool, Answered, Cache!At
<1>. QED
  BY <1>1, Invariant, PTL
=============================================================================
