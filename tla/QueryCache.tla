----------------------------- MODULE QueryCache -----------------------------
(***************************************************************************)
(* app/services/query_cache.py: get_or_set as the statistics and metadata  *)
(* routes call it from the threads of the pool, with both of its backends. *)
(*                                                                         *)
(* A cached value is abstracted to the time at which its loader read the   *)
(* database: what a cache can get wrong is how old its answers are.        *)
(*                                                                         *)
(* Each step is one statement between which another thread may run.  The   *)
(* two critical sections of _lock hold a single dictionary operation each, *)
(* so each is one step and the lock itself needs no variable.              *)
(***************************************************************************)
EXTENDS Integers

CONSTANTS
  Threads,        (* worker threads                                        *)
  Keys,           (* cache keys: namespace and digest of the payload       *)
  TTL,            (* ttl_seconds of the call                               *)
  MaxLoad,        (* bound on the time from the loader's read to setex     *)
  MaxClock        (* bound: the time a behaviour lasts                     *)

ASSUME TimesAssumption ==
  /\ TTL \in Nat \ {0}
  /\ MaxLoad \in Nat
  /\ MaxClock \in Nat \ {0}

ASSUME KeysAssumption == Keys # {}

VARIABLES
  clock,     (* time.time(), taken to be monotonic; Redis's clock too      *)
  redisUrl,  (* settings.redis_url: not set, malformed, or well formed     *)
  redisUp,   (* external: the Redis server answers                         *)
  store,     (* QueryCache._store: what the process remembers for each key *)
  redis,     (* external: what the Redis server holds for each key         *)
  client,    (* QueryCache._redis_client is not None                       *)
  backend,   (* QueryCache._backend_name                                   *)
  call       (* for each thread, the call of get_or_set it is in: its next *)
             (* statement (pc), its key, its now, the value loaded or      *)
             (* found, the backend in use (via), and, auxiliary, the time  *)
             (* at which it was made (asked)                               *)

vars == <<clock, redisUrl, redisUp, store, redis, client, backend, call>>

Times   == 0 .. MaxClock
Expiries == 0 .. (MaxClock + TTL)
Entries == [readAt : Times, expiry : Expiries]
NoEntry == [readAt |-> 0, expiry |-> 0]   (* never live: the clock is past *)
NoCall  == [pc |-> "idle", key |-> CHOOSE k \in Keys : TRUE, now |-> 0,
            value |-> 0, via |-> "memory", asked |-> 0]

PCs == {"idle", "check", "connect", "ping", "name", "return", "except",
        "fall back", "get", "clock", "lookup", "load", "setex", "store",
        "done"}
Calls == [pc : PCs, key : Keys, now : Times, value : Times,
          via : {"memory", "redis"}, asked : Times]

-----------------------------------------------------------------------------
Init ==
  /\ clock = 1
  /\ redisUrl \in {"none", "bad", "good"}
  /\ redisUp \in BOOLEAN
  /\ store = [k \in Keys |-> NoEntry]
  /\ redis = [k \in Keys |-> NoEntry]
  /\ client = FALSE
  /\ backend = "memory"
  /\ call = [t \in Threads |-> NoCall]

At(t, label) == call[t].pc = label
GoTo(t, label) == call' = [call EXCEPT ![t].pc = label]
Found(t, entry) ==
  call' = [call EXCEPT ![t] = [@ EXCEPT !.pc = "done", !.value = entry.readAt]]
Raise(t) == call' = [call EXCEPT ![t] = NoCall]

(* A route calls get_or_set.                                               *)
Begin(t, k) ==
  /\ At(t, "idle")
  /\ call' = [call EXCEPT ![t] = [NoCall EXCEPT !.pc = "check", !.key = k,
                                                !.asked = clock]]
  /\ UNCHANGED <<clock, redisUrl, redisUp, store, redis, client, backend>>

-----------------------------------------------------------------------------
(* _get_redis_client.                                                      *)

CheckClient(t) ==
  /\ At(t, "check")
  /\ \/ /\ client
        /\ GoTo(t, "return")
        /\ UNCHANGED backend
     \/ /\ ~client
        /\ redisUrl = "none"
        /\ backend' = "memory"
        /\ GoTo(t, "clock")
     \/ /\ ~client
        /\ redisUrl # "none"
        /\ GoTo(t, "connect")
        /\ UNCHANGED backend
  /\ UNCHANGED <<clock, redisUrl, redisUp, store, redis, client>>

(* from_url parses the URL and contacts nobody.                            *)
Connect(t) ==
  /\ At(t, "connect")
  /\ IF redisUrl = "good"
       THEN client' = TRUE /\ GoTo(t, "ping")
       ELSE GoTo(t, "except") /\ UNCHANGED client
  /\ UNCHANGED <<clock, redisUrl, redisUp, store, redis, backend>>

(* The attribute is read again: another thread may have reset it to None.  *)
Ping(t) ==
  /\ At(t, "ping")
  /\ GoTo(t, IF client /\ redisUp THEN "name" ELSE "except")
  /\ UNCHANGED <<clock, redisUrl, redisUp, store, redis, client, backend>>

NameRedis(t) ==
  /\ At(t, "name")
  /\ backend' = "redis"
  /\ GoTo(t, "return")
  /\ UNCHANGED <<clock, redisUrl, redisUp, store, redis, client>>

(* ... and so may it have before this last read.                           *)
ReturnClient(t) ==
  /\ At(t, "return")
  /\ IF client
       THEN call' = [call EXCEPT ![t] = [@ EXCEPT !.pc = "get", !.via = "redis"]]
       ELSE GoTo(t, "clock")
  /\ UNCHANGED <<clock, redisUrl, redisUp, store, redis, client, backend>>

DropClient(t) ==
  /\ At(t, "except")
  /\ client' = FALSE
  /\ GoTo(t, "fall back")
  /\ UNCHANGED <<clock, redisUrl, redisUp, store, redis, backend>>

FallBack(t) ==
  /\ At(t, "fall back")
  /\ backend' = "memory"
  /\ GoTo(t, "clock")
  /\ UNCHANGED <<clock, redisUrl, redisUp, store, redis, client>>

-----------------------------------------------------------------------------
(* get_or_set on Redis.  An error of the server reaches the caller: the    *)
(* client was chosen once and for all, there is no way back to memory.     *)

Live(entry, time) == entry.expiry > time

GetFromRedis(t) ==
  /\ At(t, "get")
  /\ \/ ~redisUp /\ Raise(t)
     \/ /\ redisUp
        /\ Live(redis[call[t].key], clock)
        /\ Found(t, redis[call[t].key])
     \/ /\ redisUp
        /\ ~Live(redis[call[t].key], clock)
        /\ GoTo(t, "load")
  /\ UNCHANGED <<clock, redisUrl, redisUp, store, redis, client, backend>>

(* setex: the time to live starts when Redis gets the command.             *)
RedisEntry(t) == [readAt |-> call[t].value, expiry |-> clock + TTL]

SetInRedis(t) ==
  /\ At(t, "setex")
  /\ IF redisUp
       THEN /\ redis' = [redis EXCEPT ![call[t].key] = RedisEntry(t)]
            /\ GoTo(t, "done")
       ELSE Raise(t) /\ UNCHANGED redis
  /\ UNCHANGED <<clock, redisUrl, redisUp, store, client, backend>>

-----------------------------------------------------------------------------
(* get_or_set in memory.                                                   *)

ReadClock(t) ==
  /\ At(t, "clock")
  /\ call' = [call EXCEPT ![t] = [@ EXCEPT !.pc = "lookup", !.now = clock]]
  /\ UNCHANGED <<clock, redisUrl, redisUp, store, redis, client, backend>>

LookUp(t) ==
  /\ At(t, "lookup")
  /\ IF Live(store[call[t].key], call[t].now)
       THEN Found(t, store[call[t].key])
       ELSE GoTo(t, "load")
  /\ UNCHANGED <<clock, redisUrl, redisUp, store, redis, client, backend>>

LoadFailsMutant(t) == Found(t, store[call[t].key])
LoadFails(t) == Raise(t)

(* The loader queries the source, outside the lock; it may raise, and then *)
(* nothing is stored and the caller gets the exception.                    *)
Load(t) ==
  /\ At(t, "load")
  /\ \/ LoadFails(t)
     \/ call' = [call EXCEPT ![t] =
                   [@ EXCEPT !.value = clock,
                             !.pc = IF call[t].via = "redis" THEN "setex" ELSE "store"]]
  /\ UNCHANGED <<clock, redisUrl, redisUp, store, redis, client, backend>>

(* The time to live starts at now, before the loader ran.                  *)
StoredEntryLateNow(t) == [readAt |-> call[t].value, expiry |-> clock + TTL]
StoredEntryInMillis(t) ==
  [readAt |-> call[t].value, expiry |-> call[t].now + 1000 * TTL]
StoredEntry(t) == [readAt |-> call[t].value, expiry |-> call[t].now + TTL]

Store(t) ==
  /\ At(t, "store")
  /\ store' = [store EXCEPT ![call[t].key] = StoredEntry(t)]
  /\ GoTo(t, "done")
  /\ UNCHANGED <<clock, redisUrl, redisUp, redis, client, backend>>

(* get_or_set has returned.                                                *)
Return(t) ==
  /\ At(t, "done")
  /\ call' = [call EXCEPT ![t] = NoCall]
  /\ UNCHANGED <<clock, redisUrl, redisUp, store, redis, client, backend>>

-----------------------------------------------------------------------------
(* Time passes, but no thread is kept for longer than MaxLoad between the  *)
(* read of its loader and setex.  The memory backend needs no such bound.  *)
Tick ==
  /\ clock < MaxClock
  /\ \A t \in Threads : At(t, "setex") => clock < call[t].value + MaxLoad
  /\ clock' = clock + 1
  /\ UNCHANGED <<redisUrl, redisUp, store, redis, client, backend, call>>

(* External: the Redis server comes and goes, keeping its data or not.     *)
RedisChanges ==
  /\ redisUrl = "good"
  /\ redisUp' = ~redisUp
  /\ redis' \in {redis, [k \in Keys |-> NoEntry]}
  /\ UNCHANGED <<clock, redisUrl, store, client, backend, call>>

Step(t) ==
  \/ CheckClient(t) \/ Connect(t) \/ Ping(t) \/ NameRedis(t)
  \/ ReturnClient(t) \/ DropClient(t) \/ FallBack(t)
  \/ GetFromRedis(t) \/ SetInRedis(t)
  \/ ReadClock(t) \/ LookUp(t) \/ Load(t) \/ Store(t) \/ Return(t)

Next ==
  \/ \E t \in Threads : Step(t) \/ \E k \in Keys : Begin(t, k)
  \/ Tick
  \/ RedisChanges

(* Threads run; a loader, and a command to Redis, returns or raises.       *)
Fairness == \A t \in Threads : WF_vars(Step(t))

Spec == Init /\ [][Next]_vars /\ Fairness

-----------------------------------------------------------------------------
(* Type invariant.                                                         *)
TypeOK ==
  /\ clock \in Times
  /\ redisUrl \in {"none", "bad", "good"}
  /\ redisUp \in BOOLEAN
  /\ store \in [Keys -> Entries]
  /\ redis \in [Keys -> Entries]
  /\ client \in BOOLEAN
  /\ backend \in {"memory", "redis"}
  /\ call \in [Threads -> Calls]

(* How much older than the call an answer of a backend may be.             *)
MaxAge(v) == IF v = "memory" THEN TTL ELSE TTL + MaxLoad

(* An answer shows the database as it was less than TTL before the call,   *)
(* or later, however long loaders take, whichever thread's result is kept  *)
(* and whatever order overlapping loaders store in: now is read before the *)
(* lookup and the load.  On Redis the time to live starts after the load,  *)
(* so the loader's time comes on top.                                      *)
AnswerFresh ==
  \A t \in Threads :
    At(t, "done") => call[t].value + MaxAge(call[t].via) > call[t].asked

(* The strengthening that makes AnswerFresh inductive: no entry outlives   *)
(* its value by more than its backend allows, and what a call has done so  *)
(* far it did in the order of the clock.                                   *)
EntriesAgree ==
  \A k \in Keys :
    /\ store[k].expiry =< store[k].readAt + TTL
    /\ redis[k].expiry =< redis[k].readAt + TTL + MaxLoad
    /\ store[k].readAt =< clock
    /\ redis[k].readAt =< clock

CallAgrees(c) ==
  /\ c.asked =< clock
  /\ c.value =< clock
  /\ c.via = "redis" => c.pc \in {"get", "load", "setex", "done"}
  /\ c.pc \in {"get", "setex"} => c.via = "redis"
  /\ c.pc \in {"lookup", "load", "store"} /\ c.via = "memory"
       => c.asked =< c.now /\ c.now =< clock
  /\ c.pc = "store" => c.now =< c.value
  /\ c.pc = "setex" => c.asked =< c.value /\ clock =< c.value + MaxLoad
  /\ c.pc = "done" => c.value + MaxAge(c.via) > c.asked

ClocksAgree == EntriesAgree /\ \A t \in Threads : CallAgrees(call[t])

(* The cache keeps the promise of CachePromise: its calls are the          *)
(* requests, a call that is done has been answered.                        *)
Phase(c) == IF c.pc = "idle" THEN "idle"
            ELSE IF c.pc = "done" THEN "answered" ELSE "waiting"

phases  == [t \in Threads |-> Phase(call[t])]
askedAt == [t \in Threads |-> call[t].asked]
answers == [t \in Threads |-> IF At(t, "done") THEN call[t].value ELSE 0]

Promise == INSTANCE CachePromise WITH
  Horizon <- TTL + MaxLoad, phase <- phases, asked <- askedAt, answer <- answers

(* Every call is answered with a value it may be answered with, or fails,  *)
(* in the sense of CachePromise.                                           *)
KeepsPromise == Promise!Spec
=============================================================================
