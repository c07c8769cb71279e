---------------------------- MODULE StatsService ----------------------------
(***************************************************************************)
(* The way of a statistics request (app/api/routes/stats.py, meta.py):     *)
(* _require_source reads the definition of the source from the registry,   *)
(* query_cache.get_or_set looks for an answer under a key that names the   *)
(* source id only, and on a miss the repository queries the source over    *)
(* source_connection, whose pools are keyed by database type and source    *)
(* id.  Meanwhile sources are saved, with other hosts or other types, and  *)
(* deleted.                                                                *)
(*                                                                         *)
(* This module composes QueryCache and the pool of PoolPromise, which      *)
(* ConnectionPool implements; what it adds is where each piece of data     *)
(* comes from.  The registry's edits are taken one at a time               *)
(* (SourceRegistry says what happens when they overlap), and the cache     *)
(* keeps its entries in memory: Redis keeps them under the same keys.      *)
(***************************************************************************)
EXTENDS Integers, Sequences, FiniteSets

CONSTANTS
  Threads,     (* worker threads                                           *)
  Sources,     (* source ids                                               *)
  Kinds,       (* db_type                                                  *)
  Conns,       (* identities for connections                               *)
  PoolSize,    (* DB_POOL_SIZE                                             *)
  None,
  TTL,         (* ttl_seconds of the routes                                *)
  MaxDelay,    (* bound on the time from _require_source to the clock read *)
  MaxClock,    (* bound: the time a behaviour lasts                        *)
  MaxVersions  (* bound: the definitions saved in a behaviour              *)

ASSUME ServiceAssumption ==
  /\ TTL \in Nat \ {0} /\ MaxClock \in Nat \ {0}
  /\ MaxDelay \in Nat /\ MaxVersions \in Nat
  /\ Sources # {}
  /\ None \notin (Kinds \X Sources) \X Conns

VARIABLES
  clock, redisUrl, redisUp, store, redis, client, backend, call,  (* cache *)
  idle, hand,                                                     (* pool  *)
  defs,      (* every definition ever saved, in order: its source, its     *)
             (* kind and the time until which it was the current one       *)
  using,     (* the definition that each thread's request has read         *)
  server,    (* for each open connection, the definition it was opened for *)
  (* Auxiliary: where the values of calls and entries come from: the       *)
  (* definition read and the one whose server was queried.                 *)
  got, stored

cacheVars == <<clock, redisUrl, redisUp, store, redis, client, backend, call>>
poolVars  == <<idle, hand>>
vars == <<cacheVars, poolVars, defs, using, server, got, stored>>

PoolKeys == Kinds \X Sources

Cache == INSTANCE QueryCache WITH Keys <- Sources, MaxLoad <- 0
Pool  == INSTANCE PoolPromise WITH Keys <- PoolKeys

Versions == 1 .. Len(defs)
Current  == MaxClock + 1           (* the until of a current definition    *)
CurrentOf(s) == {v \in Versions : defs[v].source = s /\ defs[v].until = Current}

NoVersion == 0
Nothing == [def |-> NoVersion, server |-> NoVersion]

Init ==
  /\ Cache!Init /\ redisUrl = "none" /\ ~redisUp
  /\ Pool!Init
  /\ defs = <<>>
  /\ using = [t \in Threads |-> NoVersion]
  /\ server = [c \in Conns |-> NoVersion]
  /\ got = [t \in Threads |-> Nothing]
  /\ stored = [s \in Sources |-> Nothing]

-----------------------------------------------------------------------------
(* The registry.                                                           *)

Ended(s) ==
  [v \in Versions |-> IF v \in CurrentOf(s) THEN [defs[v] EXCEPT !.until = clock] ELSE defs[v]]

(* create_source and update_source: nothing is told to cache or pool.      *)
Save(s, kind) ==
  /\ Len(defs) < MaxVersions
  /\ defs' = Append(Ended(s), [source |-> s, kind |-> kind, until |-> Current])
  /\ UNCHANGED <<cacheVars, poolVars, using, server, got, stored>>

(* delete_source.                                                          *)
Delete(s) ==
  /\ CurrentOf(s) # {}
  /\ defs' = Ended(s)
  /\ UNCHANGED <<cacheVars, poolVars, using, server, got, stored>>

-----------------------------------------------------------------------------
(* A request.                                                              *)

(* _require_source: one for an unknown source id is answered with 404.     *)
NotFound(t, s) ==
  Cache!At(t, "idle") /\ hand[t] = None /\ CurrentOf(s) = {} /\ UNCHANGED vars

CacheKeyMutant(s) == CHOOSE k \in Sources : TRUE
CacheKey(s) == s

Ask(t, s) ==
  /\ hand[t] = None
  /\ Cache!Begin(t, CacheKey(s))
  /\ using' \in {[using EXCEPT ![t] = v] : v \in CurrentOf(s)}
  /\ UNCHANGED <<poolVars, defs, server, got, stored>>

(* get_or_set, up to the loader.                                           *)
Seek(t) ==
  /\ Cache!CheckClient(t) \/ Cache!ReadClock(t)
  /\ UNCHANGED <<poolVars, defs, using, server, got, stored>>

LookUp(t) ==
  /\ Cache!LookUp(t)
  /\ got' = [got EXCEPT ![t] = stored[call[t].key]]
  /\ UNCHANGED <<poolVars, defs, using, server, stored>>

Loading(t) == Cache!At(t, "load")

PoolKeyMutant(v) == <<defs[v].kind, CHOOSE s \in Sources : TRUE>>
PoolKey(v) == <<defs[v].kind, defs[v].source>>

(* acquire hands out an idle connection, ...                               *)
Reuse(t, c) ==
  /\ Loading(t)
  /\ Pool!Take(t, PoolKey(using[t]), c)
  /\ UNCHANGED <<cacheVars, defs, using, server, got, stored>>

(* ... throws away one that is dead, ...                                   *)
Discard(t, c) ==
  /\ Loading(t) /\ hand[t] = None
  /\ Pool!Discard(PoolKey(using[t]), c)
  /\ server' = [server EXCEPT ![c] = NoVersion]
  /\ UNCHANGED <<cacheVars, defs, using, got, stored>>

(* ... or opens one to the host of the definition at hand, ...             *)
Connect(t, c) ==
  /\ Loading(t)
  /\ Pool!Open(t, PoolKey(using[t]), c)
  /\ server' = [server EXCEPT ![c] = using[t]]
  /\ UNCHANGED <<cacheVars, defs, using, got, stored>>

(* ... or cannot; or the query raises.                                     *)
LoadFails(t) ==
  /\ Loading(t)
  /\ hand[t] # None \/ idle[PoolKey(using[t])] = {}
  /\ Cache!LoadFails(t)
  /\ using' = [using EXCEPT ![t] = NoVersion]
  /\ UNCHANGED <<clock, redisUrl, redisUp, store, redis, client, backend>>
  /\ UNCHANGED <<poolVars, defs, server, got, stored>>

(* The query on the connection in hand returns.                            *)
Query(t) ==
  /\ hand[t] # None
  /\ Cache!Load(t)
  /\ ~Cache!LoadFails(t)
  /\ got' = [got EXCEPT ![t] = [def |-> using[t], server |-> server[hand[t][2]]]]
  /\ UNCHANGED <<poolVars, defs, using, server, stored>>

(* A with statement ends, either way.  A loader may have several, one after *)
(* another, as those of the charts do: the query that got tells the origin *)
(* of is its last, and any of them is the last of a loader with fewer.     *)
GiveBack(t) ==
  /\ \/ Pool!Give(t) /\ UNCHANGED server
     \/ Pool!Drop(t) /\ server' = [server EXCEPT ![hand[t][2]] = NoVersion]
  /\ UNCHANGED <<cacheVars, defs, using, got, stored>>

Store(t) ==
  /\ hand[t] = None
  /\ Cache!Store(t)
  /\ stored' = [stored EXCEPT ![call[t].key] = got[t]]
  /\ UNCHANGED <<poolVars, defs, using, server, got>>

Reply(t) ==
  /\ Cache!Return(t)
  /\ using' = [using EXCEPT ![t] = NoVersion]
  /\ got' = [got EXCEPT ![t] = Nothing]
  /\ UNCHANGED <<poolVars, defs, server, stored>>

(* A thread that has read its definition reads the clock within MaxDelay.  *)
Tick ==
  /\ \A t \in Threads :
       Cache!At(t, "check") \/ Cache!At(t, "clock") => clock < call[t].asked + MaxDelay
  /\ Cache!Tick
  /\ UNCHANGED <<poolVars, defs, using, server, got, stored>>

Step(t) ==
  \/ \E s \in Sources : NotFound(t, s) \/ Ask(t, s)
  \/ Seek(t) \/ LookUp(t)
  \/ \E c \in Conns : Reuse(t, c) \/ Discard(t, c) \/ Connect(t, c)
  \/ LoadFails(t) \/ Query(t) \/ GiveBack(t) \/ Store(t) \/ Reply(t)

Next ==
  \/ \E t \in Threads : Step(t)
  \/ \E s \in Sources : Delete(s) \/ \E kind \in Kinds : Save(s, kind)
  \/ Tick

Spec == Init /\ [][Next]_vars

-----------------------------------------------------------------------------
(* Type invariant.                                                         *)
Origins == [def : 0 .. MaxVersions, server : 0 .. MaxVersions]
TypeOK ==
  /\ Cache!TypeOK
  /\ idle \in [PoolKeys -> SUBSET Conns]
  /\ hand \in [Threads -> {None} \union (PoolKeys \X Conns)]
  /\ defs \in Seq([source : Sources, kind : Kinds, until : 0 .. Current])
  /\ Len(defs) =< MaxVersions
  /\ using \in [Threads -> 0 .. MaxVersions]
  /\ server \in [Conns -> 0 .. MaxVersions]
  /\ got \in [Threads -> Origins]
  /\ stored \in [Sources -> Origins]

Answered(t) == Cache!At(t, "done")

(* The answer to a request about a source was read from a database that    *)
(* this source was defined with, of the type whose SQL was sent to it,     *)
(* whatever was saved, deleted and created again under its id, and         *)
(* whichever requests the cache and the pools were shared with.            *)
OwnDatabase ==
  \A t \in Threads : Answered(t) =>
    LET def == defs[got[t].def] srv == defs[got[t].server]
    IN  /\ def.source = defs[using[t]].source
        /\ srv.source = def.source
        /\ srv.kind = def.kind

(* How long after its end a definition may still be answered from.         *)
StillCurrent(v, time) == defs[v].until + TTL + MaxDelay > time

(* A request is answered from a definition that was current, or replaced   *)
(* for less than TTL, when it was made - provided that the loader opened   *)
(* its connection with the definition it had read: only the pool keeps a   *)
(* replaced definition in use for longer.                                  *)
StaleOnlyByPool ==
  \A t \in Threads : Answered(t) /\ got[t].server = got[t].def =>
    StillCurrent(got[t].server, call[t].asked)

(* "Source updated" (app/api/routes/sources.py): from then on, but for the *)
(* answers in the cache, a source's statistics come from the database it   *)
(* has been updated to.                                                    *)
UpdatesTakeEffect ==
  \A t \in Threads : Answered(t) => StillCurrent(got[t].server, call[t].asked)
=============================================================================
