--------------------------- MODULE SourceRegistry ---------------------------
(***************************************************************************)
(* The registry of data sources: app/services/source_registry.py.          *)
(*                                                                         *)
(* The sources live in one YAML file.  get_source_registry() parses it and *)
(* keeps the result in an lru_cache(maxsize=1); save_source_definition()   *)
(* and delete_source_definition() read the registry through that cache,    *)
(* rewrite the whole file and then clear the cache.  FastAPI runs the      *)
(* handlers in a thread pool and none of these steps is under a lock, so   *)
(* every thread's steps interleave with every other thread's.              *)
(*                                                                         *)
(* A definition is abstracted to the number of the request that submitted  *)
(* it (rev) and the number of the request that supplied its password:      *)
(* enough to see a lost edit, a stale read and a password taken from the   *)
(* wrong predecessor.  A text fits in one block of the file system, so a   *)
(* write of it succeeds as a whole or leaves nothing.                      *)
(***************************************************************************)
EXTENDS Naturals

CONSTANTS
  Threads,     (* worker threads of the process                            *)
  Ids,         (* source ids                                               *)
  FirstFiles,  (* the configurations, written by hand, to start with       *)
  MaxRev,      (* bound: number of edit requests of a behaviour            *)
  MaxCrashes,  (* bound: number of restarts of a behaviour                 *)
  Absent,      (* no source has this id                                    *)
  Invalid,     (* an entry of the file that _normalize_source_items skips  *)
  Blank        (* the empty password                                       *)

Revs      == 0 .. MaxRev
Passwords == Revs \union {Blank}
Defs      == [rev : Revs, password : Passwords]
Entries   == Defs \union {Absent}
Registry  == [Ids -> Entries]

(* Nothing obliges the hand that writes the first file to give a source a  *)
(* password.                                                               *)
FirstEntries == {Absent, Invalid} \union [rev : {0}, password : {0, Blank}]

ASSUME FirstFilesAssumption == FirstFiles \subseteq [Ids -> FirstEntries]
ASSUME BoundsAssumption == MaxRev \in Nat /\ MaxCrashes \in Nat
ASSUME MarkersAssumption ==
  /\ Absent \notin Defs
  /\ Invalid \notin Entries
  /\ Blank \notin Nat

VARIABLES
  jsonMode,    (* SOURCE_CONFIG_JSON is set: the text is the environment's *)
  file,        (* the configuration text: a state and, if it is readable,  *)
               (* the entry it has for each id                             *)
  cache,       (* the lru_cache slot: the empty set or one registry        *)
  pc,          (* where each thread is                                     *)
  request,     (* the request each thread serves                           *)
  snapshot,    (* the registry each thread works on                        *)
  nextRev,     (* number of the latest edit request                        *)
  crashes,     (* restarts so far                                          *)
  (* Auxiliary: no action reads these to decide what the code does.        *)
  last,        (* the registry with every completed edit applied, in the   *)
               (* order of the writes                                      *)
  kept,        (* ids of the first file that no delete request named, nor  *)
               (* a save request with a blank required field               *)
  undisturbed, (* no edit overlapped another request, no write was cut by  *)
               (* a crash or failed                                        *)
  unprotected  (* ids that may be without a password: those that had none  *)
               (* in the first file, and every id once such a file has     *)
               (* been torn                                                *)

code == <<jsonMode, file, cache, pc, request, snapshot, nextRev, crashes>>
vars == <<code, last, kept, undisturbed, unprotected>>

-----------------------------------------------------------------------------
NoSources == [i \in Ids |-> Absent]

(* Entries with blank required fields, or that fail validation, are left   *)
(* out of the registry with a warning.  The password is not among the      *)
(* required fields: an entry with an empty one is loaded.                  *)
Normalized(entries) ==
  [i \in Ids |-> IF entries[i] = Invalid THEN Absent ELSE entries[i]]

(* A missing file loads as no sources, like a text with an empty list.  An *)
(* empty text (a file just truncated) parses to a mapping and raises, and  *)
(* so does a garbled one.                                                  *)
ReadableMutant(f) == f.state # "garbage"
Readable(f) == f.state = "text"

(* SourceUpsertRequest.to_source_definition: a blank password keeps that   *)
(* of the existing definition.                                             *)
ToSourceDefinition(existing, q) ==
  [rev |-> q.rev,
   password |-> IF ~q.blank THEN q.rev
                ELSE IF existing = Absent THEN Blank ELSE existing.password]

(* The item list that a request writes back.  A save request with a blank  *)
(* required field (a host of spaces, say) is not refused: what it writes   *)
(* is an entry that the next load skips.                                   *)
Edited(registry, q) ==
  [registry EXCEPT ![q.id] =
     CASE q.kind = "delete"              -> Absent
       [] q.kind = "save" /\ ~q.complete -> Invalid
       [] q.kind = "save" /\ q.complete  -> ToSourceDefinition(@, q)]

(* A request after which its source is in no registry any more.            *)
Removes(q) == q.kind = "delete" \/ ~q.complete

(* "password is required" for a new source, KeyError for an unknown id.    *)
RejectedMutant(registry, q) == registry[q.id] = Absent /\ q.kind = "delete"
Rejected(registry, q) ==
  registry[q.id] = Absent /\ (q.kind = "delete" \/ q.blank)

(* External: write() puts new at the start of a file that another writer   *)
(* has filled with old since this one truncated it.  When old is longer    *)
(* its tail survives: items of old after all those of new, or a fragment   *)
(* whose fields are read into an item of new.                              *)
SplicedEntry(old, new, i) ==
  IF new[i] = Absent THEN {Absent, old[i]}
  ELSE ({new[i], old[i]} \ {Absent})
         \union {[new[i] EXCEPT !.password = old[j].password] :
                   j \in {k \in Ids : new[i] \in Defs /\ old[k] \in Defs}}
Splices(old, new) ==
  {r \in [Ids -> UNION {SplicedEntry(old, new, i) : i \in Ids}] :
     \A i \in Ids : r[i] \in SplicedEntry(old, new, i)}

Text(entries) == [state |-> "text", entries |-> entries]
Empty         == [state |-> "empty", entries |-> NoSources]
Garbage       == [state |-> "garbage", entries |-> NoSources]

Written(f, new) ==
  CASE f.state = "empty"   -> {Text(new)}
    [] f.state = "garbage" -> {Text(new), Garbage}
    [] f.state = "text"    -> {Text(new), Garbage}
                                \union {Text(r) : r \in Splices(f.entries, new)}

Files == [state   : {"text", "empty", "garbage"},
          entries : [Ids -> Entries \union {Invalid}]]
Edits == [kind : {"save", "delete"}, id : Ids, rev : Revs,
          blank : BOOLEAN, complete : BOOLEAN]
Reading == [kind |-> "read", id |-> Absent, rev |-> 0,
            blank |-> FALSE, complete |-> TRUE]

-----------------------------------------------------------------------------
(* The ids of the entries without a password.                              *)
Unprotected(entries) ==
  {i \in Ids : entries[i] \in Defs /\ entries[i].password = Blank}

Init ==
  /\ jsonMode \in BOOLEAN
  /\ \E entries \in FirstFiles : file = Text(entries)
  /\ cache = {}
  /\ pc = [t \in Threads |-> "idle"]
  /\ request = [t \in Threads |-> Reading]
  /\ snapshot = [t \in Threads |-> NoSources]
  /\ nextRev = 0
  /\ crashes = 0
  /\ last = Normalized(file.entries)
  /\ kept = {i \in Ids : last[i] # Absent}
  /\ undisturbed = TRUE
  /\ unprotected = Unprotected(file.entries)

Active == {t \in Threads : pc[t] # "idle"}
Editing(t) == pc[t] # "idle" /\ request[t].kind # "read"

(* get_source_registry(): a hit returns the slot, a miss runs the body.    *)
GetRegistry(t) ==
  /\ \/ \E r \in cache : /\ snapshot' = [snapshot EXCEPT ![t] = r]
                         /\ pc' = [pc EXCEPT ![t] = "have"]
     \/ /\ cache = {}
        /\ pc' = [pc EXCEPT ![t] = "load"]
        /\ UNCHANGED snapshot
  /\ UNCHANGED <<jsonMode, file, cache, crashes, last, unprotected>>

(* A request ends and its local variables with it.                         *)
Return(t) ==
  /\ pc' = [pc EXCEPT ![t] = "idle"]
  /\ request' = [request EXCEPT ![t] = Reading]
  /\ snapshot' = [snapshot EXCEPT ![t] = NoSources]

(* Any handler that lists the sources or resolves a source id.             *)
BeginRead(t) ==
  /\ pc[t] = "idle"
  /\ request' = [request EXCEPT ![t] = Reading]
  /\ GetRegistry(t)
  /\ undisturbed' = (undisturbed /\ \A u \in Threads : ~Editing(u))
  /\ UNCHANGED <<nextRev, kept>>

(* POST or PUT /api/sources: save_source_definition up to the registry.    *)
BeginSave(t, i, blank, complete) ==
  /\ pc[t] = "idle"
  /\ ~jsonMode
  /\ nextRev < MaxRev
  /\ nextRev' = nextRev + 1
  /\ request' = [request EXCEPT ![t] = [kind |-> "save", id |-> i,
                                        rev |-> nextRev + 1, blank |-> blank,
                                        complete |-> complete]]
  /\ GetRegistry(t)
  /\ undisturbed' = (undisturbed /\ Active = {})
  /\ kept' = IF complete THEN kept ELSE kept \ {i}

(* DELETE /api/sources/{id}: delete_source_definition up to the registry.  *)
BeginDelete(t, i) ==
  /\ pc[t] = "idle"
  /\ ~jsonMode
  /\ nextRev < MaxRev
  /\ nextRev' = nextRev + 1
  /\ request' = [request EXCEPT ![t] = [kind |-> "delete", id |-> i,
                                        rev |-> 0, blank |-> FALSE,
                                        complete |-> TRUE]]
  /\ GetRegistry(t)
  /\ undisturbed' = (undisturbed /\ Active = {})
  /\ kept' = kept \ {i}

(* The body of get_source_registry(): read_text() and the parse.  A load   *)
(* that raises ends the request with an error and is not cached.           *)
LoadFile(t) ==
  /\ pc[t] = "load"
  /\ IF Readable(file)
       THEN /\ snapshot' = [snapshot EXCEPT ![t] = Normalized(file.entries)]
            /\ pc' = [pc EXCEPT ![t] = "insert"]
            /\ UNCHANGED request
       ELSE Return(t)
  /\ UNCHANGED <<jsonMode, file, cache, nextRev, crashes,
                 last, kept, undisturbed, unprotected>>

InsertedMutant(slot, registry) == slot \union {registry}
Inserted(slot, registry) == IF slot = {} THEN {registry} ELSE slot

(* lru_cache stores the result unless another thread has stored one since; *)
(* either way the caller gets what it loaded itself.                       *)
InsertIntoCache(t) ==
  /\ pc[t] = "insert"
  /\ cache' = Inserted(cache, snapshot[t])
  /\ pc' = [pc EXCEPT ![t] = "have"]
  /\ UNCHANGED <<jsonMode, file, request, snapshot, nextRev, crashes,
                 last, kept, undisturbed, unprotected>>

(* A read answers, or an edit is refused before it touches the file.       *)
Answer(t) ==
  /\ pc[t] = "have"
  /\ request[t].kind # "read" => Rejected(snapshot[t], request[t])
  /\ Return(t)
  /\ UNCHANGED <<jsonMode, file, cache, nextRev, crashes,
                 last, kept, undisturbed, unprotected>>

(* _write_sources_to_file: write_text opens the file with "w" (truncation) *)
OpenFile(t) ==
  /\ pc[t] = "have"
  /\ request[t].kind # "read"
  /\ ~Rejected(snapshot[t], request[t])
  /\ file' = Empty
  /\ pc' = [pc EXCEPT ![t] = "write"]
  /\ UNCHANGED <<jsonMode, cache, request, snapshot, nextRev, crashes,
                 last, kept, undisturbed, unprotected>>

(* ... and writes the whole text at offset 0; the items are not used       *)
(* again.  A text that another writer has put there meanwhile may lend its *)
(* entries their passwords, or none.                                       *)
WriteText(t) ==
  /\ pc[t] = "write"
  /\ file' \in Written(file, Edited(snapshot[t], request[t]))
  /\ pc' = [pc EXCEPT ![t] = "clear"]
  /\ last' = Normalized(Edited(last, request[t]))
  /\ unprotected' = IF file.state = "text" /\ unprotected # {} THEN Ids
                    ELSE unprotected
  /\ snapshot' = [snapshot EXCEPT ![t] = NoSources]
  /\ UNCHANGED <<jsonMode, cache, request, nextRev, crashes,
                 kept, undisturbed>>

(* The write raises (a full disk, say) after the truncation: the request   *)
(* ends with an error, and neither the file nor the cache is put back.     *)
WriteFails(t) ==
  /\ pc[t] = "write"
  /\ Return(t)
  /\ undisturbed' = FALSE
  /\ UNCHANGED <<jsonMode, file, cache, nextRev, crashes,
                 last, kept, unprotected>>

EmptiedCacheMutant == cache
EmptiedCache == {}

(* reset_source_registry_cache(), then the 200 response.                   *)
ClearCache(t) ==
  /\ pc[t] = "clear"
  /\ cache' = EmptiedCache
  /\ Return(t)
  /\ UNCHANGED <<jsonMode, file, nextRev, crashes,
                 last, kept, undisturbed, unprotected>>

(* The process dies and is started again: memory is lost, the file stays.  *)
Restart ==
  /\ crashes < MaxCrashes
  /\ crashes' = crashes + 1
  /\ cache' = {}
  /\ pc' = [t \in Threads |-> "idle"]
  /\ request' = [t \in Threads |-> Reading]
  /\ snapshot' = [t \in Threads |-> NoSources]
  /\ undisturbed' = (undisturbed /\ \A t \in Threads : pc[t] # "write")
  /\ UNCHANGED <<jsonMode, file, nextRev, last, kept, unprotected>>

Next ==
  \/ \E t \in Threads :
       \/ BeginRead(t)
       \/ \E i \in Ids, blank, complete \in BOOLEAN :
            BeginSave(t, i, blank, complete)
       \/ \E i \in Ids : BeginDelete(t, i)
       \/ LoadFile(t)
       \/ InsertIntoCache(t)
       \/ Answer(t)
       \/ OpenFile(t)
       \/ WriteText(t)
       \/ WriteFails(t)
       \/ ClearCache(t)
  \/ Restart

Spec == Init /\ [][Next]_vars

-----------------------------------------------------------------------------
(* Type invariant: the shape of every variable.                            *)
TypeOK ==
  /\ jsonMode \in BOOLEAN
  /\ file \in Files
  /\ cache \subseteq Registry
  /\ \A r1, r2 \in cache : r1 = r2
  /\ pc \in [Threads -> {"idle", "load", "insert", "have", "write", "clear"}]
  /\ request \in [Threads -> Edits \union {Reading}]
  /\ snapshot \in [Threads -> Registry]
  /\ nextRev \in Revs
  /\ crashes \in 0 .. MaxCrashes
  /\ last \in Registry
  /\ kept \in SUBSET Ids
  /\ undisturbed \in BOOLEAN
  /\ unprotected \in SUBSET Ids

(* The threads whose snapshot is in use.                                   *)
Loaded(t) == pc[t] \in {"insert", "have", "write"}

(* Where a thread is in its handler agrees with its request: only an edit  *)
(* that was not refused reaches the file.                                  *)
WritersEdit ==
  \A t \in Threads :
    /\ pc[t] \in {"write", "clear"} => request[t] \in Edits
    /\ pc[t] = "write" => ~Rejected(snapshot[t], request[t])

(* A request that removes a source has taken it out of those to be kept.   *)
RemovalsNamed ==
  \A t \in Threads : Removes(request[t]) => request[t].id \notin kept

Protected(entries) == Unprotected(entries) \subseteq unprotected

(* No request takes the password from a source or adds a source without    *)
(* one, though a blank password may be submitted against any snapshot,     *)
(* stale or torn (to_source_definition with require_password): in the      *)
(* file, in the cache and in every registry in use, only the sources that  *)
(* had no password in the first file may be without one, and the sources   *)
(* that a torn text mixed with those.                                      *)
PasswordsStay ==
  /\ Protected(file.entries)
  /\ \A r \in cache : Protected(r)
  /\ \A t \in Threads : Protected(snapshot[t])

HasKept(entries) == \A i \in kept : entries[i] \in Defs

(* A source of the first file that nobody asked to delete, or saved with a *)
(* blank required field, is in every readable file and in every registry   *)
(* in use, whatever the interleaving of saves, loads, failed writes and    *)
(* restarts: a load that meets a truncated file must raise, or the next    *)
(* save would write an empty registry back.                                *)
OnlyDeletesRemove ==
  /\ file.state = "text" => HasKept(file.entries)
  /\ \A r \in cache : HasKept(r)
  /\ \A t \in Threads : Loaded(t) => HasKept(snapshot[t])

(* As long as no edit overlaps another request and every write succeeds,   *)
(* the file holds exactly the completed edits, blank passwords resolved    *)
(* against the definition really replaced, and the registry that requests  *)
(* see is the file's: the clear after the write is enough then, and only   *)
(* then.                                                                   *)
SerialEditsExact ==
  undisturbed =>
    /\ (\A t \in Threads : pc[t] # "write") =>
         /\ file.state = "text"
         /\ Normalized(file.entries) = last
    /\ (\A t \in Threads : pc[t] # "clear") => cache \subseteq {last}
    /\ \A t \in Threads : Loaded(t) => snapshot[t] = last

(* The strengthening that makes SerialEditsExact inductive: an undisturbed *)
(* edit is alone, and it is the only one to leave the file empty.          *)
EditsAlone ==
  undisturbed =>
    \A t \in Threads :
      /\ Editing(t) => \A u \in Threads \ {t} : pc[u] = "idle"
      /\ pc[t] = "write" => file.state = "empty"

(* What "Source saved" (app/api/routes/sources.py) tells the administrator:*)
(* when every request has been answered, the file, if it can be read,      *)
(* holds every edit that was answered with success.                        *)
SavedMeansPersisted ==
  (\A t \in Threads : pc[t] = "idle") /\ file.state = "text" =>
    Normalized(file.entries) = last
=============================================================================
