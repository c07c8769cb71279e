------------------------ MODULE SourceRegistryProofs ------------------------
(***************************************************************************)
(* Proofs about SourceRegistry, for any sets of threads and ids and any    *)
(* number of requests and restarts.                                        *)
(***************************************************************************)
EXTENDS SourceRegistry, TLAPS

-----------------------------------------------------------------------------
(* What the operators of the module return.                                *)

(* A definition built from a request is a definition.                      *)
LEMMA DefinitionType ==
  ASSUME NEW e \in Entries, NEW q \in Edits
  PROVE  ToSourceDefinition(e, q) \in Defs
BY MarkersAssumption
   DEF ToSourceDefinition, Entries, Defs, Passwords, Edits

(* Editing a registry gives the entries of a text.                         *)
LEMMA EditedType ==
  ASSUME NEW r \in Registry, NEW q \in Edits
  PROVE  Edited(r, q) \in [Ids -> Entries \union {Invalid}]
<1>1. r[q.id] \in Entries
  BY DEF Registry, Edits
<1>2. ToSourceDefinition(r[q.id], q) \in Defs
  BY <1>1, DefinitionType
<1>3. q.kind \in {"save", "delete"} /\ q.complete \in BOOLEAN
  BY DEF Edits
<1>. QED
  BY <1>1, <1>2, <1>3 DEF Edited, Registry, Entries

(* Skipping the invalid entries of a text leaves a registry.               *)
LEMMA NormalizedType ==
  ASSUME NEW e \in [Ids -> Entries \union {Invalid}]
  PROVE  Normalized(e) \in Registry
BY DEF Normalized, Registry, Entries

(* What two overlapping writers can leave is one text or a garbled one.    *)
LEMMA SplicesType ==
  ASSUME NEW old \in [Ids -> Entries \union {Invalid}],
         NEW new \in [Ids -> Entries \union {Invalid}],
         NEW r \in Splices(old, new)
  PROVE  r \in [Ids -> Entries \union {Invalid}]
<1>1. ASSUME NEW i \in Ids
      PROVE  SplicedEntry(old, new, i) \subseteq Entries \union {Invalid}
  <2>1. /\ new[i] \in Entries \union {Invalid}
        /\ old[i] \in Entries \union {Invalid}
    OBVIOUS
  <2>2. ASSUME new[i] \in Defs, NEW j \in Ids, old[j] \in Defs
        PROVE  [new[i] EXCEPT !.password = old[j].password] \in Entries
    BY <2>1, <2>2 DEF Entries, Defs
  <2>. QED
    BY <2>1, <2>2 DEF SplicedEntry, Entries
<1>2. /\ r \in [Ids -> UNION {SplicedEntry(old, new, i) : i \in Ids}]
      /\ \A i \in Ids : r[i] \in SplicedEntry(old, new, i)
  BY DEF Splices
<1>. QED
  BY <1>1, <1>2

(* What a write leaves in the file, torn or whole, is a file.              *)
LEMMA WrittenType ==
  ASSUME NEW f \in Files, NEW new \in [Ids -> Entries \union {Invalid}]
  PROVE  Written(f, new) \subseteq Files
<1>1. Text(new) \in Files
  BY DEF Text, Files
<1>2. Garbage \in Files
  BY DEF Garbage, Files, NoSources, Entries
<1>3. ASSUME NEW r \in Splices(f.entries, new)
      PROVE  Text(r) \in Files
  BY SplicesType DEF Text, Files
<1>. QED
  BY <1>1, <1>2, <1>3 DEF Written, Files

-----------------------------------------------------------------------------
(* Type correctness.                                                       *)

(* The first state is well typed.                                          *)
LEMMA TypeInit == Init => TypeOK
<1> SUFFICES ASSUME Init PROVE TypeOK
  OBVIOUS
<1>1. PICK e \in FirstFiles : file = Text(e)
  BY DEF Init
<1>2. [rev : {0}, password : {0, Blank}] \subseteq Defs
  BY BoundsAssumption DEF Defs, Passwords, Revs
<1>3. e \in [Ids -> Entries \union {Invalid}]
  BY <1>2, FirstFilesAssumption DEF FirstEntries, Entries
<1>4. file \in Files /\ file.entries = e
  BY <1>1, <1>3 DEF Files, Text
<1>5. last \in Registry
  BY <1>3, <1>4, NormalizedType DEF Init
<1>6. snapshot \in [Threads -> Registry]
  BY DEF Init, NoSources, Registry, Entries
<1>7. /\ pc \in [Threads -> {"idle", "load", "insert", "have", "write", "clear"}]
      /\ request \in [Threads -> Edits \union {Reading}]
      /\ nextRev \in Revs /\ crashes \in 0 .. MaxCrashes
      /\ cache = {} /\ jsonMode \in BOOLEAN
      /\ kept \in SUBSET Ids /\ undisturbed \in BOOLEAN
      /\ unprotected \in SUBSET Ids
  BY BoundsAssumption DEF Init, Revs, Unprotected
<1>. QED
  BY <1>4, <1>5, <1>6, <1>7 DEF TypeOK

(* The part of a handler's beginning that all three kinds share.           *)
LEMMA GetRegistryType ==
  ASSUME TypeOK, NEW t \in Threads, GetRegistry(t)
  PROVE  /\ snapshot' \in [Threads -> Registry]
         /\ pc' \in [Threads ->
                       {"idle", "load", "insert", "have", "write", "clear"}]
BY DEF TypeOK, GetRegistry

(* A request that ends keeps the types.                                    *)
LEMMA ReturnType ==
  ASSUME TypeOK, NEW t \in Threads, Return(t)
  PROVE  /\ snapshot' \in [Threads -> Registry]
         /\ pc' \in [Threads ->
                       {"idle", "load", "insert", "have", "write", "clear"}]
         /\ request' \in [Threads -> Edits \union {Reading}]
<1>1. NoSources \in Registry
  BY DEF NoSources, Registry, Entries
<1>. QED
  BY <1>1 DEF TypeOK, Return

(* Every step keeps the types, and only edits reach the file.              *)
LEMMA TypeStep == TypeOK /\ WritersEdit /\ [Next]_vars => TypeOK'
<1> SUFFICES ASSUME TypeOK, WritersEdit, [Next]_vars PROVE TypeOK'
  OBVIOUS
<1>1. ASSUME NEW t \in Threads, BeginRead(t) PROVE TypeOK'
  <2>1. UNCHANGED <<jsonMode, file, cache, crashes, last, nextRev, kept,
                    unprotected>>
    BY <1>1 DEF BeginRead, GetRegistry
  <2>2. /\ request' \in [Threads -> Edits \union {Reading}]
        /\ undisturbed' \in BOOLEAN
    BY <1>1 DEF BeginRead, TypeOK
  <2>. QED
    BY <1>1, <2>1, <2>2, GetRegistryType DEF BeginRead, TypeOK
<1>2. ASSUME NEW t \in Threads, NEW i \in Ids, NEW blank \in BOOLEAN,
             NEW complete \in BOOLEAN, BeginSave(t, i, blank, complete)
      PROVE  TypeOK'
  <2>1. UNCHANGED <<jsonMode, file, cache, crashes, last, unprotected>>
    BY <1>2 DEF BeginSave, GetRegistry
  <2>2. nextRev + 1 \in Revs
    BY <1>2, BoundsAssumption DEF BeginSave, TypeOK, Revs
  <2>3. /\ request' \in [Threads -> Edits \union {Reading}]
        /\ nextRev' \in Revs
        /\ kept' \in SUBSET Ids
        /\ undisturbed' \in BOOLEAN
    BY <1>2, <2>2 DEF BeginSave, TypeOK, Edits
  <2>. QED
    BY <1>2, <2>1, <2>3, GetRegistryType DEF BeginSave, TypeOK
<1>3. ASSUME NEW t \in Threads, NEW i \in Ids, BeginDelete(t, i)
      PROVE  TypeOK'
  <2>1. UNCHANGED <<jsonMode, file, cache, crashes, last, unprotected>>
    BY <1>3 DEF BeginDelete, GetRegistry
  <2>2. /\ request' \in [Threads -> Edits \union {Reading}]
        /\ nextRev' \in Revs
        /\ kept' \in SUBSET Ids
        /\ undisturbed' \in BOOLEAN
    BY <1>3, BoundsAssumption DEF BeginDelete, TypeOK, Edits, Revs
  <2>. QED
    BY <1>3, <2>1, <2>2, GetRegistryType DEF BeginDelete, TypeOK
<1>4. ASSUME NEW t \in Threads, LoadFile(t) PROVE TypeOK'
  <2>1. UNCHANGED <<jsonMode, file, cache, nextRev, crashes, last, kept,
                    undisturbed, unprotected>>
    BY <1>4 DEF LoadFile
  <2>2. CASE Readable(file)
    <3>1. Normalized(file.entries) \in Registry
      BY NormalizedType DEF TypeOK, Files
    <3>. QED
      BY <1>4, <2>1, <2>2, <3>1 DEF LoadFile, TypeOK
  <2>3. CASE ~Readable(file)
    BY <1>4, <2>1, <2>3, ReturnType DEF LoadFile, TypeOK
  <2>. QED
    BY <2>2, <2>3
<1>5. ASSUME NEW t \in Threads, InsertIntoCache(t) PROVE TypeOK'
  BY <1>5 DEF InsertIntoCache, Inserted, TypeOK
<1>6. ASSUME NEW t \in Threads, Answer(t) PROVE TypeOK'
  BY <1>6, ReturnType DEF Answer, TypeOK
<1>7. ASSUME NEW t \in Threads, OpenFile(t) PROVE TypeOK'
  <2>1. Empty \in Files
    BY DEF Empty, Files, NoSources, Entries
  <2>. QED
    BY <1>7, <2>1 DEF OpenFile, TypeOK
<1>8. ASSUME NEW t \in Threads, WriteText(t) PROVE TypeOK'
  <2>1. request[t] \in Edits
    BY <1>8 DEF WriteText, WritersEdit
  <2>2. /\ Edited(snapshot[t], request[t]) \in [Ids -> Entries \union {Invalid}]
        /\ Normalized(Edited(last, request[t])) \in Registry
    BY <2>1, EditedType, NormalizedType DEF TypeOK
  <2>3. file' \in Files
    BY <1>8, <2>2, WrittenType DEF WriteText, TypeOK
  <2>4. unprotected' \in SUBSET Ids
    BY <1>8 DEF WriteText, TypeOK
  <2>5. NoSources \in Registry
    BY DEF NoSources, Registry, Entries
  <2>. QED
    BY <1>8, <2>2, <2>3, <2>4, <2>5 DEF WriteText, TypeOK
<1>9. ASSUME NEW t \in Threads, ClearCache(t) PROVE TypeOK'
  BY <1>9, ReturnType DEF ClearCache, EmptiedCache, TypeOK
<1>12. ASSUME NEW t \in Threads, WriteFails(t) PROVE TypeOK'
  BY <1>12, ReturnType DEF WriteFails, TypeOK
<1>10. CASE Restart
  <2>1. NoSources \in Registry
    BY DEF NoSources, Registry, Entries
  <2>2. crashes' \in 0 .. MaxCrashes
    BY <1>10, BoundsAssumption DEF Restart, TypeOK
  <2>. QED
    BY <1>10, <2>1, <2>2 DEF Restart, TypeOK
<1>11. CASE UNCHANGED vars
  BY <1>11 DEF vars, code, TypeOK
<1>. QED
  BY <1>1, <1>2, <1>3, <1>4, <1>5, <1>6, <1>7, <1>8, <1>9, <1>10, <1>11,
     <1>12 DEF Next

(* Only OpenFile leads to the writing steps, past the refusals of Answer.  *)
LEMMA WritersEditStep == TypeOK /\ WritersEdit /\ [Next]_vars => WritersEdit'
<1> SUFFICES ASSUME TypeOK, WritersEdit, [Next]_vars, NEW u \in Threads
             PROVE  /\ pc'[u] \in {"write", "clear"} => request'[u] \in Edits
                    /\ pc'[u] = "write" => ~Rejected(snapshot'[u], request'[u])
  BY DEF WritersEdit, Rejected
<1> USE DEF WritersEdit
<1>1. ASSUME NEW t \in Threads, GetRegistry(t), pc[t] = "idle",
             \A v \in Threads \ {t} : request'[v] = request[v]
      PROVE  /\ pc'[u] \in {"write", "clear"} => request'[u] \in Edits
             /\ pc'[u] = "write" => ~Rejected(snapshot'[u], request'[u])
  BY <1>1 DEF GetRegistry, TypeOK
<1>2. ASSUME NEW t \in Threads, Return(t)
      PROVE  /\ pc'[u] \in {"write", "clear"} => request'[u] \in Edits
             /\ pc'[u] = "write" => ~Rejected(snapshot'[u], request'[u])
  BY <1>2 DEF Return, TypeOK
<1>3. ASSUME NEW t \in Threads, BeginRead(t) \/ (\E i \in Ids : BeginDelete(t, i))
                 \/ (\E i \in Ids, b, c \in BOOLEAN : BeginSave(t, i, b, c))
      PROVE  /\ GetRegistry(t)
             /\ pc[t] = "idle"
             /\ \A v \in Threads \ {t} : request'[v] = request[v]
  BY <1>3 DEF BeginRead, BeginDelete, BeginSave, TypeOK
<1>4. ASSUME NEW t \in Threads,
             \/ LoadFile(t) \/ InsertIntoCache(t) \/ Answer(t)
             \/ ClearCache(t) \/ WriteFails(t)
      PROVE  /\ pc'[u] \in {"write", "clear"} => request'[u] \in Edits
             /\ pc'[u] = "write" => ~Rejected(snapshot'[u], request'[u])
  BY <1>2, <1>4 DEF LoadFile, InsertIntoCache, Answer, ClearCache,
                        WriteFails, TypeOK
<1>5. ASSUME NEW t \in Threads, OpenFile(t) \/ WriteText(t)
      PROVE  /\ pc'[u] \in {"write", "clear"} => request'[u] \in Edits
             /\ pc'[u] = "write" => ~Rejected(snapshot'[u], request'[u])
  BY <1>5 DEF OpenFile, WriteText, TypeOK, Reading
<1>6. CASE Restart
  BY <1>6 DEF Restart
<1>7. CASE UNCHANGED vars
  BY <1>7 DEF vars, code
<1>. QED
  BY <1>1, <1>3, <1>4, <1>5, <1>6, <1>7 DEF Next

(* Every reachable state is well typed.                                    *)
THEOREM TypeCorrect == Spec => [](TypeOK /\ WritersEdit)
<1>1. Init => TypeOK /\ WritersEdit
  BY TypeInit DEF Init, WritersEdit
<1>2. TypeOK /\ WritersEdit /\ [Next]_vars => (TypeOK /\ WritersEdit)'
  BY TypeStep, WritersEditStep
<1>. QED
  BY <1>1, <1>2, PTL DEF Spec

-----------------------------------------------------------------------------
(* No password is taken away.                                              *)

(* An edit fills in the stored password, so only a source that had none is *)
(* left without one.                                                       *)
LEMMA EditedProtected ==
  ASSUME NEW r \in Registry, NEW q \in Edits, ~Rejected(r, q), Protected(r)
  PROVE  Protected(Edited(r, q))
<1>1. q.kind = "save" /\ ToSourceDefinition(r[q.id], q).password = Blank
        => q.id \in unprotected
  <2>1. q.rev # Blank
    BY MarkersAssumption, BoundsAssumption DEF Edits, Revs
  <2>2. q.kind = "save" /\ q.blank => r[q.id] # Absent
    BY DEF Rejected
  <2>3. r[q.id] # Absent => r[q.id] \in Defs
    BY DEF Registry, Entries, Edits
  <2>4. r[q.id] # Absent /\ r[q.id].password = Blank => q.id \in unprotected
    BY <2>3 DEF Protected, Unprotected, Edits
  <2>. QED
    BY <2>1, <2>2, <2>4 DEF ToSourceDefinition, Edits
<1>2. /\ q.kind \in {"save", "delete"} /\ q.complete \in BOOLEAN
      /\ Absent \notin Defs /\ Invalid \notin Defs
  BY MarkersAssumption DEF Edits, Entries
<1>3. ASSUME NEW i \in Ids, i # q.id
      PROVE  Edited(r, q)[i] = r[i]
  BY <1>3 DEF Edited, Registry
<1>4. Edited(r, q)[q.id] \in {Absent, Invalid}
        \/ (q.kind = "save" /\ Edited(r, q)[q.id] = ToSourceDefinition(r[q.id], q))
  BY <1>2 DEF Edited, Registry, Edits
<1>5. ASSUME NEW i \in Ids, Edited(r, q)[i] \in Defs,
             Edited(r, q)[i].password = Blank
      PROVE  i \in unprotected
  <2>1. CASE i = q.id
    BY <1>1, <1>2, <1>4, <1>5, <2>1
  <2>2. CASE i # q.id
    BY <1>3, <1>5, <2>2 DEF Protected, Unprotected
  <2>. QED
    BY <2>1, <2>2
<1>. QED
  BY <1>5 DEF Protected, Unprotected

(* The registry without sources has no source without a password.          *)
LEMMA NoSourcesProtected == Protected(NoSources)
BY MarkersAssumption DEF Protected, Unprotected, NoSources

(* A write leaves no password out; torn, it may put a blank one in another *)
(* entry, if there was one.                                                *)
LEMMA WrittenProtected ==
  ASSUME NEW f \in Files, NEW new \in [Ids -> Entries \union {Invalid}],
         NEW g \in Written(f, new),
         Protected(f.entries), Protected(new),
         f.state = "text" => unprotected = {}
  PROVE  Protected(g.entries)
<1>1. ASSUME NEW r \in Splices(f.entries, new), unprotected = {}
      PROVE  Protected(r)
  <2> SUFFICES ASSUME NEW i \in Ids, r[i] \in Defs
               PROVE  r[i].password # Blank
    BY <1>1 DEF Protected, Unprotected
  <2>1. r[i] \in SplicedEntry(f.entries, new, i)
    BY DEF Splices
  <2>2. \A k \in Ids : /\ new[k] \in Defs => new[k].password # Blank
                       /\ f.entries[k] \in Defs => f.entries[k].password # Blank
    BY <1>1 DEF Protected, Unprotected
  <2>3. CASE r[i] \in {new[i], f.entries[i]}
    BY <2>2, <2>3
  <2>4. CASE r[i] = Absent
    BY <2>4, MarkersAssumption
  <2>5. ASSUME NEW j \in Ids, f.entries[j] \in Defs, new[i] \in Defs,
               r[i] = [new[i] EXCEPT !.password = f.entries[j].password]
        PROVE  r[i].password # Blank
    <3>1. r[i].password = f.entries[j].password
      BY <2>5 DEF Defs
    <3>. QED
      BY <2>2, <2>5, <3>1
  <2>. QED
    BY <2>1, <2>3, <2>4, <2>5 DEF SplicedEntry
<1>2. Protected(Text(new).entries)
  BY DEF Text
<1>3. Protected(Garbage.entries)
  BY NoSourcesProtected DEF Garbage
<1>4. ASSUME unprotected = {}, NEW r \in Splices(f.entries, new)
      PROVE  Protected(Text(r).entries)
  BY <1>1, <1>4 DEF Text
<1>. QED
  BY <1>2, <1>3, <1>4 DEF Written, Files

(* Reading a file back takes no password away.                             *)
LEMMA NormalizedProtected ==
  ASSUME NEW f \in Files, Protected(f.entries)
  PROVE  Protected(Normalized(f.entries))
BY MarkersAssumption DEF Protected, Unprotected, Normalized

(* No request, whatever it overlaps, takes a source's password away or     *)
(* stores a new source without one.                                        *)
THEOREM PasswordsKept == Spec => []PasswordsStay
<1>1. Init => PasswordsStay
  <2> SUFFICES ASSUME Init PROVE PasswordsStay
    OBVIOUS
  <2>1. Protected(file.entries)
    BY DEF Init, Protected
  <2>. QED
    BY <2>1, NoSourcesProtected DEF Init, PasswordsStay
<1>2. TypeOK /\ WritersEdit /\ PasswordsStay /\ [Next]_vars => PasswordsStay'
  <2> SUFFICES ASSUME TypeOK, WritersEdit, PasswordsStay, [Next]_vars
               PROVE  PasswordsStay'
    OBVIOUS
  <2> USE DEF PasswordsStay
  <2>0. ASSUME unprotected' = unprotected, NEW e
        PROVE  Protected(e)' <=> Protected(e')
    BY <2>0 DEF Protected, Unprotected
  <2>1. ASSUME NEW t \in Threads, GetRegistry(t) PROVE PasswordsStay'
    BY <2>1 DEF GetRegistry, TypeOK, Protected
  <2>2. ASSUME NEW t \in Threads, Return(t), UNCHANGED <<file, unprotected>>,
               cache' \in {cache, {}}
        PROVE  PasswordsStay'
    BY <2>2, NoSourcesProtected DEF Return, TypeOK, Protected
  <2>3. ASSUME NEW t \in Threads, LoadFile(t) PROVE PasswordsStay'
    <3>1. Protected(Normalized(file.entries))
      BY NormalizedProtected DEF TypeOK
    <3>. QED
      BY <2>2, <2>3, <3>1 DEF LoadFile, TypeOK, Protected
  <2>4. ASSUME NEW t \in Threads, InsertIntoCache(t) PROVE PasswordsStay'
    BY <2>4 DEF InsertIntoCache, Inserted, Protected
  <2>5. ASSUME NEW t \in Threads, OpenFile(t) PROVE PasswordsStay'
    BY <2>5, NoSourcesProtected DEF OpenFile, Empty, Protected
  <2>6. ASSUME NEW t \in Threads, WriteText(t) PROVE PasswordsStay'
    <3>1. /\ request[t] \in Edits
          /\ ~Rejected(snapshot[t], request[t])
      BY <2>6 DEF WriteText, WritersEdit
    <3>2. /\ Edited(snapshot[t], request[t]) \in [Ids -> Entries \union {Invalid}]
          /\ Protected(Edited(snapshot[t], request[t]))
      BY <3>1, EditedType, EditedProtected DEF TypeOK
    <3>3. CASE file.state = "text" /\ unprotected # {}
      BY <2>6, <3>3 DEF WriteText, Protected, Unprotected
    <3>4. CASE ~(file.state = "text" /\ unprotected # {})
      <4>1. Protected(file'.entries)
        BY <2>6, <3>2, <3>4, WrittenProtected DEF WriteText, TypeOK
      <4>2. unprotected' = unprotected
        BY <2>6, <3>4 DEF WriteText
      <4>. QED
        BY <2>6, <4>1, <4>2, NoSourcesProtected
           DEF WriteText, TypeOK, Protected
    <3>. QED
      BY <3>3, <3>4
  <2>7. CASE Restart
    BY <2>7, NoSourcesProtected DEF Restart, Protected
  <2>8. CASE UNCHANGED vars
    BY <2>8 DEF vars, code, Protected
  <2>. QED
    BY <2>1, <2>2, <2>3, <2>4, <2>5, <2>6, <2>7, <2>8
       DEF Next, BeginRead, BeginSave, BeginDelete, GetRegistry, Answer,
           WriteFails, ClearCache, EmptiedCache
<1>. QED
  BY <1>1, <1>2, TypeCorrect, PTL DEF Spec

-----------------------------------------------------------------------------
(* Nothing disappears unasked.                                             *)

(* An edit removes no source but the one it is asked to delete.            *)
LEMMA EditedKept ==
  ASSUME NEW r \in Registry, NEW q \in Edits, HasKept(r), kept \subseteq Ids,
         Removes(q) => q.id \notin kept
  PROVE  HasKept(Edited(r, q))
<1>1. r[q.id] \in Entries
  BY DEF Registry, Edits
<1>2. ToSourceDefinition(r[q.id], q) \in Defs
  BY <1>1, DefinitionType
<1>. QED
  BY <1>2 DEF HasKept, Edited, Registry, Edits, Removes

(* A file that still parses after a write, torn or whole, has every source *)
(* to be kept.                                                             *)
LEMMA WrittenKept ==
  ASSUME NEW f \in Files, NEW new \in [Ids -> Entries \union {Invalid}],
         NEW g \in Written(f, new),
         f.state = "text" => HasKept(f.entries), HasKept(new),
         kept \subseteq Ids
  PROVE  g.state = "text" => HasKept(g.entries)
<1>1. ASSUME NEW r \in Splices(f.entries, new), f.state = "text"
      PROVE  HasKept(r)
  <2> SUFFICES ASSUME NEW i \in kept PROVE r[i] \in Defs
    BY DEF HasKept
  <2>1. r[i] \in SplicedEntry(f.entries, new, i)
    BY DEF Splices
  <2>2. new[i] \in Defs /\ new[i] # Absent /\ f.entries[i] \in Defs
    BY <1>1, MarkersAssumption DEF HasKept
  <2>3. ASSUME NEW j \in Ids, f.entries[j] \in Defs
        PROVE  [new[i] EXCEPT !.password = f.entries[j].password] \in Defs
    BY <2>2, <2>3 DEF Defs
  <2>. QED
    BY <2>1, <2>2, <2>3 DEF SplicedEntry
<1>2. HasKept(Text(new).entries)
  BY DEF Text
<1>3. Garbage.state # "text"
  BY DEF Garbage
<1>4. ASSUME f.state = "text", NEW r \in Splices(f.entries, new)
      PROVE  HasKept(Text(r).entries)
  BY <1>1, <1>4 DEF Text
<1>. QED
  BY <1>2, <1>3, <1>4 DEF Written, Files

(* Reading a file back loses no source.                                    *)
LEMMA NormalizedKept ==
  ASSUME NEW e, HasKept(e), kept \subseteq Ids
  PROVE  HasKept(Normalized(e))
BY MarkersAssumption DEF HasKept, Normalized, Entries

(* A source once asked to be removed is never again among those to be      *)
(* kept.                                                                   *)
LEMMA RemovalsNamedStep ==
  TypeOK /\ RemovalsNamed /\ [Next]_vars => RemovalsNamed'
<1> SUFFICES ASSUME TypeOK, RemovalsNamed, [Next]_vars, NEW u \in Threads
             PROVE  Removes(request'[u]) => request'[u].id \notin kept'
  BY DEF RemovalsNamed, Removes
<1> USE DEF RemovalsNamed, Removes, Reading
<1>1. ASSUME NEW t \in Threads, BeginRead(t)
      PROVE  Removes(request'[u]) => request'[u].id \notin kept'
  BY <1>1 DEF BeginRead, TypeOK
<1>2. ASSUME NEW t \in Threads, NEW i \in Ids, NEW b \in BOOLEAN,
             NEW c \in BOOLEAN, BeginSave(t, i, b, c)
      PROVE  Removes(request'[u]) => request'[u].id \notin kept'
  BY <1>2 DEF BeginSave, TypeOK
<1>3. ASSUME NEW t \in Threads, NEW i \in Ids, BeginDelete(t, i)
      PROVE  Removes(request'[u]) => request'[u].id \notin kept'
  BY <1>3 DEF BeginDelete, TypeOK
<1>4. ASSUME NEW t \in Threads, Return(t) \/ request' = request, kept' = kept
      PROVE  Removes(request'[u]) => request'[u].id \notin kept'
  BY <1>4 DEF Return, TypeOK
<1>5. CASE Restart
  BY <1>5 DEF Restart
<1>6. CASE UNCHANGED vars
  BY <1>6 DEF vars, code
<1>. QED
  BY <1>1, <1>2, <1>3, <1>4, <1>5, <1>6
     DEF Next, LoadFile, InsertIntoCache, Answer, OpenFile, WriteText,
         WriteFails, ClearCache

(* Whatever the interleaving, a source nobody asked to delete, or saved    *)
(* with a blank required field, stays in every readable file and in every  *)
(* registry in use.                                                        *)
THEOREM NothingLostUnasked == Spec => []OnlyDeletesRemove
<1>1. Init => OnlyDeletesRemove /\ RemovalsNamed
  <2> SUFFICES ASSUME Init PROVE OnlyDeletesRemove /\ RemovalsNamed
    OBVIOUS
  <2>1. TypeOK
    BY TypeInit
  <2>2. \A i \in kept : file.entries[i] \in Defs
    BY <2>1 DEF TypeOK, Init, Normalized, Files, Entries
  <2>. QED
    BY <2>2 DEF Init, OnlyDeletesRemove, RemovalsNamed, HasKept, Loaded,
               Reading, Removes
<1>2. /\ TypeOK /\ WritersEdit /\ RemovalsNamed
      /\ OnlyDeletesRemove
      /\ [Next]_vars
      => OnlyDeletesRemove'
  <2> SUFFICES ASSUME TypeOK, WritersEdit, RemovalsNamed, OnlyDeletesRemove,
                      [Next]_vars
               PROVE  OnlyDeletesRemove'
    OBVIOUS
  <2> USE DEF OnlyDeletesRemove, Loaded
  <2>0. kept \subseteq Ids
    BY DEF TypeOK
  <2>1. ASSUME NEW t \in Threads, GetRegistry(t), kept' \subseteq kept
        PROVE  OnlyDeletesRemove'
    BY <2>1 DEF GetRegistry, TypeOK, HasKept
  <2>2. ASSUME NEW t \in Threads, Return(t), UNCHANGED <<file, kept>>,
               cache' \in {cache, {}}
        PROVE  OnlyDeletesRemove'
    BY <2>2 DEF Return, TypeOK, HasKept
  <2>3. ASSUME NEW t \in Threads, LoadFile(t) PROVE OnlyDeletesRemove'
    <3>1. Readable(file) => HasKept(Normalized(file.entries))
      BY <2>0, NormalizedKept DEF Readable
    <3>. QED
      BY <2>2, <2>3, <3>1 DEF LoadFile, TypeOK, HasKept
  <2>4. ASSUME NEW t \in Threads, InsertIntoCache(t) PROVE OnlyDeletesRemove'
    BY <2>4 DEF InsertIntoCache, Inserted, TypeOK, HasKept
  <2>5. ASSUME NEW t \in Threads, OpenFile(t) PROVE OnlyDeletesRemove'
    BY <2>5 DEF OpenFile, Empty, TypeOK, HasKept
  <2>6. ASSUME NEW t \in Threads, WriteText(t) PROVE OnlyDeletesRemove'
    <3>1. request[t] \in Edits
      BY <2>6 DEF WriteText, WritersEdit
    <3>2. /\ Edited(snapshot[t], request[t]) \in [Ids -> Entries \union {Invalid}]
          /\ HasKept(Edited(snapshot[t], request[t]))
      BY <2>0, <2>6, <3>1, EditedType, EditedKept
         DEF WriteText, TypeOK, RemovalsNamed
    <3>3. file'.state = "text" => HasKept(file'.entries)
      BY <2>0, <2>6, <3>2, WrittenKept DEF WriteText, TypeOK
    <3>. QED
      BY <2>6, <3>3 DEF WriteText, TypeOK, HasKept
  <2>7. CASE Restart
    BY <2>7 DEF Restart, HasKept
  <2>8. CASE UNCHANGED vars
    BY <2>8 DEF vars, code, HasKept
  <2>9. ASSUME NEW t \in Threads, BeginRead(t) \/ (\E i \in Ids : BeginDelete(t, i))
                 \/ (\E i \in Ids, b, c \in BOOLEAN : BeginSave(t, i, b, c))
        PROVE  GetRegistry(t) /\ kept' \subseteq kept
    BY <2>9 DEF BeginRead, BeginDelete, BeginSave
  <2>10. ASSUME NEW t \in Threads, WriteFails(t) PROVE OnlyDeletesRemove'
    BY <2>2, <2>10 DEF WriteFails
  <2>. QED
    BY <2>1, <2>2, <2>3, <2>4, <2>5, <2>6, <2>7, <2>8, <2>9,
       <2>10 DEF Next, Answer, ClearCache, EmptiedCache
<1>. QED
  BY <1>1, <1>2, RemovalsNamedStep, TypeCorrect, PTL DEF Spec

-----------------------------------------------------------------------------
(* Serial edits are exact.                                                 *)

(* While no two requests overlap, an edit runs alone and its truncated     *)
(* file is its own.                                                        *)
LEMMA EditsAloneStep ==
  TypeOK /\ WritersEdit /\ EditsAlone /\ [Next]_vars => EditsAlone'
<1> SUFFICES ASSUME TypeOK, WritersEdit, EditsAlone, [Next]_vars
             PROVE  EditsAlone'
  OBVIOUS
<1> USE DEF EditsAlone, Editing
<1>1. ASSUME NEW t \in Threads, BeginRead(t) PROVE EditsAlone'
  <2>1. pc' = [pc EXCEPT ![t] = pc'[t]] /\ pc'[t] \in {"have", "load"}
    BY <1>1 DEF BeginRead, GetRegistry, TypeOK
  <2>2. /\ undisturbed' => undisturbed /\ \A u \in Threads : ~Editing(u)
        /\ file' = file
    BY <1>1 DEF BeginRead, GetRegistry
  <2>3. /\ request'[t].kind = "read"
        /\ \A u \in Threads \ {t} : request'[u] = request[u] /\ pc'[u] = pc[u]
    BY <1>1, <2>1 DEF BeginRead, TypeOK, Reading
  <2>4. undisturbed' => \A u \in Threads : ~Editing(u)'
    BY <2>2, <2>3
  <2>. QED
    BY <2>1, <2>2, <2>3, <2>4
<1>2. ASSUME NEW t \in Threads, Active = {},
             (\E i \in Ids : BeginDelete(t, i))
               \/ (\E i \in Ids, b, c \in BOOLEAN : BeginSave(t, i, b, c))
      PROVE  EditsAlone'
  <2>1. \A u \in Threads : pc[u] = "idle"
    BY <1>2 DEF Active
  <2>2. pc' = [pc EXCEPT ![t] = pc'[t]] /\ pc'[t] \in {"have", "load"}
    BY <1>2 DEF BeginSave, BeginDelete, GetRegistry, TypeOK
  <2>. QED
    BY <2>1, <2>2 DEF TypeOK
<1>3. ASSUME NEW t \in Threads, Active # {},
             (\E i \in Ids : BeginDelete(t, i))
               \/ (\E i \in Ids, b, c \in BOOLEAN : BeginSave(t, i, b, c))
      PROVE  EditsAlone'
  BY <1>3 DEF BeginSave, BeginDelete
<1>4. ASSUME NEW t \in Threads, Return(t), UNCHANGED <<file, undisturbed>>
      PROVE  EditsAlone'
  BY <1>4 DEF Return, TypeOK, Reading
<1>5. ASSUME NEW t \in Threads, LoadFile(t) \/ InsertIntoCache(t)
      PROVE  EditsAlone'
  <2>1. CASE LoadFile(t)
    BY <1>4, <2>1 DEF LoadFile, TypeOK
  <2>2. CASE InsertIntoCache(t)
    BY <1>4, <2>2 DEF InsertIntoCache, TypeOK
  <2>. QED
    BY <1>5, <2>1, <2>2
<1>6. ASSUME NEW t \in Threads, OpenFile(t) PROVE EditsAlone'
  BY <1>6 DEF OpenFile, Empty, TypeOK
<1>7. ASSUME NEW t \in Threads, WriteText(t) PROVE EditsAlone'
  <2>1. request[t].kind # "read"
    BY <1>7 DEF WriteText, WritersEdit, Edits
  <2>. QED
    BY <1>7, <2>1 DEF WriteText, TypeOK
<1>8. CASE Restart
  BY <1>8 DEF Restart
<1>9. CASE UNCHANGED vars
  BY <1>9 DEF vars, code
<1>10. ASSUME NEW t \in Threads, WriteFails(t) PROVE EditsAlone'
  BY <1>10 DEF WriteFails
<1>. QED
  BY <1>1, <1>2, <1>3, <1>4, <1>5, <1>6, <1>7, <1>8, <1>9, <1>10
     DEF Next, Answer, ClearCache

(* While no two requests overlap and no write is torn, every step keeps    *)
(* file, cache and edits in agreement.                                     *)
LEMMA SerialStep ==
  TypeOK /\ WritersEdit /\ EditsAlone /\ SerialEditsExact /\ [Next]_vars
    => SerialEditsExact'
<1> SUFFICES ASSUME TypeOK, WritersEdit, EditsAlone, SerialEditsExact,
                    [Next]_vars, undisturbed'
             PROVE  SerialEditsExact'
  BY DEF SerialEditsExact
<1>1. undisturbed
  BY DEF Next, BeginRead, BeginSave, BeginDelete, LoadFile, InsertIntoCache,
         Answer, OpenFile, WriteText, WriteFails, ClearCache, Restart, vars
<1>2. \A t \in Threads : pc[t] \in {"write", "clear"} => Editing(t)
  BY DEF WritersEdit, Editing, Edits
<1> USE <1>1 DEF SerialEditsExact, Loaded
<1>3. ASSUME NEW t \in Threads, GetRegistry(t), UNCHANGED <<file, last>>,
             pc[t] = "idle",
             \A u \in Threads : pc[u] \notin {"write", "clear"}
      PROVE  SerialEditsExact'
  BY <1>3 DEF GetRegistry, TypeOK
<1>4. ASSUME NEW t \in Threads, BeginRead(t) \/ (\E i \in Ids : BeginDelete(t, i))
                 \/ (\E i \in Ids, b, c \in BOOLEAN : BeginSave(t, i, b, c))
      PROVE  /\ GetRegistry(t)
             /\ UNCHANGED <<file, last>>
             /\ pc[t] = "idle"
             /\ \A u \in Threads : pc[u] \notin {"write", "clear"}
  BY <1>2, <1>4 DEF BeginRead, BeginDelete, BeginSave, GetRegistry, Active
<1>5. ASSUME NEW t \in Threads, pc[t] \in {"load", "insert", "have"}
      PROVE  \A u \in Threads : pc[u] \notin {"write", "clear"}
  BY <1>2, <1>5 DEF EditsAlone
<1>6. ASSUME NEW t \in Threads, Return(t), UNCHANGED <<file, cache, last>>,
             pc[t] \in {"load", "have"}
      PROVE  SerialEditsExact'
  BY <1>5, <1>6 DEF Return, TypeOK
<1>7. ASSUME NEW t \in Threads, LoadFile(t) PROVE SerialEditsExact'
  BY <1>5, <1>6, <1>7 DEF LoadFile, TypeOK
<1>8. ASSUME NEW t \in Threads, InsertIntoCache(t) PROVE SerialEditsExact'
  BY <1>5, <1>8 DEF InsertIntoCache, Inserted, TypeOK
<1>9. ASSUME NEW t \in Threads, OpenFile(t) PROVE SerialEditsExact'
  BY <1>5, <1>9 DEF OpenFile, TypeOK
<1>10. ASSUME NEW t \in Threads, WriteText(t) PROVE SerialEditsExact'
  <2>1. /\ request[t] \in Edits
        /\ \A u \in Threads \ {t} : pc[u] = "idle"
        /\ file.state = "empty"
        /\ snapshot[t] = last
    BY <1>2, <1>10 DEF WriteText, WritersEdit, EditsAlone
  <2>3. file' = Text(Edited(last, request[t]))
    BY <1>10, <2>1 DEF WriteText, Written
  <2>4. file'.state = "text" /\ Normalized(file'.entries) = last'
    BY <1>10, <2>3 DEF WriteText, Text
  <2>. QED
    BY <1>10, <2>1, <2>4 DEF WriteText, TypeOK
<1>11. ASSUME NEW t \in Threads, ClearCache(t) PROVE SerialEditsExact'
  <2>1. \A u \in Threads \ {t} : pc[u] = "idle"
    BY <1>2, <1>11 DEF ClearCache, EditsAlone
  <2>. QED
    BY <1>11, <2>1 DEF ClearCache, EmptiedCache, Return, TypeOK
<1>12. CASE Restart
  BY <1>12 DEF Restart
<1>13. CASE UNCHANGED vars
  BY <1>13 DEF vars, code
<1>15. ASSUME NEW t \in Threads, WriteFails(t) PROVE FALSE
  BY <1>15 DEF WriteFails
<1>14. ASSUME NEW t \in Threads, Answer(t) PROVE SerialEditsExact'
  BY <1>6, <1>14 DEF Answer
<1>. QED
  BY <1>3, <1>4, <1>7, <1>8, <1>9, <1>10, <1>11, <1>12, <1>13, <1>14,
     <1>15 DEF Next

(* Without overlaps and torn writes the file holds exactly the completed   *)
(* edits, and every request works on the file's registry.                  *)
THEOREM SerialEdits == Spec => []SerialEditsExact
<1>1. Init => SerialEditsExact /\ EditsAlone
  BY DEF Init, SerialEditsExact, EditsAlone, Editing, Loaded, Text
<1>. QED
  BY <1>1, EditsAloneStep, SerialStep, TypeCorrect, PTL DEF Spec
=============================================================================
