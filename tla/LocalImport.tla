---------------------------- MODULE LocalImport ----------------------------
(***************************************************************************)
(* scan_local_new_api_sources (app/services/local_import.py): the          *)
(* directories below some roots are searched for .env and docker-compose   *)
(* files, and every configuration in them that is complete is probed and   *)
(* offered as a candidate.  The files are found first and read later, one  *)
(* by one, while they may be edited, and the probes take as long as the    *)
(* servers (SourceProbe) do.                                               *)
(*                                                                         *)
(* Of a configuration, a host, a user and a port stand for all: user for   *)
(* the name, the password and the database.  Directories stay; the files   *)
(* in them come and go.  A name stands for all that are equal in lower     *)
(* case with hyphens for blanks and underscores.                           *)
(***************************************************************************)
EXTENDS SourceProbe, Sequences, FiniteSetsExt

CONSTANTS
  Dirs,        (* directories                                              *)
  Parent,      (* the parent of each, or itself                            *)
  Name,        (* the last part of its path                                *)
  Ignored,     (* those called .git, .venv, node_modules, ...              *)
  Roots,       (* local_import_scan_roots, in order                        *)
  MaxDepth,    (* local_import_max_depth                                   *)
  Files,       (* paths that files may have: <<directory, name>>           *)
  Services,    (* what compose files may say of a service                  *)
  Disks,       (* what the files may hold at the start                     *)
  Edits,       (* what a file may be edited to                             *)
  Uris,        (* what may be given to import_source_uri                   *)
  Missing,     (* the file is not there                                    *)
  Unreadable,  (* a compose file that is no YAML mapping                   *)
  Bad          (* a port that is no number                                 *)

ASSUME DirsAssumption ==
  /\ Parent \in [Dirs -> Dirs]
  /\ Ignored \subseteq Dirs
  /\ Len(Roots) \in Nat /\ DOMAIN Roots = 1 .. Len(Roots)
  /\ MaxDepth \in Nat

EnvFile      == ".env"
ComposeFiles == {"docker-compose.yml", "docker-compose.yaml"}
IsCompose(file) == file[2] \in ComposeFiles

(* Settings, by key, of an .env file or the environment of a service; what *)
(* a file may hold.                                                        *)
IsSettings(m) ==
  /\ m = [key \in DOMAIN m |-> m[key]]
  /\ \A key \in DOMAIN m \intersect {"DB_HOST", "MYSQL_HOST"} : m[key] \in Hosts \union {Blank}
  /\ \A key \in DOMAIN m \intersect {"DB_PORT", "MYSQL_PORT"} : m[key] \in Ports \union {Blank, Bad}
IsContent(file, content) ==
  \/ content = Missing
  \/ IF IsCompose(file) THEN content = Unreadable \/ content \in Seq(Services)
                        ELSE IsSettings(content)
IsDisk(d) == d = [f \in Files |-> d[f]] /\ \A f \in Files : IsContent(f, d[f])

(* The entries of env_file name no compose file.                           *)
EnvPaths == {f \in Files : ~IsCompose(f)}

ASSUME FilesAssumption ==
  /\ \A f \in Files : f = <<f[1], f[2]>> /\ f[1] \in Dirs
  /\ \A s \in Services : IsSettings(s.environment) /\ s.env_file \in Seq(EnvPaths)
  /\ \A d \in Disks : IsDisk(d)
  /\ \A f \in Files : \A content \in Edits[f] : IsContent(f, content)
ASSUME UrisAssumption ==
  \A uri \in Uris : uri.scheme \in Schemes /\ uri.host \in Hosts /\ uri.port \in Ports \union {Blank}

VARIABLES
  disk,        (* external: the content of each file                       *)
  at,          (* where the scan is                                        *)
  root,        (* the number of the root being scanned                     *)
  pending,     (* os.walk: directories to visit, with their depths         *)
  matches,     (* candidate_files                                          *)
  todo,        (* those still to be read                                   *)
  services,    (* services of the compose file still to be looked at       *)
  mapping,     (* env_map                                                  *)
  envFiles,    (* env_file entries still to be read into it                *)
  candidates,  (* the candidates so far                                    *)
  result,      (* dedup: the candidate of each source id                   *)
  (* Auxiliary.                                                            *)
  touched      (* the files edited since the scan began                    *)

walkVars == <<root, pending, matches>>
readVars == <<todo, services, mapping, envFiles>>
scanVars == <<at, walkVars, readVars, candidates, result, touched>>
vars     == <<probeVars, serverVars, disk, scanVars>>

NoSettings == [key \in {} |-> Blank]

Init ==
  /\ ProbeInit
  /\ disk \in Disks
  /\ at = "idle"
  /\ root = 0 /\ pending = {} /\ matches = <<>>
  /\ todo = <<>> /\ services = <<>> /\ mapping = NoSettings /\ envFiles = <<>>
  /\ candidates = <<>>
  /\ result = {}
  /\ touched = {}

-----------------------------------------------------------------------------
(* External: a file is written, replaced or removed.                       *)
Edit(file, content) ==
  /\ changes < MaxChanges
  /\ changes' = changes + 1
  /\ disk' = [disk EXCEPT ![file] = content]
  /\ touched' = touched \union {file}
  /\ UNCHANGED <<probeVars, up, tables, upperCase, garbled, at, walkVars, readVars, candidates, result>>

Unscanned == UNCHANGED <<disk, at, walkVars, readVars, candidates, result, touched>>
Unprobed  == UNCHANGED <<probeVars, serverVars, disk>>

(* A request to check one source: source_health, test_source,              *)
(* import_source_uri.                                                      *)
Scanning == at \notin {"idle", "done", "failed"}
CheckSource(a) == ~Scanning /\ StartProbe(a) /\ UNCHANGED serverVars /\ Unscanned
Checked        == ~Scanning /\ Report /\ UNCHANGED serverVars /\ Unscanned

-----------------------------------------------------------------------------
(* import_local_sources, when enable_local_import is set.                  *)
Start ==
  /\ ~Scanning /\ At("idle")
  /\ at' = "root"
  /\ result' = {}
  /\ touched' = {}
  /\ UNCHANGED <<walkVars, readVars, candidates>>
  /\ Unprobed

(* The scan returns or raises, and its variables are gone.                 *)
Return ==
  /\ root' = 0 /\ pending' = {} /\ matches' = <<>>
  /\ todo' = <<>> /\ services' = <<>> /\ mapping' = NoSettings /\ envFiles' = <<>>
  /\ candidates' = <<>>
  /\ UNCHANGED touched
  /\ Unprobed

(* The next root, unless it does not exist.                                *)
NextRoot ==
  /\ at = "root"
  /\ root < Len(Roots)
  /\ root' = root + 1
  /\ IF Roots[root + 1] \in Dirs
       THEN at' = "walk" /\ pending' = {<<Roots[root + 1], 0>>} /\ matches' = <<>>
       ELSE UNCHANGED <<at, pending, matches>>
  /\ UNCHANGED <<readVars, candidates, result, touched>>
  /\ Unprobed

EntersMutant(d, depth) == d \notin Ignored /\ depth =< MaxDepth
Enters(d, depth) == d \notin Ignored /\ depth < MaxDepth
Below(d, depth) ==
  {<<c, depth + 1>> : c \in {c \in Dirs \ {d} : Parent[c] = d /\ Enters(c, depth)}}

Found(d) ==
  {file \in DOMAIN disk : file[1] = d /\ disk[file] # Missing
                          /\ (file[2] = EnvFile \/ IsCompose(file))}
Listings(F) == Bijection(1 .. Cardinality(F), F)

(* A directory is listed; which of those pending is next is up to the file *)
(* system, and so is the order of the files.                               *)
Visit(d, depth) ==
  /\ at = "walk"
  /\ <<d, depth>> \in pending
  /\ pending' = (pending \ {<<d, depth>>}) \union Below(d, depth)
  /\ \E l \in Listings(Found(d)) : matches' = matches \o l
  /\ UNCHANGED <<at, root, readVars, candidates, result, touched>>
  /\ Unprobed

(* The .env files come before the compose files, and otherwise each before *)
(* those that were found after it.                                         *)
EnvFirst(p) ==
  \A i, j \in DOMAIN p : i < j =>
    \/ ~IsCompose(matches[p[i]]) /\ IsCompose(matches[p[j]])
    \/ (IsCompose(matches[p[i]]) <=> IsCompose(matches[p[j]])) /\ p[i] < p[j]
Walked ==
  /\ at = "walk" /\ pending = {}
  /\ \E p \in [DOMAIN matches -> DOMAIN matches] :
       EnvFirst(p) /\ todo' = [i \in DOMAIN matches |-> matches[p[i]]]
  /\ at' = "read"
  /\ UNCHANGED <<walkVars, services, mapping, envFiles, candidates, result, touched>>
  /\ Unprobed

-----------------------------------------------------------------------------
(* Reading.                                                                *)

(* _parse_env_file: a file that is not there is empty.                     *)
Parsed(file) == IF disk[file] = Missing THEN NoSettings ELSE disk[file]

Setting(m, key) == IF key \in DOMAIN m THEN m[key] ELSE Blank
Or(a, b) == IF a # Blank THEN a ELSE b

(* env_map.update.                                                         *)
UpdatedMutant(m, with) ==
  [key \in DOMAIN m \union DOMAIN with |-> IF key \in DOMAIN m THEN m[key] ELSE with[key]]
Updated(m, with) ==
  [key \in DOMAIN m \union DOMAIN with |-> IF key \in DOMAIN with THEN with[key] ELSE m[key]]

(* _build_source_from_mapping.                                             *)
HostOf(m) == Or(Setting(m, "DB_HOST"), Setting(m, "MYSQL_HOST"))
UserOf(m) == Or(Setting(m, "DB_USER"), Setting(m, "MYSQL_USER"))
PortOf(m) == Or(Or(Setting(m, "DB_PORT"), Setting(m, "MYSQL_PORT")), 3306)
CompleteConfig(m) == HostOf(m) # Blank /\ UserOf(m) # Blank
Address(m) == [driver |-> "mysql", host |-> HostOf(m), port |-> PortOf(m)]

(* The source id: two directories of the same name share one.              *)
SourceId(file, service) == <<IF IsCompose(file) THEN "compose" ELSE "env", Name[file[1]], service>>
Candidate(file, service, m) ==
  [id |-> SourceId(file, service), origin |-> file, address |-> Address(m), user |-> UserOf(m)]

File == todo[1]
Service == IF IsCompose(File) THEN services[1].name ELSE EnvFile

ReadEnv ==
  /\ at = "read" /\ todo # <<>> /\ ~IsCompose(File)
  /\ mapping' = Parsed(File)
  /\ at' = "build"
  /\ UNCHANGED <<walkVars, todo, services, envFiles, candidates, result, touched>>
  /\ Unprobed

FailScan == at' = "failed" /\ Return /\ UNCHANGED result

(* One that has gone raises, as one that is no mapping does.               *)
ReadCompose ==
  /\ at = "read" /\ todo # <<>> /\ IsCompose(File)
  /\ IF disk[File] \in {Missing, Unreadable}
       THEN FailScan
       ELSE /\ services' = disk[File]
            /\ at' = "service"
            /\ UNCHANGED <<walkVars, todo, mapping, envFiles, candidates, result, touched>>
            /\ Unprobed

NextService ==
  /\ at = "service" /\ services # <<>>
  /\ mapping' = services[1].environment
  /\ envFiles' = services[1].env_file
  /\ at' = "env file"
  /\ UNCHANGED <<walkVars, todo, services, candidates, result, touched>>
  /\ Unprobed

ReadEnvFile ==
  /\ at = "env file" /\ envFiles # <<>>
  /\ mapping' = Updated(mapping, Parsed(envFiles[1]))
  /\ envFiles' = Tail(envFiles)
  /\ UNCHANGED <<at, walkVars, todo, services, candidates, result, touched>>
  /\ Unprobed

EnvFilesRead ==
  /\ at = "env file" /\ envFiles = <<>>
  /\ at' = "build"
  /\ UNCHANGED <<walkVars, readVars, candidates, result, touched>>
  /\ Unprobed

(* On to the next service of the file, or to the next file.                *)
OnwardMutant ==
  IF IsCompose(File)
    THEN at' = "service" /\ UNCHANGED <<todo, services>>
    ELSE todo' = Tail(todo) /\ at' = "read" /\ UNCHANGED services
Onward ==
  IF IsCompose(File)
    THEN services' = Tail(services) /\ at' = "service" /\ UNCHANGED todo
    ELSE todo' = Tail(todo) /\ at' = "read" /\ UNCHANGED services

FileDone ==
  /\ at = "service" /\ services = <<>>
  /\ todo' = Tail(todo) /\ at' = "read"
  /\ UNCHANGED <<walkVars, services, mapping, envFiles, candidates, result, touched>>
  /\ Unprobed

Skip ==
  /\ at = "build" /\ ~CompleteConfig(mapping)
  /\ Onward
  /\ UNCHANGED <<walkVars, mapping, envFiles, candidates, result, touched>>
  /\ Unprobed

(* int(port).                                                              *)
BadPort == at = "build" /\ CompleteConfig(mapping) /\ PortOf(mapping) = Bad /\ FailScan

Offer ==
  /\ at = "build" /\ CompleteConfig(mapping) /\ PortOf(mapping) # Bad
  /\ StartProbe(Address(mapping))
  /\ at' = "probe"
  /\ UNCHANGED <<serverVars, disk, walkVars, readVars, candidates, result, touched>>

Offered ==
  /\ at = "probe"
  /\ Report
  /\ candidates' = Append(candidates, [found |-> Candidate(File, Service, mapping),
                                       test  |-> verdict])
  /\ Onward
  /\ UNCHANGED <<serverVars, disk, walkVars, mapping, envFiles, result, touched>>

RootDone ==
  /\ at = "read" /\ todo = <<>>
  /\ at' = "root"
  /\ UNCHANGED <<walkVars, readVars, candidates, result, touched>>
  /\ Unprobed

(* Of the candidates with one source id, the last remains.                 *)
Deduped(cs) ==
  {cs[i] : i \in {i \in DOMAIN cs :
                    \A j \in DOMAIN cs : j > i => cs[j].found.id # cs[i].found.id}}

Finish ==
  /\ at = "root" /\ root = Len(Roots)
  /\ result' = Deduped(candidates)
  /\ at' = "done"
  /\ Return

ScanStep ==
  \/ NextRoot \/ Walked
  \/ \E entry \in pending : Visit(entry[1], entry[2])
  \/ ReadEnv \/ ReadCompose \/ NextService \/ ReadEnvFile \/ EnvFilesRead
  \/ FileDone \/ Skip \/ BadPort \/ Offer \/ Offered \/ RootDone \/ Finish

Next ==
  \/ \E file \in DOMAIN disk : \E content \in Edits[file] : Edit(file, content)
  \/ ServerChange /\ UNCHANGED <<disk, scanVars>>
  \/ ProbeStep /\ UNCHANGED <<disk, scanVars>>
  \/ \E uri \in Uris : CheckSource(FromUri(uri))
  \/ Checked
  \/ Start
  \/ ScanStep

(* The MySQL driver, the only one a scan uses, times out on every call     *)
(* (connect_timeout, read_timeout): a scan and its probes go on.           *)
Progress == ScanStep \/ (ProbeStep /\ UNCHANGED <<disk, scanVars>>)

Spec == Init /\ [][Next]_vars /\ WF_vars(Progress)

-----------------------------------------------------------------------------
(* Type invariant, but for the contents of files.                          *)
Stages ==
  {"idle", "root", "walk", "read", "service", "env file", "build", "probe", "done", "failed"}
TypeOK ==
  /\ ProbeTypeOK
  /\ at \in Stages
  /\ root \in 0 .. Len(Roots)
  /\ pending \subseteq Dirs \X (0 .. MaxDepth)
  /\ {matches, todo, envFiles} \subseteq Seq(DOMAIN disk)
  /\ \A c \in result : c.test \in [ok : BOOLEAN, compatible : BOOLEAN]
  /\ touched \subseteq DOMAIN disk

(* The directories that are k levels below r, and on a way there that no   *)
(* ignored one is on; the files that a scan is to read.                    *)
LeadsTo(r, d, k) ==
  \E way \in [0 .. k -> Dirs] :
    /\ way[0] = r /\ way[k] = d
    /\ \A i \in 1 .. k : /\ way[i] \notin Ignored
                        /\ Parent[way[i]] = way[i - 1] /\ way[i] # way[i - 1]
Within(r) == {d \in Dirs : \E k \in 0 .. MaxDepth : LeadsTo(r, d, k)}
ToRead == UNION {UNION {Found(d) : d \in Within(r)} :
                   r \in {Roots[i] : i \in DOMAIN Roots} \intersect Dirs}

(* The configuration of a service, of its environment and the first n of   *)
(* its env files: of the parts that have a key, the last says what it is.  *)
Layered(parts) ==
  [key \in UNION {DOMAIN parts[k] : k \in DOMAIN parts} |->
     parts[Max({k \in DOMAIN parts : key \in DOMAIN parts[k]})][key]]
SettingsAfter(s, n) ==
  Layered([k \in 0 .. n |-> IF k = 0 THEN s.environment ELSE Parsed(s.env_file[k])])

(* A configuration: where it is, what it says and the files it comes from. *)
Config(f, service, m, files) == [found |-> Candidate(f, service, m), says |-> m, files |-> files]
EnvConfig(f) == Config(f, EnvFile, Parsed(f), {f})
ServiceConfig(f, s) ==
  Config(f, s.name, SettingsAfter(s, Len(s.env_file)),
         {f} \union {s.env_file[k] : k \in DOMAIN s.env_file})
ConfigsOf(f) ==
  IF ~IsCompose(f) THEN {EnvConfig(f)}
  ELSE IF disk[f] = Unreadable THEN {}
  ELSE {ServiceConfig(f, disk[f][i]) : i \in DOMAIN disk[f]}
Expected == {c \in UNION {ConfigsOf(f) : f \in ToRead} : CompleteConfig(c.says)}

(* A scan offers every configuration in reach that is complete, under its  *)
(* source id if not under its own path, and nothing that is not in the     *)
(* files, whatever becomes of the servers it probes on the way; files that *)
(* are edited meanwhile disturb the candidates of no other.  It fails if   *)
(* there is a file that cannot be read or a port that is no number, and,   *)
(* unless a file is edited, for no other reason.                           *)
Unscannable(untouched) ==
  \/ \E f \in ToRead \intersect untouched : IsCompose(f) /\ disk[f] = Unreadable
  \/ \E c \in Expected : c.files \subseteq untouched /\ PortOf(c.says) = Bad
ScanFindsAll ==
  LET untouched == DOMAIN disk \ touched
      certain   == {c \in Expected : c.files \subseteq untouched}
  IN  /\ at = "failed" => touched # {} \/ Unscannable(untouched)
      /\ at = "done" =>
           /\ ~Unscannable(untouched)
           /\ {c.found.id : c \in certain} \subseteq {c.found.id : c \in result}
           /\ touched = {} => {c.found : c \in result} \subseteq {c.found : c \in certain}

(* A scan comes to an end, whatever is edited and whichever servers are    *)
(* down.                                                                   *)
ScanEnds == Scanning ~> ~Scanning
=============================================================================
