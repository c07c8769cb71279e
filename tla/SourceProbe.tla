---------------------------- MODULE SourceProbe ----------------------------
(***************************************************************************)
(* ping_source_definition (app/services/source_registry.py) and the ping   *)
(* and inspect functions of app/db/mysql.py and app/db/postgres.py: one    *)
(* connection for SELECT 1, another that lists the tables and then queries *)
(* those it has found.  Meanwhile servers stop and start, tables come and  *)
(* go, as they do when the gateway is being installed or removed, and the  *)
(* gateway logs requests.                                                  *)
(*                                                                         *)
(* Health checks, tests of a definition, URI imports, the startup          *)
(* validation and the scan of LocalImport all probe this way; probes share *)
(* nothing, so that one stands for all.  The two dialects of inspect run   *)
(* the same statements but for the one about the database, which MySQL     *)
(* splits in two.                                                          *)
(***************************************************************************)
EXTENDS Integers, FiniteSets

CONSTANTS
  Hosts,      (* names of hosts                                            *)
  Ports,      (* port numbers                                              *)
  Servers,    (* the addresses of the database servers there are           *)
  Installations, (* what may be installed on a server at the start         *)
  Blank,      (* an empty text: a host, a port or a setting not given      *)
  Nowhere,    (* no address: no probe is being made                        *)
  MaxChanges  (* bound: changes of the servers in a behaviour              *)

Tables   == {"logs", "options", "tokens", "channels"}
Required == {"logs", "options"}

(* What a definition says of a server: which driver, and where.            *)
Addresses == [driver : {"mysql", "postgres"}, host : Hosts, port : Ports]

ASSUME ProbeAssumption ==
  /\ Ports \subseteq Nat /\ {3306, 5432} \subseteq Ports /\ Blank \notin Ports
  /\ Servers \subseteq Addresses /\ Nowhere \notin Addresses
  /\ Installations \subseteq [tables : SUBSET Tables, upperCase : BOOLEAN, garbled : BOOLEAN]
  /\ MaxChanges \in Nat

VARIABLES
  up,       (* external: the servers that answer                           *)
  tables,   (* external: the tables of each server's database              *)
  upperCase,(* external: the servers that label the columns of their       *)
            (* information schema in upper case, as MySQL 8 does           *)
  garbled,  (* external: servers that refuse the other of the latest log,  *)
            (* for it is no JSON; MariaDB answers NULL and is never one    *)
  changes,  (* how often something external has changed                    *)
  probe,    (* the probe being made: the address and where it is           *)
  found,    (* found_tables                                                *)
  open,     (* connections that are open                                   *)
  verdict,  (* ok and compatible of the last result                        *)
  (* Auxiliary.                                                            *)
  disturbed (* the server has changed, or a call failed on its own, since  *)
            (* the probe began                                             *)

probeVars  == <<probe, found, open, verdict, disturbed>>
serverVars == <<up, tables, upperCase, garbled, changes>>

Steps ==
  {"idle", "ping connect", "select 1", "ping close", "connect", "list tables",
   "options", "database", "sample", "close", "close failed", "done"}

NoProbe    == [address |-> Nowhere, at |-> "idle"]
NoVerdict  == [ok |-> FALSE, compatible |-> FALSE]
At(step)   == probe.at = step
Goto(step) == probe' = [probe EXCEPT !.at = step]

ProbeInit ==
  /\ up \in SUBSET Servers
  /\ \E installed \in [Servers -> Installations] :
       /\ tables = [h \in Servers |-> installed[h].tables]
       /\ upperCase = {h \in Servers : h.driver = "mysql" /\ installed[h].upperCase}
       /\ garbled = {h \in Servers : installed[h].garbled}
  /\ changes = 0
  /\ probe = NoProbe
  /\ found = {}
  /\ open = 0
  /\ verdict = NoVerdict
  /\ disturbed = FALSE

-----------------------------------------------------------------------------
(* The drivers of app/db/dispatch.py: MariaDB's is MySQL's.                *)
Driver(db_type) == IF db_type = "postgres" THEN "postgres" ELSE "mysql"

(* default_port_for_db_type.                                               *)
DefaultPort(db_type) == IF db_type = "postgres" THEN 5432 ELSE 3306

(* SourceImportUriRequest.to_source_definition.  A scheme stands for all   *)
(* that begin with it: postgres for postgresql and postgresql+psycopg too, *)
(* and mysql for all that begin with neither of the others.  Blank is a    *)
(* host or port that the URI does not give.                                *)
Schemes == {"mysql", "mariadb", "postgres"}
DbType(scheme) == IF scheme \in {"mariadb", "postgres"} THEN scheme ELSE "mysql"
FromUri(uri) ==
  LET db_type == DbType(uri.scheme)
  IN  [driver |-> Driver(db_type), host |-> uri.host,
       port |-> IF uri.port = Blank THEN DefaultPort(db_type) ELSE uri.port]

-----------------------------------------------------------------------------
(* External: a server stops or starts, a table is created or dropped, a    *)
(* request is logged and so is another the latest.                         *)
Changed(h) ==
  /\ changes < MaxChanges
  /\ changes' = changes + 1
  /\ disturbed' = (disturbed \/ probe.address = h)
  /\ UNCHANGED <<probe, found, open, verdict, upperCase>>

Toggle(h) ==
  /\ Changed(h)
  /\ up' = IF h \in up THEN up \ {h} ELSE up \union {h}
  /\ UNCHANGED <<tables, garbled>>

Migrate(h, table) ==
  /\ Changed(h)
  /\ tables' = [tables EXCEPT ![h] =
                  IF table \in @ THEN @ \ {table} ELSE @ \union {table}]
  /\ UNCHANGED <<up, garbled>>

LogRequest(h) ==
  /\ "logs" \in tables[h]
  /\ Changed(h)
  /\ garbled' = IF h \in garbled THEN garbled \ {h} ELSE garbled \union {h}
  /\ UNCHANGED <<up, tables>>

-----------------------------------------------------------------------------
(* The probe.                                                              *)

StartProbe(a) ==
  /\ At("idle")
  /\ probe' = [address |-> a, at |-> "ping connect"]
  /\ disturbed' = FALSE
  /\ found' = {}
  /\ UNCHANGED <<open, verdict>>

Reachable == probe.address \in up

Result(ok, compatible) == verdict' = [ok |-> ok, compatible |-> compatible]

(* A connect or a statement raises: nothing is left open after a connect,  *)
(* and the finally clause closes the connection after a statement.         *)
RaiseMutant ==
  Goto("done") /\ Result(FALSE, FALSE) /\ UNCHANGED open
Raise ==
  IF open = 0
    THEN Goto("done") /\ Result(FALSE, FALSE) /\ UNCHANGED open
    ELSE Goto("close failed") /\ UNCHANGED <<open, verdict>>

(* What a call needs to succeed; it may time out all the same.             *)
Call(step, needed, next) ==
  /\ At(step)
  /\ \/ /\ Reachable /\ needed
        /\ next
        /\ UNCHANGED disturbed
     \/ /\ Raise
        /\ disturbed' = (disturbed \/ (Reachable /\ needed))
        /\ UNCHANGED found

Connect(step, next) ==
  Call(step, TRUE, Goto(next) /\ open' = open + 1 /\ UNCHANGED <<found, verdict>>)

Statement(step, needed, next) ==
  Call(step, needed, Goto(next) /\ UNCHANGED <<found, open, verdict>>)

(* ping_mysql, ping_postgres.                                              *)
PingConnect == Connect("ping connect", "select 1")
Select1     == Statement("select 1", TRUE, "ping close")
PingClose   ==
  /\ At("ping close")
  /\ Goto("connect")
  /\ open' = open - 1
  /\ UNCHANGED <<found, verdict, disturbed>>

(* inspect_mysql_source, inspect_postgres_source.                          *)
InspectConnect == Connect("connect", "list tables")

(* row["table_name"] raises if there is a row and its column is labelled   *)
(* otherwise.                                                              *)
Labelled == tables[probe.address] # {} => probe.address \notin upperCase
ListTables ==
  Call("list tables", Labelled,
       Goto("options") /\ found' = tables[probe.address] /\ UNCHANGED <<open, verdict>>)

(* A table that has been found is queried: this fails if it is gone.       *)
IfFoundMutant(table) == table \in tables[probe.address]
IfFound(table) == table \in found => table \in tables[probe.address]
ReadOptions  == Statement("options", IfFound("options"), "database")
ReadDatabase == Statement("database", TRUE, "sample")

(* The sample is read out of the other of the latest log.                  *)
Legible    == "logs" \in found => probe.address \notin garbled
ReadSample == Statement("sample", IfFound("logs") /\ Legible, "close")

Compatible == Required \subseteq found

CloseConnection ==
  /\ open' = open - 1
  /\ Goto("done")
  /\ IF At("close") THEN Result(TRUE, Compatible) ELSE Result(FALSE, FALSE)
  /\ UNCHANGED <<found, disturbed>>
Close == (At("close") \/ At("close failed")) /\ CloseConnection

(* The caller has the result.                                              *)
Report ==
  /\ At("done")
  /\ probe' = NoProbe
  /\ UNCHANGED <<found, open, verdict, disturbed>>

ProbeStep ==
  /\ \/ PingConnect \/ Select1 \/ PingClose
     \/ InspectConnect \/ ListTables \/ ReadOptions \/ ReadDatabase \/ ReadSample
     \/ Close
  /\ UNCHANGED serverVars

ServerChange ==
  \E h \in Servers : Toggle(h) \/ LogRequest(h) \/ \E t \in Tables : Migrate(h, t)

-----------------------------------------------------------------------------
(* Type invariant.                                                         *)
ProbeTypeOK ==
  /\ up \subseteq Servers
  /\ tables \in [Servers -> SUBSET Tables]
  /\ upperCase \subseteq Servers /\ garbled \subseteq Servers
  /\ changes \in 0 .. MaxChanges
  /\ probe \in [address : Addresses \union {Nowhere}, at : Steps]
  /\ found \subseteq Tables
  /\ open \in 0 .. 1
  /\ verdict \in [ok : BOOLEAN, compatible : BOOLEAN]
  /\ disturbed \in BOOLEAN

(* Whichever call fails, a finished probe has left no connection open: a   *)
(* dashboard that is asked for the health of its sources every minute      *)
(* would use up the server's connections.                                  *)
NothingLeftOpen == At("done") \/ At("idle") => open = 0

(* A server that is left alone is judged by what it is.  It is ok if it    *)
(* answers and can be understood, even when tables are missing: if it      *)
(* labels the list of its tables as expected, or has none, and the latest  *)
(* log, if it has logs, is JSON.  It is compatible if moreover logs and    *)
(* options are there, with tokens and channels or without.                 *)
Understood(h) ==
  /\ h \in upperCase => tables[h] = {}
  /\ h \in garbled => "logs" \notin tables[h]
JudgedRight ==
  At("done") /\ ~disturbed =>
    /\ verdict.ok <=> Reachable /\ Understood(probe.address)
    /\ verdict.compatible <=> verdict.ok /\ Required \subseteq tables[probe.address]
=============================================================================
