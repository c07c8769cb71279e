------------------------- MODULE LocalImportProofs -------------------------
(***************************************************************************)
(* The probes of the sources, made for a request or by a scan, and the     *)
(* scans themselves, for any servers, directories and files, and for any   *)
(* changes of servers and files.                                           *)
(***************************************************************************)
EXTENDS LocalImport, FiniteSetTheorems, WellFoundedInduction, TLAPS

-----------------------------------------------------------------------------
(* The inductive invariant.  While the server is left alone, a probe that  *)
(* has connected once goes on, what it has found is what is there, and it  *)
(* closes after a failure only if there is something it cannot understand. *)

Connected  == {"select 1", "ping close", "list tables", "options", "database", "sample",
               "close", "close failed"}
HasReached == Connected \union {"connect"}
HasListed  == {"options", "database", "sample", "close"}

IsProbe(p) == p \in [address : {p.address}, at : Steps]
ProbeTypes ==
  /\ IsProbe(probe)
  /\ up \subseteq Servers
  /\ tables \in [Servers -> SUBSET Tables]
  /\ upperCase \subseteq Servers /\ garbled \subseteq Servers
  /\ changes \in 0 .. MaxChanges
  /\ found \subseteq Tables
  /\ open \in 0 .. 1
  /\ verdict \in [ok : BOOLEAN, compatible : BOOLEAN]
  /\ disturbed \in BOOLEAN
OpenAsConnected == open = IF probe.at \in Connected THEN 1 ELSE 0
SeenAsItIs ==
  ~disturbed =>
    /\ probe.at \in HasReached => Reachable
    /\ probe.at \in HasListed => found = tables[probe.address] /\ Labelled
    /\ At("close") => Legible
    /\ At("close failed") => ~Understood(probe.address)
ProbeInv == ProbeTypes /\ OpenAsConnected /\ SeenAsItIs /\ JudgedRight

(* No probe has been made yet.                                             *)
LEMMA ProbeInitTrue ==
  ASSUME ProbeInit
  PROVE  ProbeInv
<1>1. probe.at = "idle" /\ open = 0
  BY DEF ProbeInit, NoProbe
<1>2. ProbeTypes
  <2>1. IsProbe(probe)
    BY DEF ProbeInit, NoProbe, Steps, IsProbe
  <2>2. changes \in 0 .. MaxChanges
    BY ProbeAssumption DEF ProbeInit
  <2>3. verdict \in [ok : BOOLEAN, compatible : BOOLEAN] /\ disturbed \in BOOLEAN
    BY DEF ProbeInit, NoVerdict
  <2>4. /\ up \subseteq Servers /\ upperCase \subseteq Servers /\ garbled \subseteq Servers
        /\ found \subseteq Tables
    BY DEF ProbeInit
  <2>5. open \in 0 .. 1
    BY <1>1
  <2>6. tables \in [Servers -> SUBSET Tables]
    <3>1. PICK installed \in [Servers -> Installations] :
            tables = [h \in Servers |-> installed[h].tables]
      BY DEF ProbeInit
    <3>2. \A h \in Servers : installed[h].tables \subseteq Tables
      BY <3>1, ProbeAssumption
    <3> QED
      BY <3>1, <3>2
  <2> QED
    BY <2>1, <2>2, <2>3, <2>4, <2>5, <2>6, Zenon DEF ProbeTypes
<1>3. OpenAsConnected /\ SeenAsItIs /\ JudgedRight
  BY <1>1 DEF OpenAsConnected, SeenAsItIs, JudgedRight, Connected, HasReached, HasListed, At
<1> QED
  BY <1>2, <1>3 DEF ProbeInv

(* A probe begins, for a definition, a URI or a candidate of a scan.       *)
LEMMA StartProbeTrue ==
  ASSUME ProbeInv, NEW a, StartProbe(a), UNCHANGED serverVars
  PROVE  ProbeInv'
BY DEF StartProbe, serverVars, ProbeInv, ProbeTypes, IsProbe, OpenAsConnected, SeenAsItIs, JudgedRight,
   Steps, Connected, HasReached, HasListed, At

(* Its result is taken.                                                    *)
LEMMA ReportTrue ==
  ASSUME ProbeInv, Report, UNCHANGED serverVars
  PROVE  ProbeInv'
BY DEF Report, serverVars, ProbeInv, ProbeTypes, IsProbe, OpenAsConnected, SeenAsItIs, JudgedRight,
   NoProbe, Steps, Connected, HasReached, HasListed, At

(* Nothing that the probe reads or writes changes.                         *)
LEMMA QuietTrue ==
  ASSUME ProbeInv, UNCHANGED <<probeVars, up, tables, upperCase, garbled>>,
         changes' \in 0 .. MaxChanges
  PROVE  ProbeInv'
BY DEF probeVars, ProbeInv, ProbeTypes, IsProbe, OpenAsConnected, SeenAsItIs, JudgedRight, At, Reachable,
   Labelled, Legible, Understood

(* Servers stop and start, tables come and go, requests are logged.        *)
LEMMA ServerChangeTrue ==
  ASSUME ProbeInv, ServerChange
  PROVE  ProbeInv'
<1>1. PICK h \in Servers : Toggle(h) \/ LogRequest(h) \/ \E t \in Tables : Migrate(h, t)
  BY DEF ServerChange
<1>2. /\ changes' \in 0 .. MaxChanges
      /\ disturbed' = (disturbed \/ probe.address = h)
      /\ UNCHANGED <<probe, found, open, verdict, upperCase>>
  BY <1>1, ProbeAssumption DEF Toggle, LogRequest, Migrate, Changed, ProbeInv, ProbeTypes
<1>3. /\ up' \subseteq Servers /\ tables' \in [Servers -> SUBSET Tables]
      /\ upperCase' \subseteq Servers /\ garbled' \subseteq Servers
  BY <1>1, <1>2 DEF Toggle, LogRequest, Migrate, ProbeInv, ProbeTypes
<1>4. ASSUME NEW a, a # h
      PROVE  /\ a \in up' <=> a \in up
             /\ a \in garbled' <=> a \in garbled
             /\ a \in Servers => tables'[a] = tables[a]
  BY <1>1, <1>4 DEF Toggle, LogRequest, Migrate, ProbeInv, ProbeTypes
<1>5. ProbeTypes' /\ OpenAsConnected'
  BY <1>2, <1>3 DEF ProbeInv, ProbeTypes, IsProbe, OpenAsConnected
<1>6. CASE probe.address = h
  BY <1>2, <1>5, <1>6 DEF ProbeInv, SeenAsItIs, JudgedRight, ProbeTypes
<1>7. CASE probe.address # h
  <2>1. Reachable' <=> Reachable
    BY <1>2, <1>4, <1>7 DEF Reachable
  <2>2. Reachable => tables'[probe.address] = tables[probe.address]
    BY <1>4, <1>7 DEF Reachable, ProbeInv, ProbeTypes
  <2>3. /\ UNCHANGED <<probe, found, disturbed, upperCase, verdict>>
        /\ probe.address \in garbled' <=> probe.address \in garbled
    BY <1>2, <1>4, <1>7 DEF ProbeInv, ProbeTypes
  <2>4. Reachable => UNCHANGED <<Labelled, Legible, Understood(probe.address)>>
    BY <2>2, <2>3 DEF Labelled, Legible, Understood
  <2>5. SeenAsItIs'
    BY <2>1, <2>2, <2>3, <2>4 DEF ProbeInv, SeenAsItIs, At, HasReached, HasListed, Connected
  <2>6. JudgedRight'
    BY <2>1, <2>2, <2>3, <2>4 DEF ProbeInv, JudgedRight, At
  <2> QED
    BY <1>5, <2>5, <2>6 DEF ProbeInv
<1> QED
  BY <1>6, <1>7

(* The types of what a step leaves alone.                                  *)
LEMMA Types ==
  ASSUME ProbeTypes
  PROVE  /\ open \in Int /\ found \subseteq Tables /\ disturbed \in BOOLEAN
         /\ verdict \in [ok : BOOLEAN, compatible : BOOLEAN]
<1>1. open \in 0 .. 1 /\ found \subseteq Tables /\ disturbed \in BOOLEAN
      /\ verdict \in [ok : BOOLEAN, compatible : BOOLEAN]
  BY Zenon DEF ProbeTypes
<1> QED
  BY <1>1

(* What the probe is at, and nothing else of it, changes.                  *)
LEMMA GotoMoves ==
  ASSUME ProbeTypes, NEW step \in Steps, Goto(step)
  PROVE  /\ probe'.at = step /\ probe'.address = probe.address
         /\ IsProbe(probe')
<1>1. IsProbe(probe)
  BY DEF ProbeTypes
<1> QED
  BY <1>1 DEF Goto, IsProbe

(* A step of the probe keeps the types.                                    *)
LEMMA TypeMoves ==
  ASSUME ProbeTypes, UNCHANGED serverVars, NEW step \in Steps, Goto(step),
         open' \in {0, 1}, found' \subseteq Tables, disturbed' \in BOOLEAN,
         verdict' \in [ok : BOOLEAN, compatible : BOOLEAN]
  PROVE  ProbeTypes'
<1>1. IsProbe(probe')
  BY GotoMoves
<1>2. UNCHANGED <<up, tables, upperCase, garbled, changes>> /\ open' \in 0 .. 1
  BY DEF serverVars
<1> QED
  BY <1>1, <1>2, Zenon DEF ProbeTypes

(* A call of the driver that fails, because the server does not answer or  *)
(* is not understood, a table is gone or the call times out: the probe is  *)
(* at its end, or the connection is still to be closed.                    *)
LEMMA RaiseTrue ==
  ASSUME ProbeInv, UNCHANGED serverVars, Raise, UNCHANGED found, NEW needed \in BOOLEAN,
         disturbed' = (disturbed \/ (Reachable /\ needed)),
         probe.at \in Steps \ {"idle", "done", "close", "ping close", "close failed"},
         ~disturbed /\ Reachable /\ Understood(probe.address) => needed
  PROVE  ProbeInv'
<1>1. CASE open = 0
  <2>1. probe' = [probe EXCEPT !.at = "done"] /\ verdict' = [ok |-> FALSE, compatible |-> FALSE] /\ open' = open
    BY <1>1 DEF Raise, Goto, Result
  <2>2. ProbeTypes' /\ OpenAsConnected' /\ SeenAsItIs'
    BY <1>1, <2>1 DEF serverVars, ProbeInv, ProbeTypes, IsProbe, OpenAsConnected, SeenAsItIs, Steps,
       Connected, HasReached, HasListed, At
  <2>3. ~disturbed' => ~(Reachable /\ Understood(probe.address))'
    BY <2>1 DEF Reachable, Understood, serverVars, ProbeInv, ProbeTypes, IsProbe
  <2>4. JudgedRight'
    BY <2>1, <2>3 DEF JudgedRight
  <2> QED
    BY <2>2, <2>4 DEF ProbeInv
<1>2. CASE open # 0
  <2>1. probe' = [probe EXCEPT !.at = "close failed"] /\ UNCHANGED <<open, verdict>>
    BY <1>2 DEF Raise, Goto
  <2>2. probe.at \in Connected
    BY <1>2 DEF ProbeInv, OpenAsConnected
  <2>3. ~disturbed' => Reachable /\ ~Understood(probe.address)
    BY <2>2 DEF ProbeInv, SeenAsItIs, HasReached
  <2>4. probe'.at = "close failed" /\ probe'.address = probe.address
    BY <2>1 DEF ProbeInv, ProbeTypes, IsProbe
  <2>5. ~disturbed' => (Reachable /\ ~Understood(probe.address))'
    BY <2>3, <2>4 DEF Reachable, Understood, serverVars
  <2>6. SeenAsItIs' /\ JudgedRight'
    BY <2>4, <2>5 DEF SeenAsItIs, JudgedRight, At, HasListed
  <2>7. ProbeTypes' /\ OpenAsConnected'
    BY <2>1, <2>2 DEF serverVars, ProbeInv, ProbeTypes, IsProbe, OpenAsConnected, Steps, Connected
  <2> QED
    BY <2>6, <2>7 DEF ProbeInv
<1> QED
  BY <1>1, <1>2

(* The two connects, and the step after each.                              *)
AfterConnect(step, next) ==
  \/ step = "ping connect" /\ next = "select 1"
  \/ step = "connect" /\ next = "list tables"
(* A connect succeeds or fails.                                            *)
LEMMA ConnectTrue ==
  ASSUME ProbeInv, UNCHANGED serverVars,
         NEW step, NEW next, Connect(step, next),
         AfterConnect(step, next)
  PROVE  ProbeInv'
<1>1. step \in Steps \ {"idle", "done", "close", "ping close", "close failed"} /\ probe.at = step
  BY DEF Connect, Call, At, Steps, AfterConnect
<1>2. CASE Raise /\ disturbed' = (disturbed \/ (Reachable /\ TRUE)) /\ UNCHANGED found
  BY <1>1, <1>2, RaiseTrue
<1>3. CASE /\ Reachable /\ UNCHANGED <<disturbed, found, verdict>>
           /\ Goto(next) /\ open' = open + 1
  <2>1. open = 0 /\ open' = 1
    <3>1. open = 0
      BY <1>1 DEF ProbeInv, OpenAsConnected, Connected, AfterConnect
    <3>2. open' = open + 1
      BY <1>3
    <3> QED
      BY <3>1, <3>2
  <2>2. ProbeTypes' /\ probe'.at = next /\ probe'.address = probe.address
    <3>1. next \in Steps
      BY DEF Steps, AfterConnect
    <3>2. /\ found \subseteq Tables /\ disturbed \in BOOLEAN
          /\ verdict \in [ok : BOOLEAN, compatible : BOOLEAN]
      BY Types DEF ProbeInv
    <3> QED
      BY <1>3, <2>1, <3>1, <3>2, GotoMoves, TypeMoves DEF ProbeInv
  <2>3. next \in {"select 1", "list tables"}
    BY DEF AfterConnect
  <2>4. Reachable'
    BY <1>3, <2>2 DEF Reachable, serverVars
  <2> QED
    BY <2>1, <2>2, <2>3, <2>4 DEF ProbeInv, OpenAsConnected, SeenAsItIs, JudgedRight, Connected,
       HasReached, HasListed, At
<1> QED
  BY <1>2, <1>3 DEF Connect, Call

(* A statement succeeds or fails.                                          *)
LEMMA StatementTrue ==
  ASSUME ProbeInv, UNCHANGED serverVars,
         NEW step, NEW needed \in BOOLEAN, NEW next, Statement(step, needed, next),
         ~disturbed /\ Reachable /\ Understood(probe.address) => needed,
         step = "sample" /\ needed => Legible,
         \/ step = "select 1" /\ next = "ping close"
         \/ step = "options" /\ next = "database"
         \/ step = "database" /\ next = "sample"
         \/ step = "sample" /\ next = "close"
  PROVE  ProbeInv'
<1>1. step \in Steps \ {"idle", "done", "close", "ping close", "close failed"} /\ probe.at = step
  BY DEF Statement, Call, At, Steps
<1>2. CASE Raise /\ disturbed' = (disturbed \/ (Reachable /\ needed)) /\ UNCHANGED found
  BY <1>1, <1>2, RaiseTrue
<1>3. CASE /\ Reachable /\ needed /\ UNCHANGED <<disturbed, found, verdict, open>>
           /\ probe' = [probe EXCEPT !.at = next]
  BY <1>1, <1>3 DEF serverVars, ProbeInv, ProbeTypes, IsProbe, OpenAsConnected, SeenAsItIs,
     JudgedRight, Steps, Connected, HasReached, HasListed, At, Reachable, Labelled, Legible
<1> QED
  BY <1>2, <1>3 DEF Statement, Call, Goto

(* The tables are listed: what is found is what there is.                  *)
LEMMA ListTablesTrue ==
  ASSUME ProbeInv, UNCHANGED serverVars, ListTables
  PROVE  ProbeInv'
<1>1. "list tables" \in Steps \ {"idle", "done", "close", "ping close", "close failed"}
      /\ probe.at = "list tables"
  BY DEF ListTables, Call, At, Steps
<1>2. CASE Raise /\ disturbed' = (disturbed \/ (Reachable /\ Labelled)) /\ UNCHANGED found
  <2>1. (Labelled \in BOOLEAN) /\ (Reachable /\ Understood(probe.address) => Labelled)
    BY DEF Labelled, Understood
  <2> QED
    BY <1>1, <1>2, <2>1, RaiseTrue
<1>3. CASE /\ Reachable /\ Labelled /\ UNCHANGED <<disturbed, verdict, open>>
           /\ probe' = [probe EXCEPT !.at = "options"] /\ found' = tables[probe.address]
  BY <1>1, <1>3 DEF serverVars, ProbeInv, ProbeTypes, IsProbe, OpenAsConnected, SeenAsItIs,
     JudgedRight, Steps, Connected, HasReached, HasListed, At, Reachable, Labelled
<1> QED
  BY <1>2, <1>3 DEF ListTables, Call, Goto

(* A connection is closed, between the two parts or at the end.            *)
LEMMA CloseTrue ==
  ASSUME ProbeInv, UNCHANGED serverVars, PingClose \/ Close
  PROVE  ProbeInv'
<1>1. CASE PingClose
  <2>1. /\ probe.at = "ping close" /\ Goto("connect") /\ open' = open - 1
        /\ UNCHANGED <<found, verdict, disturbed>>
    BY <1>1 DEF PingClose, At
  <2>2. open = 1 /\ open' = 0
    <3>1. open \in Int
      BY Types DEF ProbeInv
    <3>2. open = 1
      BY <2>1 DEF ProbeInv, OpenAsConnected, Connected
    <3>3. open' = open - 1
      BY <2>1
    <3> QED
      BY <3>1, <3>2, <3>3
  <2>3. ProbeTypes' /\ probe'.at = "connect" /\ probe'.address = probe.address
    <3>1. "connect" \in Steps
      BY DEF Steps
    <3>2. /\ found \subseteq Tables /\ disturbed \in BOOLEAN
          /\ verdict \in [ok : BOOLEAN, compatible : BOOLEAN]
      BY Types DEF ProbeInv
    <3> QED
      BY <2>1, <2>2, <3>1, <3>2, GotoMoves, TypeMoves DEF ProbeInv
  <2>4. ~disturbed => Reachable'
    BY <2>1, <2>3 DEF ProbeInv, SeenAsItIs, HasReached, Connected, Reachable, serverVars
  <2> QED
    BY <2>1, <2>2, <2>3, <2>4 DEF ProbeInv, OpenAsConnected, SeenAsItIs, JudgedRight, Connected,
       HasReached, HasListed, At
<1>2. CASE Close
  <2>1. /\ probe.at \in {"close", "close failed"}
        /\ Goto("done") /\ open' = open - 1
        /\ UNCHANGED <<found, disturbed>>
        /\ verdict' = IF probe.at = "close"
                        THEN [ok |-> TRUE, compatible |-> Required \subseteq found]
                        ELSE [ok |-> FALSE, compatible |-> FALSE]
    BY <1>2 DEF Close, CloseConnection, Result, At, Compatible
  <2>2. ProbeTypes' /\ OpenAsConnected' /\ SeenAsItIs'
    <3>1. open = 1 /\ open' = 0
      <4>1. open \in Int
        BY Types DEF ProbeInv
      <4>2. open = 1
        BY <2>1 DEF ProbeInv, OpenAsConnected, Connected
      <4>3. open' = open - 1
        BY <2>1
      <4> QED
        BY <4>1, <4>2, <4>3
    <3>2. "done" \in Steps
      BY DEF Steps
    <3>3. ProbeTypes' /\ probe'.at = "done"
      <4>1. found \subseteq Tables /\ disturbed \in BOOLEAN
        BY Types DEF ProbeInv
      <4>2. verdict' \in [ok : BOOLEAN, compatible : BOOLEAN]
        BY <2>1
      <4> QED
        BY <2>1, <3>1, <3>2, <4>1, <4>2, GotoMoves, TypeMoves DEF ProbeInv
    <3> QED
      BY <3>1, <3>3 DEF OpenAsConnected, SeenAsItIs, Connected, HasReached, HasListed, At
  <2>3. JudgedRight'
    <3>1. "done" \in Steps /\ probe.at \in HasReached
      BY <2>1 DEF Steps, HasReached, Connected
    <3>2. probe'.address = probe.address
      BY <2>1, <3>1, GotoMoves DEF ProbeInv
    <3>3. /\ Reachable' <=> Reachable
          /\ Understood(probe.address)' <=> Understood(probe.address)
          /\ UNCHANGED <<tables, found, disturbed>>
      BY <2>1, <3>2 DEF Reachable, Understood, serverVars
    <3>4. CASE probe.at = "close"
      <4>1. ~disturbed => Reachable /\ Understood(probe.address) /\ found = tables[probe.address]
        BY <3>4 DEF ProbeInv, SeenAsItIs, At, HasReached, Connected, HasListed, Labelled, Legible,
           Understood
      <4>2. verdict'.ok /\ (verdict'.compatible <=> Required \subseteq found)
        BY <2>1, <3>4
      <4>3. tables'[probe'.address] = tables[probe.address] /\ UNCHANGED <<found, disturbed>>
        BY <3>2, <3>3
      <4> QED
        BY <3>3, <4>1, <4>2, <4>3 DEF JudgedRight
    <3>5. CASE probe.at = "close failed"
      <4>1. ~disturbed => ~Understood(probe.address)
        BY <3>5 DEF ProbeInv, SeenAsItIs, At
      <4>2. verdict'.ok = FALSE /\ verdict'.compatible = FALSE
        BY <2>1, <3>5
      <4> QED
        BY <3>3, <4>1, <4>2 DEF JudgedRight
    <3> QED
      BY <2>1, <3>4, <3>5
  <2> QED
    BY <2>2, <2>3 DEF ProbeInv
<1> QED
  BY <1>1, <1>2

(* Every step of the probe.                                                *)
LEMMA ProbeStepTrue ==
  ASSUME ProbeInv, ProbeStep
  PROVE  ProbeInv'
<1>1. UNCHANGED serverVars
  BY DEF ProbeStep
<1>2. CASE PingConnect \/ InspectConnect
  BY <1>1, <1>2, ConnectTrue DEF PingConnect, InspectConnect, AfterConnect
<1>3. CASE Select1 \/ ReadDatabase
  BY <1>1, <1>3, StatementTrue DEF Select1, ReadDatabase
<1>4. CASE ReadOptions \/ ReadSample
  <2>1. probe.at \in {"options", "sample"}
    BY <1>4 DEF ReadOptions, ReadSample, Statement, Call, At
  <2>2. ASSUME NEW table
        PROVE  (IfFound(table) \in BOOLEAN) /\ (~disturbed /\ Reachable => IfFound(table))
    BY <2>1 DEF IfFound, ProbeInv, SeenAsItIs, HasListed
  <2>3. /\ Legible \in BOOLEAN
        /\ ~disturbed /\ Reachable /\ Understood(probe.address) => Legible
    BY <2>1 DEF Legible, Understood, ProbeInv, SeenAsItIs, HasListed
  <2>4. CASE ReadOptions
    BY <1>1, <2>2, <2>4, StatementTrue DEF ReadOptions
  <2>5. CASE ReadSample
    <3> DEFINE needed == IfFound("logs") /\ Legible
    <3>1. (needed \in BOOLEAN) /\ (~disturbed /\ Reachable /\ Understood(probe.address) => needed)
      BY <2>2, <2>3
    <3>2. Statement("sample", needed, "close") /\ (needed => Legible)
      BY <2>5 DEF ReadSample
    <3> HIDE DEF needed
    <3> QED
      BY <1>1, <3>1, <3>2, StatementTrue
  <2> QED
    BY <1>4, <2>4, <2>5
<1>5. CASE ListTables
  BY <1>1, <1>5, ListTablesTrue
<1>6. CASE PingClose \/ Close
  BY <1>1, <1>6, CloseTrue
<1> QED
  BY <1>2, <1>3, <1>4, <1>5, <1>6 DEF ProbeStep

(* Every step of the specification keeps the invariant.                    *)
LEMMA StepTrue ==
  ASSUME ProbeInv, [Next]_vars
  PROVE  ProbeInv'
<1>1. changes \in 0 .. MaxChanges
  BY Zenon DEF ProbeInv, ProbeTypes
<1>2. ASSUME UNCHANGED <<probeVars, serverVars>>
      PROVE  ProbeInv'
  BY <1>1, <1>2, QuietTrue DEF serverVars
<1>3. ASSUME NEW file, NEW content, Edit(file, content)
      PROVE  ProbeInv'
  <2>1. changes' \in 0 .. MaxChanges
    BY <1>1, <1>3, ProbeAssumption DEF Edit
  <2> QED
    BY <1>3, <2>1, QuietTrue DEF Edit
<1>4. CASE ServerChange
  BY <1>4, ServerChangeTrue
<1>5. CASE ProbeStep
  BY <1>5, ProbeStepTrue
<1>6. ASSUME NEW uri \in Uris, CheckSource(FromUri(uri))
      PROVE  ProbeInv'
  BY <1>6, StartProbeTrue DEF CheckSource
<1>7. CASE Checked \/ Offered
  BY <1>7, ReportTrue DEF Checked, Offered, serverVars
<1>8. CASE Offer
  BY <1>8, StartProbeTrue DEF Offer, serverVars
<1>9. CASE Start \/ NextRoot \/ Walked \/ \E entry \in pending : Visit(entry[1], entry[2])
  BY <1>2, <1>9 DEF Start, NextRoot, Walked, Visit, Unprobed
<1>10. CASE ReadEnv \/ ReadCompose \/ NextService \/ ReadEnvFile \/ EnvFilesRead
  BY <1>2, <1>10 DEF ReadEnv, ReadCompose, NextService, ReadEnvFile, EnvFilesRead, FailScan,
                     Return, Unprobed
<1>11. CASE FileDone \/ Skip \/ BadPort \/ RootDone \/ Finish
  BY <1>2, <1>11 DEF FileDone, Skip, BadPort, RootDone, Finish, FailScan, Return, Unprobed
<1>12. CASE UNCHANGED vars
  BY <1>2, <1>12 DEF vars
<1> QED
  BY <1>3, <1>4, <1>5, <1>6, <1>7, <1>8, <1>9, <1>10, <1>11, <1>12 DEF Next, ScanStep

(* Every state of the specification satisfies the invariant.               *)
THEOREM Invariance == Spec => []ProbeInv
<1>1. Init => ProbeInv
  BY ProbeInitTrue DEF Init
<1>2. ProbeInv /\ [Next]_vars => ProbeInv'
  BY StepTrue
<1> QED
  BY <1>1, <1>2, PTL DEF Spec

-----------------------------------------------------------------------------
(* What follows from it.                                                   *)

(* A probe that is over has left no connection open, whichever of its      *)
(* calls failed (inspect_mysql_source, inspect_postgres_source).           *)
THEOREM ProbesClose == Spec => []NothingLeftOpen
<1>1. ProbeInv => NothingLeftOpen
  BY DEF ProbeInv, OpenAsConnected, NothingLeftOpen, At, Connected
<1> QED
  BY <1>1, Invariance, PTL

(* A server left alone is found ok if it answers and its list of tables    *)
(* and latest log are understood, and compatible if logs and options are   *)
(* there too, however many servers and tables come and go elsewhere        *)
(* (ping_source_definition, inspect_mysql_source, inspect_postgres_source).*)
THEOREM VerdictsAreRight == Spec => []JudgedRight
<1>1. ProbeInv => JudgedRight
  BY DEF ProbeInv
<1> QED
  BY <1>1, Invariance, PTL

-----------------------------------------------------------------------------
(* The types of a scan: in particular, that it has a root, a file and a    *)
(* service at hand where it uses them.                                     *)

(* Where the scan is: at a root, reading its files, in a file, in a        *)
(* service of a compose file or the settings of an .env file.              *)
AtRoot    == {"walk", "read", "service", "env file", "build", "probe"}
AtFile    == {"service", "env file", "build", "probe"}
AtMapping == {"env file", "build", "probe"}

Verdicts == [ok : BOOLEAN, compatible : BOOLEAN]
Sized(s) == Len(s) \in Nat /\ s = [i \in 1 .. Len(s) |-> s[i]]

DiskTyped  == IsDisk(disk) /\ touched \subseteq Files
WalkTyped  ==
  root \in 0 .. Len(Roots) /\ pending \subseteq Dirs \X (0 .. MaxDepth) /\ matches \in Seq(Files)
ReadTyped  ==
  /\ todo \in Seq(Files) /\ services \in Seq(Services) /\ envFiles \in Seq(EnvPaths)
  /\ IsSettings(mapping)
OfferTyped ==
  /\ Sized(candidates) /\ \A i \in DOMAIN candidates : candidates[i].test \in Verdicts
  /\ \A c \in result : c.test \in Verdicts
Typed ==
  /\ probe.address \in Addresses \union {Nowhere}
  /\ at \in Stages
  /\ DiskTyped /\ WalkTyped /\ ReadTyped /\ OfferTyped

Placed ==
  /\ ~Scanning => root = 0 /\ candidates = <<>>
  /\ at \in AtRoot => root \in 1 .. Len(Roots) /\ Roots[root] \in Dirs
  /\ at \in AtFile => todo # <<>>
  /\ at \in {"service", "env file"} => IsCompose(File)
  /\ at \in AtMapping /\ IsCompose(File) => services # <<>>
  /\ at = "probe" => CompleteConfig(mapping) /\ PortOf(mapping) # Bad


-----------------------------------------------------------------------------
(* Types of a scan.                                                        *)

(* With those of the probe they are the types of all variables.            *)
LEMMA TypesHold ==
  ASSUME ProbeInv, Typed
  PROVE  TypeOK
<1>1. ProbeTypeOK
  <2>1. probe \in [address : Addresses \union {Nowhere}, at : Steps]
    BY DEF ProbeInv, ProbeTypes, IsProbe, Typed
  <2> QED
    BY <2>1, Zenon DEF ProbeInv, ProbeTypes, ProbeTypeOK
<1>2. DOMAIN disk = Files
  BY DEF Typed, DiskTyped, IsDisk
<1>3. envFiles \in Seq(Files)
  <2>1. EnvPaths \subseteq Files
    BY DEF EnvPaths
  <2> QED
    BY <2>1 DEF Typed, ReadTyped
<1>4. {matches, todo, envFiles} \subseteq Seq(DOMAIN disk)
  BY <1>2, <1>3 DEF Typed, WalkTyped, ReadTyped
<1> QED
  BY <1>1, <1>2, <1>4 DEF Typed, DiskTyped, WalkTyped, OfferTyped, TypeOK, Verdicts

(* A sequence and what is appended to it.                                  *)
LEMMA SizedAppend ==
  ASSUME NEW s, Sized(s), NEW x
  PROVE  /\ Sized(Append(s, x)) /\ Len(Append(s, x)) = Len(s) + 1
         /\ \A i \in 1 .. Len(s) : Append(s, x)[i] = s[i]
         /\ Append(s, x)[Len(s) + 1] = x
<1> DEFINE S == {s[i] : i \in 1 .. Len(s)} \union {x}
<1>1. s \in [1 .. Len(s) -> S]
  BY DEF Sized
<1>2. s \in Seq(S)
  BY <1>1 DEF Sized
<1>3. x \in S
  OBVIOUS
<1> HIDE DEF S
<1>4. /\ Append(s, x) \in Seq(S) /\ Len(Append(s, x)) = Len(s) + 1
      /\ \A i \in 1 .. Len(s) : Append(s, x)[i] = s[i]
      /\ Append(s, x)[Len(s) + 1] = x
  BY <1>2, <1>3
<1>5. Sized(Append(s, x))
  <2>1. ASSUME NEW t \in Seq(S)
        PROVE  Sized(t)
    BY DEF Sized
  <2> QED
    BY <1>4, <2>1
<1> QED
  BY <1>4, <1>5

(* What is left of a sequence.                                             *)
LEMMA TailType ==
  ASSUME NEW S, NEW s \in Seq(S), s # <<>>
  PROVE  /\ Tail(s) \in Seq(S) /\ s[1] \in S /\ Len(s) \in Nat \ {0}
         /\ Len(Tail(s)) = Len(s) - 1
         /\ \A i \in 1 .. Len(s) - 1 : Tail(s)[i] = s[i + 1]
OBVIOUS

(* A set of three.                                                         *)
LEMMA ThreeFinite ==
  ASSUME NEW a, NEW b, NEW c
  PROVE  IsFiniteSet({a, b, c})
<1>1. IsFiniteSet({a})
  BY FS_Singleton
<1>2. IsFiniteSet({a} \union {b})
  BY <1>1, FS_AddElement
<1>3. IsFiniteSet(({a} \union {b}) \union {c})
  BY <1>2, FS_AddElement
<1>4. ({a} \union {b}) \union {c} = {a, b, c}
  OBVIOUS
<1> QED
  BY <1>3, <1>4

(* The files found in a directory have one of three names.                 *)
LEMMA FoundFinite ==
  ASSUME DiskTyped, NEW d
  PROVE  IsFiniteSet(Found(d)) /\ Found(d) \subseteq Files
<1>1. DOMAIN disk = Files
  BY DEF DiskTyped, IsDisk
<1>2. Found(d) \subseteq Files
  BY <1>1 DEF Found
<1>3. Found(d) \subseteq {<<d, EnvFile>>, <<d, "docker-compose.yml">>, <<d, "docker-compose.yaml">>}
  <2> SUFFICES ASSUME NEW f \in Found(d)
               PROVE  f \in {<<d, EnvFile>>, <<d, "docker-compose.yml">>, <<d, "docker-compose.yaml">>}
    OBVIOUS
  <2>1. f = <<f[1], f[2]>>
    BY <1>2, FilesAssumption
  <2>2. f[1] = d /\ f[2] \in {EnvFile, "docker-compose.yml", "docker-compose.yaml"}
    BY DEF Found, IsCompose, ComposeFiles
  <2> QED
    BY <2>1, <2>2
<1>4. IsFiniteSet({<<d, EnvFile>>, <<d, "docker-compose.yml">>, <<d, "docker-compose.yaml">>})
  BY ThreeFinite
<1> QED
  BY <1>2, <1>3, <1>4, FS_Subset

(* What is read of an .env file are settings.                              *)
LEMMA ParsedType ==
  ASSUME DiskTyped, NEW f \in EnvPaths
  PROVE  IsSettings(Parsed(f))
<1>1. f \in Files /\ ~IsCompose(f)
  BY DEF EnvPaths
<1>2. IsSettings(NoSettings)
  BY DEF IsSettings, NoSettings
<1>3. disk[f] = Missing \/ IsSettings(disk[f])
  BY <1>1 DEF DiskTyped, IsDisk, IsContent
<1> QED
  BY <1>2, <1>3 DEF Parsed

(* Settings that others are put over are settings.                         *)
LEMMA UpdatedType ==
  ASSUME NEW m, IsSettings(m), NEW w, IsSettings(w)
  PROVE  IsSettings(Updated(m, w))
BY DEF IsSettings, Updated

(* A complete configuration with a port names a server.                    *)
LEMMA AddressType ==
  ASSUME NEW m, IsSettings(m), CompleteConfig(m), PortOf(m) # Bad
  PROVE  Address(m) \in Addresses
<1>1. HostOf(m) \in Hosts
  BY DEF CompleteConfig, HostOf, Or, Setting, IsSettings
<1>2. PortOf(m) \in Ports
  BY ProbeAssumption DEF PortOf, Or, Setting, IsSettings
<1> QED
  BY <1>1, <1>2 DEF Address, Addresses

(* So does a URI.                                                          *)
LEMMA UriType ==
  ASSUME NEW uri \in Uris
  PROVE  FromUri(uri) \in Addresses
<1>1. uri.host \in Hosts /\ (uri.port = Blank \/ uri.port \in Ports)
  BY UrisAssumption
<1>2. DefaultPort(DbType(uri.scheme)) \in Ports /\ Driver(DbType(uri.scheme)) \in {"mysql", "postgres"}
  BY ProbeAssumption DEF DefaultPort, Driver
<1> QED
  BY <1>1, <1>2 DEF FromUri, Addresses

-----------------------------------------------------------------------------
(* Every step keeps the types.                                             *)
IsTyped == ProbeInv /\ Typed /\ Placed

(* The parts that a step leaves alone stay typed.                          *)
LEMMA Unwritten ==
  ASSUME IsTyped
  PROVE  /\ UNCHANGED <<disk, touched>> => DiskTyped'
         /\ UNCHANGED walkVars => WalkTyped'
         /\ UNCHANGED readVars => ReadTyped'
         /\ UNCHANGED <<candidates, result>> => OfferTyped'
<1>1. DiskTyped /\ WalkTyped /\ ReadTyped /\ OfferTyped
  BY DEF IsTyped, Typed
<1>2. ASSUME UNCHANGED <<disk, touched>> PROVE DiskTyped'
  BY <1>1, <1>2 DEF DiskTyped
<1>3. ASSUME UNCHANGED walkVars PROVE WalkTyped'
  BY <1>1, <1>3 DEF walkVars, WalkTyped
<1>4. ASSUME UNCHANGED readVars PROVE ReadTyped'
  BY <1>1, <1>4 DEF readVars, ReadTyped
<1>5. ASSUME UNCHANGED <<candidates, result>> PROVE OfferTyped'
  BY <1>1, <1>5 DEF OfferTyped
<1> QED
  BY <1>2, <1>3, <1>4, <1>5

(* A step of the probe stays at its address.                               *)
LEMMA AddressStays ==
  ASSUME ProbeInv, ProbeStep
  PROVE  probe'.address = probe.address
<1>1. PICK step : Goto(step)
  BY DEF ProbeStep, PingConnect, Select1, PingClose, InspectConnect, ListTables, ReadOptions,
     ReadDatabase, ReadSample, Close, CloseConnection, Connect, Statement, Call, Raise
<1> QED
  BY <1>1 DEF Goto, ProbeInv, ProbeTypes, IsProbe

(* Nothing is scanned yet.                                                 *)
LEMMA InitTyped ==
  ASSUME Init
  PROVE  Typed /\ Placed
<1>1. probe.address = Nowhere /\ at \in Stages /\ ~Scanning
  BY DEF Init, ProbeInit, NoProbe, Stages, Scanning
<1>2. DiskTyped
  BY FilesAssumption DEF Init, DiskTyped
<1>3. WalkTyped
  BY DirsAssumption DEF Init, WalkTyped
<1>4. ReadTyped
  BY DEF Init, ReadTyped, IsSettings, NoSettings
<1>5. OfferTyped
  BY DEF Init, OfferTyped, Sized
<1>6. Placed
  BY DEF Init, Placed, Scanning, AtRoot, AtFile, AtMapping
<1> QED
  BY <1>1, <1>2, <1>3, <1>4, <1>5, <1>6 DEF Typed

(* Files are edited, servers change, and a probe goes on or is made for a  *)
(* request: the scan stays where it is.                                    *)
LEMMA AroundTyped ==
  ASSUME IsTyped, DiskTyped', probe'.address \in Addresses \union {Nowhere},
         UNCHANGED <<at, walkVars, readVars, candidates, result>>
  PROVE  Typed' /\ Placed'
<1>1. WalkTyped' /\ ReadTyped' /\ OfferTyped'
  BY Unwritten
<1>2. at' \in Stages
  BY DEF IsTyped, Typed
<1>3. Placed'
  <2>1. UNCHANGED <<at, root, todo, services, mapping, candidates>>
    BY DEF walkVars, readVars
  <2>2. Placed
    BY DEF IsTyped
  <2> QED
    BY <2>1, <2>2 DEF Placed, Scanning, File
<1> QED
  BY <1>1, <1>2, <1>3 DEF Typed

(* A file is written, replaced or removed.                                 *)
LEMMA EditTyped ==
  ASSUME IsTyped, NEW file \in DOMAIN disk, NEW content \in Edits[file], Edit(file, content)
  PROVE  Typed' /\ Placed'
<1>1. IsDisk(disk) /\ touched \subseteq Files /\ file \in Files
  BY DEF IsTyped, Typed, DiskTyped, IsDisk
<1>2. IsContent(file, content)
  BY <1>1, FilesAssumption
<1>3. disk' = [disk EXCEPT ![file] = content] /\ touched' = touched \union {file}
  BY DEF Edit
<1>4. DiskTyped'
  BY <1>1, <1>2, <1>3 DEF DiskTyped, IsDisk
<1>5. probe'.address \in Addresses \union {Nowhere}
  BY DEF IsTyped, Typed, Edit, probeVars
<1> QED
  BY <1>4, <1>5, AroundTyped DEF Edit

(* The scan begins, and the next root is taken.                            *)
LEMMA RootTyped ==
  ASSUME IsTyped, Start \/ NextRoot
  PROVE  Typed' /\ Placed'
<1>1. probe'.address \in Addresses \union {Nowhere} /\ UNCHANGED disk
  BY DEF IsTyped, Typed, Start, NextRoot, Unprobed, probeVars
<1>2. CASE Start
  <2>1. DiskTyped'
    BY <1>1, <1>2 DEF IsTyped, Typed, DiskTyped, Start
  <2>2. WalkTyped' /\ ReadTyped'
    BY <1>2, Unwritten DEF Start
  <2>3. OfferTyped'
    BY <1>2 DEF IsTyped, Typed, OfferTyped, Start
  <2>4. at' \in Stages /\ Placed'
    BY <1>2 DEF Start, IsTyped, Placed, Scanning, AtRoot, AtFile, AtMapping, Stages
  <2> QED
    BY <1>1, <2>1, <2>2, <2>3, <2>4 DEF Typed
<1>3. CASE NextRoot
  <2>1. DiskTyped' /\ ReadTyped' /\ OfferTyped'
    BY <1>1, <1>3, Unwritten DEF NextRoot
  <2>2. WalkTyped'
    <3>1. WalkTyped /\ Len(Roots) \in Nat /\ MaxDepth \in Nat
      BY DirsAssumption DEF IsTyped, Typed
    <3>2. root' \in 0 .. Len(Roots)
      BY <1>3, <3>1 DEF NextRoot, WalkTyped
    <3>3. CASE Roots[root + 1] \in Dirs
      <4>1. pending' = {<<Roots[root + 1], 0>>} /\ matches' = <<>>
        BY <1>3, <3>3 DEF NextRoot
      <4>2. 0 \in 0 .. MaxDepth
        BY <3>1
      <4> HIDE <1>3
      <4> QED
        BY <3>2, <3>3, <4>1, <4>2 DEF WalkTyped
    <3>4. CASE Roots[root + 1] \notin Dirs
      <4>1. UNCHANGED <<pending, matches>>
        BY <1>3, <3>4 DEF NextRoot
      <4> QED
        BY <3>1, <3>2, <4>1 DEF WalkTyped
    <3> QED
      BY <3>3, <3>4
  <2>3. at' \in Stages
    BY <1>3 DEF NextRoot, Stages
  <2>4. Placed'
    <3>1. root' \in 1 .. Len(Roots) /\ root' = root + 1
      BY <1>3, DirsAssumption DEF NextRoot, IsTyped, Typed, WalkTyped
    <3>2. (at' = "walk" /\ Roots[root'] \in Dirs) \/ at' = "root"
      BY <1>3, <3>1 DEF NextRoot
    <3> QED
      BY <3>1, <3>2 DEF Placed, Scanning, AtRoot, AtFile, AtMapping
  <2> QED
    BY <1>1, <2>1, <2>2, <2>3, <2>4 DEF Typed
<1> QED
  BY <1>2, <1>3

(* A directory is listed.                                                  *)
LEMMA VisitTyped ==
  ASSUME IsTyped, NEW d, NEW depth, Visit(d, depth)
  PROVE  Typed' /\ Placed'
<1>1. probe'.address \in Addresses \union {Nowhere}
  BY DEF IsTyped, Typed, Visit, Unprobed, probeVars
<1>2. DiskTyped' /\ ReadTyped' /\ OfferTyped'
  BY Unwritten DEF Visit, Unprobed
<1>3. pending' \subseteq Dirs \X (0 .. MaxDepth)
  <2>1. d \in Dirs /\ depth \in 0 .. MaxDepth /\ pending \subseteq Dirs \X (0 .. MaxDepth)
    BY DEF Visit, IsTyped, Typed, WalkTyped
  <2>2. Below(d, depth) \subseteq Dirs \X (0 .. MaxDepth)
    BY <2>1, DirsAssumption DEF Below, Enters
  <2> QED
    BY <2>1, <2>2 DEF Visit
<1>4. matches' \in Seq(Files)
  <2>1. PICK l \in Listings(Found(d)) : matches' = matches \o l
    BY DEF Visit
  <2>2. IsFiniteSet(Found(d)) /\ Found(d) \subseteq Files
    BY FoundFinite DEF IsTyped, Typed
  <2>3. Cardinality(Found(d)) \in Nat
    BY <2>2, FS_CardinalityType
  <2>4. l \in Seq(Files)
    <3>1. l \in [1 .. Cardinality(Found(d)) -> Files]
      BY <2>2 DEF Listings, Bijection, Injection
    <3> QED
      BY <2>3, <3>1
  <2>5. matches \in Seq(Files)
    BY DEF IsTyped, Typed, WalkTyped
  <2> QED
    BY <2>1, <2>4, <2>5
<1>5. WalkTyped'
  BY <1>3, <1>4 DEF Visit, IsTyped, Typed, WalkTyped
<1>6. at' \in Stages /\ Placed'
  BY DEF Visit, IsTyped, Placed, Scanning, AtRoot, AtFile, AtMapping, Stages
<1> QED
  BY <1>1, <1>2, <1>5, <1>6 DEF Typed

(* All are listed: their files are put in order.                           *)
LEMMA WalkedTyped ==
  ASSUME IsTyped, Walked
  PROVE  Typed' /\ Placed'
<1>1. probe'.address \in Addresses \union {Nowhere}
  BY DEF IsTyped, Typed, Walked, Unprobed, probeVars
<1>2. DiskTyped' /\ WalkTyped' /\ OfferTyped'
  BY Unwritten DEF Walked, Unprobed
<1>3. todo' \in Seq(Files)
  <2>1. PICK p \in [DOMAIN matches -> DOMAIN matches] : todo' = [i \in DOMAIN matches |-> matches[p[i]]]
    BY DEF Walked
  <2>2. matches \in Seq(Files)
    BY DEF IsTyped, Typed, WalkTyped
  <2>3. Len(matches) \in Nat /\ DOMAIN matches = 1 .. Len(matches) /\ \A i \in DOMAIN matches : matches[i] \in Files
    BY <2>2
  <2>4. todo' \in [1 .. Len(matches) -> Files]
    BY <2>1, <2>3
  <2> QED
    BY <2>3, <2>4
<1>4. ReadTyped'
  BY <1>3 DEF Walked, IsTyped, Typed, ReadTyped
<1>5. at' \in Stages /\ Placed'
  BY DEF Walked, walkVars, IsTyped, Placed, Scanning, AtRoot, AtFile, AtMapping, Stages
<1> QED
  BY <1>1, <1>2, <1>4, <1>5 DEF Typed

(* What the scan reads has its type.                                       *)
LEMMA ServiceType ==
  ASSUME IsTyped, services # <<>>
  PROVE  services[1] \in Services /\ IsSettings(services[1].environment)
         /\ services[1].env_file \in Seq(EnvPaths)
<1>1. services[1] \in Services
  BY TailType DEF IsTyped, Typed, ReadTyped
<1> QED
  BY <1>1, FilesAssumption

(* A file is opened, and a service or an env file of it taken.             *)
LEMMA ReadingTyped ==
  ASSUME IsTyped,
         ReadEnv \/ NextService \/ ReadEnvFile \/ EnvFilesRead \/ (ReadCompose /\ ~FailScan)
  PROVE  Typed' /\ Placed'
<1>1. Unprobed /\ UNCHANGED <<walkVars, todo, candidates, result, touched>>
  BY DEF ReadEnv, NextService, ReadEnvFile, EnvFilesRead, ReadCompose, readVars
<1>2. probe'.address \in Addresses \union {Nowhere} /\ DiskTyped' /\ WalkTyped' /\ OfferTyped'
  BY <1>1, Unwritten DEF IsTyped, Typed, Unprobed, probeVars
<1>3. at' \in Stages
  BY DEF ReadEnv, NextService, ReadEnvFile, EnvFilesRead, ReadCompose, Stages, IsTyped, Typed
<1>4. ReadTyped /\ DiskTyped
  BY DEF IsTyped, Typed
<1>5. CASE ReadEnv
  <2>1. File \in EnvPaths
    <3>1. File \in Files /\ ~IsCompose(File)
      BY <1>4, <1>5, TailType DEF ReadEnv, File, ReadTyped
    <3> QED
      BY <3>1 DEF EnvPaths
  <2>2. IsSettings(mapping')
    BY <1>4, <1>5, <2>1, ParsedType DEF ReadEnv
  <2>3. ReadTyped'
    BY <1>4, <1>5, <2>2 DEF ReadEnv, ReadTyped
  <2>4. Placed'
    BY <1>5 DEF ReadEnv, IsTyped, Placed, Scanning, AtRoot, AtFile, AtMapping, walkVars, File
  <2> QED
    BY <1>2, <1>3, <2>3, <2>4 DEF Typed
<1>6. CASE ReadCompose /\ ~FailScan
  <2>1. /\ at = "read" /\ todo # <<>> /\ IsCompose(File) /\ disk[File] \notin {Missing, Unreadable}
        /\ services' = disk[File] /\ at' = "service"
        /\ UNCHANGED <<walkVars, todo, mapping, envFiles, candidates>>
    BY <1>6 DEF ReadCompose
  <2>2. File \in Files
    BY <1>4, <2>1, TailType DEF File, ReadTyped
  <2>3. services' \in Seq(Services)
    BY <1>4, <2>1, <2>2 DEF DiskTyped, IsDisk, IsContent
  <2>4. ReadTyped'
    BY <1>4, <2>1, <2>3 DEF ReadTyped
  <2>5. Placed'
    BY <2>1 DEF IsTyped, Placed, Scanning, AtRoot, AtFile, AtMapping, walkVars, File
  <2> QED
    BY <1>2, <1>3, <2>4, <2>5 DEF Typed
<1>7. CASE NextService
  <2>1. services # <<>> /\ mapping' = services[1].environment /\ envFiles' = services[1].env_file
        /\ UNCHANGED <<todo, services>>
    BY <1>7 DEF NextService
  <2>2. IsSettings(mapping') /\ envFiles' \in Seq(EnvPaths)
    BY <2>1, ServiceType
  <2>3. ReadTyped'
    BY <1>4, <2>1, <2>2 DEF ReadTyped
  <2>4. Placed'
    BY <1>7 DEF NextService, IsTyped, Placed, Scanning, AtRoot, AtFile, AtMapping, walkVars, File
  <2> QED
    BY <1>2, <1>3, <2>3, <2>4 DEF Typed
<1>8. CASE ReadEnvFile
  <2>1. envFiles # <<>> /\ envFiles \in Seq(EnvPaths)
    BY <1>4, <1>8 DEF ReadEnvFile, ReadTyped
  <2>2. Tail(envFiles) \in Seq(EnvPaths) /\ envFiles[1] \in EnvPaths
    BY <2>1, TailType
  <2>3. IsSettings(Parsed(envFiles[1])) /\ IsSettings(mapping)
    BY <1>4, <2>2, ParsedType DEF ReadTyped
  <2>4. IsSettings(Updated(mapping, Parsed(envFiles[1])))
    BY <2>3, UpdatedType
  <2>5. ReadTyped'
    BY <1>4, <1>8, <2>2, <2>4 DEF ReadEnvFile, ReadTyped
  <2>6. Placed'
    BY <1>8 DEF ReadEnvFile, IsTyped, Placed, Scanning, AtRoot, AtFile, AtMapping, walkVars, File
  <2> QED
    BY <1>2, <1>3, <2>5, <2>6 DEF Typed
<1>9. CASE EnvFilesRead
  <2>1. ReadTyped'
    BY <1>9, Unwritten DEF EnvFilesRead
  <2>2. Placed'
    BY <1>9 DEF EnvFilesRead, IsTyped, Placed, Scanning, AtRoot, AtFile, AtMapping, walkVars, readVars, File
  <2> QED
    BY <1>2, <1>3, <2>1, <2>2 DEF Typed
<1> QED
  BY <1>5, <1>6, <1>7, <1>8, <1>9

(* The scan fails, or comes to its end: its variables are gone.            *)
LEMMA EndTyped ==
  ASSUME IsTyped, FailScan \/ Finish
  PROVE  Typed' /\ Placed'
<1>1. Return /\ at' \in {"failed", "done"}
  BY DEF FailScan, Finish
<1>2. probe'.address \in Addresses \union {Nowhere} /\ DiskTyped'
  BY <1>1, Unwritten DEF Return, IsTyped, Typed, Unprobed, probeVars
<1>3. WalkTyped'
  BY <1>1, DirsAssumption DEF Return, WalkTyped
<1>4. ReadTyped'
  BY <1>1 DEF Return, ReadTyped, IsSettings, NoSettings
<1>5. OfferTyped'
  <2>1. Sized(candidates)' /\ candidates' = <<>>
    BY <1>1 DEF Return, Sized
  <2>2. \A c \in result' : c.test \in Verdicts
    <3>1. CASE FailScan
      BY <3>1 DEF FailScan, IsTyped, Typed, OfferTyped
    <3>2. CASE Finish
      BY <3>2 DEF Finish, Deduped, IsTyped, Typed, OfferTyped
    <3> QED
      BY <3>1, <3>2
  <2> QED
    BY <2>1, <2>2 DEF OfferTyped
<1>6. at' \in Stages /\ Placed'
  BY <1>1 DEF Return, Placed, Scanning, AtRoot, AtFile, AtMapping, Stages
<1> QED
  BY <1>2, <1>3, <1>4, <1>5, <1>6 DEF Typed

(* The candidate that is probed has an address.                            *)
LEMMA OfferTypes ==
  ASSUME IsTyped, Offer
  PROVE  Typed' /\ Placed'
<1>1. ReadTyped /\ CompleteConfig(mapping) /\ PortOf(mapping) # Bad /\ at = "build" /\ at' = "probe"
  BY DEF IsTyped, Typed, Offer
<1>2. Address(mapping) \in Addresses
  BY <1>1, AddressType DEF ReadTyped
<1>3. probe'.address \in Addresses \union {Nowhere}
  BY <1>2 DEF Offer, StartProbe
<1>4. DiskTyped' /\ WalkTyped' /\ ReadTyped' /\ OfferTyped'
  BY Unwritten DEF Offer
<1>5. Placed'
  <2>1. UNCHANGED <<root, todo, services, mapping, candidates>> /\ Placed
    BY DEF IsTyped, Offer, walkVars, readVars
  <2> QED
    BY <1>1, <2>1 DEF Placed, Scanning, AtRoot, AtFile, AtMapping, File
<1> QED
  BY <1>1, <1>3, <1>4, <1>5 DEF Typed, Stages

(* On to the next service or file.                                         *)
LEMMA OnwardTyped ==
  ASSUME IsTyped, at \in {"build", "probe"}, Onward, UNCHANGED <<walkVars, mapping, envFiles>>
  PROVE  /\ ReadTyped' /\ WalkTyped' /\ at' \in Stages
         /\ Placed'
<1>1. ReadTyped /\ WalkTyped /\ todo # <<>> /\ Placed
  BY DEF IsTyped, Typed, Placed, AtFile
<1>2. todo \in Seq(Files) /\ services \in Seq(Services)
  BY <1>1 DEF ReadTyped
<1>3. WalkTyped'
  BY Unwritten
<1>4. root' = root /\ root \in 1 .. Len(Roots) /\ Roots[root] \in Dirs
  BY <1>1 DEF walkVars, Placed, AtRoot
<1>5. CASE IsCompose(File)
  <2>1. services # <<>> /\ services' = Tail(services) /\ at' = "service" /\ todo' = todo
    BY <1>1, <1>5 DEF Onward, Placed, AtMapping
  <2>2. services' \in Seq(Services)
    BY <1>2, <2>1, TailType
  <2>3. ReadTyped'
    BY <1>1, <2>1, <2>2 DEF ReadTyped
  <2>4. Placed'
    BY <1>1, <1>4, <1>5, <2>1 DEF Placed, Scanning, AtRoot, AtFile, AtMapping, File
  <2> QED
    BY <1>3, <2>1, <2>3, <2>4 DEF Stages
<1>6. CASE ~IsCompose(File)
  <2>1. todo' = Tail(todo) /\ at' = "read" /\ services' = services
    BY <1>6 DEF Onward
  <2>2. todo' \in Seq(Files)
    BY <1>1, <1>2, <2>1, TailType
  <2>3. ReadTyped'
    BY <1>1, <2>1, <2>2 DEF ReadTyped
  <2>4. Placed'
    BY <1>4, <2>1 DEF Placed, Scanning, AtRoot, AtFile, AtMapping
  <2> QED
    BY <1>3, <2>1, <2>3, <2>4 DEF Stages
<1> QED
  BY <1>5, <1>6

(* A configuration is passed over or has been offered, a compose file or a *)
(* root is through.                                                        *)
LEMMA OnTyped ==
  ASSUME IsTyped, Skip \/ Offered \/ FileDone \/ RootDone
  PROVE  Typed' /\ Placed'
<1>1. probe'.address \in Addresses \union {Nowhere}
  BY DEF IsTyped, Typed, Skip, Offered, FileDone, RootDone, Unprobed, probeVars, Report, NoProbe
<1>2. UNCHANGED <<disk, touched>> /\ DiskTyped'
  BY Unwritten DEF Skip, Offered, FileDone, RootDone, Unprobed
<1>3. CASE Skip
  <2>1. ReadTyped' /\ WalkTyped' /\ at' \in Stages /\ Placed'
    BY <1>3, OnwardTyped DEF Skip
  <2>2. OfferTyped'
    BY <1>3, Unwritten DEF Skip
  <2> QED
    BY <1>1, <1>2, <2>1, <2>2 DEF Typed
<1>4. CASE Offered
  <2>1. ReadTyped' /\ WalkTyped' /\ at' \in Stages /\ Placed'
    BY <1>4, OnwardTyped DEF Offered
  <2>2. PICK new : new.test = verdict /\ candidates' = Append(candidates, new)
    BY <1>4 DEF Offered
  <2>3. verdict \in Verdicts
    BY Types DEF IsTyped, ProbeInv, Verdicts
  <2>4. OfferTyped /\ result' = result
    BY <1>4 DEF Offered, IsTyped, Typed
  <2>5. Sized(candidates') /\ \A i \in DOMAIN candidates' : candidates'[i].test \in Verdicts
    <3>1. Sized(candidates)
      BY <2>4 DEF OfferTyped
    <3>2. /\ Sized(Append(candidates, new)) /\ Len(Append(candidates, new)) = Len(candidates) + 1
          /\ \A i \in 1 .. Len(candidates) : Append(candidates, new)[i] = candidates[i]
          /\ Append(candidates, new)[Len(candidates) + 1] = new
      BY <3>1, SizedAppend
    <3>3. \A i \in 1 .. Len(candidates) : candidates[i].test \in Verdicts
      BY <2>4 DEF OfferTyped, Sized
    <3> QED
      BY <2>2, <2>3, <3>1, <3>2, <3>3 DEF Sized
  <2>6. OfferTyped'
    BY <2>4, <2>5 DEF OfferTyped
  <2> QED
    BY <1>1, <1>2, <2>1, <2>6 DEF Typed
<1>5. CASE FileDone
  <2>1. todo # <<>> /\ todo \in Seq(Files)
    BY <1>5 DEF FileDone, IsTyped, Typed, ReadTyped, Placed, AtFile
  <2>2. Tail(todo) \in Seq(Files)
    BY <2>1, TailType
  <2>3. ReadTyped'
    BY <1>5, <2>2 DEF FileDone, IsTyped, Typed, ReadTyped
  <2>4. WalkTyped' /\ OfferTyped'
    BY <1>5, Unwritten DEF FileDone
  <2>5. at' \in Stages /\ Placed'
    BY <1>5 DEF FileDone, walkVars, IsTyped, Placed, Scanning, AtRoot, AtFile, AtMapping, Stages
  <2> QED
    BY <1>1, <1>2, <2>3, <2>4, <2>5 DEF Typed
<1>6. CASE RootDone
  <2>1. ReadTyped' /\ WalkTyped' /\ OfferTyped'
    BY <1>6, Unwritten DEF RootDone
  <2>2. at' \in Stages /\ Placed'
    BY <1>6 DEF RootDone, IsTyped, Placed, Scanning, AtRoot, AtFile, AtMapping, Stages
  <2> QED
    BY <1>1, <1>2, <2>1, <2>2 DEF Typed
<1> QED
  BY <1>3, <1>4, <1>5, <1>6

(* Every step keeps the types.                                             *)
LEMMA StepTyped ==
  ASSUME IsTyped, [Next]_vars
  PROVE  Typed' /\ Placed'
<1>1. probe.address \in Addresses \union {Nowhere} /\ ProbeInv
  BY DEF IsTyped, Typed
<1>2. ASSUME probe'.address \in Addresses \union {Nowhere}, UNCHANGED <<disk, scanVars>>
      PROVE  Typed' /\ Placed'
  <2>1. DiskTyped'
    BY <1>2, Unwritten DEF scanVars
  <2> QED
    BY <1>2, <2>1, AroundTyped DEF scanVars
<1>3. ASSUME NEW file \in DOMAIN disk, NEW content \in Edits[file], Edit(file, content)
      PROVE  Typed' /\ Placed'
  BY <1>3, EditTyped
<1>4. ASSUME ServerChange, UNCHANGED <<disk, scanVars>>
      PROVE  Typed' /\ Placed'
  BY <1>1, <1>2, <1>4 DEF ServerChange, Toggle, LogRequest, Migrate, Changed
<1>5. ASSUME ProbeStep, UNCHANGED <<disk, scanVars>>
      PROVE  Typed' /\ Placed'
  BY <1>1, <1>2, <1>5, AddressStays
<1>6. ASSUME NEW uri \in Uris, CheckSource(FromUri(uri))
      PROVE  Typed' /\ Placed'
  <2>1. probe'.address \in Addresses
    BY <1>6, UriType DEF CheckSource, StartProbe
  <2> QED
    BY <1>2, <1>6, <2>1 DEF CheckSource, Unscanned, scanVars
<1>7. ASSUME Checked
      PROVE  Typed' /\ Placed'
  BY <1>2, <1>7 DEF Checked, Report, NoProbe, Unscanned, scanVars
<1>8. ASSUME NEW entry \in pending, Visit(entry[1], entry[2])
      PROVE  Typed' /\ Placed'
  BY <1>8, VisitTyped
<1>9. ASSUME Start \/ NextRoot \/ Walked
      PROVE  Typed' /\ Placed'
  BY <1>9, RootTyped, WalkedTyped
<1>10. ASSUME ReadEnv \/ ReadCompose \/ NextService \/ ReadEnvFile \/ EnvFilesRead
       PROVE  Typed' /\ Placed'
  BY <1>10, ReadingTyped, EndTyped
<1>11. ASSUME Skip \/ Offered \/ FileDone \/ RootDone
       PROVE  Typed' /\ Placed'
  BY <1>11, OnTyped
<1>12. ASSUME BadPort \/ Finish \/ Offer
       PROVE  Typed' /\ Placed'
  BY <1>12, EndTyped, OfferTypes DEF BadPort
<1>13. ASSUME UNCHANGED vars
       PROVE  Typed' /\ Placed'
  BY <1>1, <1>2, <1>13 DEF vars, probeVars
<1> QED
  BY <1>3, <1>4, <1>5, <1>6, <1>7, <1>8, <1>9, <1>10, <1>11, <1>12, <1>13, Zenon DEF Next, ScanStep

(* What a scan works on, the probe and what is offered have their types.   *)
THEOREM TypeCorrect == Spec => []TypeOK
<1>1. Init => Typed /\ Placed
  BY InitTyped
<1>2. ProbeInv /\ Typed /\ Placed /\ [Next]_vars => Typed' /\ Placed'
  BY StepTyped DEF IsTyped
<1>3. ProbeInv /\ Typed => TypeOK
  BY TypesHold
<1> QED
  BY <1>1, <1>2, <1>3, Invariance, PTL DEF Spec

-----------------------------------------------------------------------------
(* The inductive invariant of a scan: what is untouched is scanned right.  *)
Untouched == Files \ touched
IsIn(x, s) == \E i \in DOMAIN s : s[i] = x
EnvOf(s) == {s.env_file[k] : k \in DOMAIN s.env_file}

OfRoot(f, r) == f[1] \in Within(r) /\ f \in Found(f[1])

(* A configuration that the scan has come past; a file that it has.        *)
IsOffered(what) == \E i \in DOMAIN candidates : candidates[i].found = what
Settled(c) ==
  CompleteConfig(c.says) /\ c.files \subseteq Untouched =>
    PortOf(c.says) # Bad /\ IsOffered(c.found)
IsRead(f) ==
  f \in Untouched =>
    /\ IsCompose(f) => disk[f] \notin {Missing, Unreadable}
    /\ \A c \in ConfigsOf(f) : Settled(c)

RootsRead ==
  Scanning =>
    \A i \in DOMAIN Roots : \A f \in Files :
      (i < root \/ (i = root /\ at = "root")) /\ Roots[i] \in Dirs /\ OfRoot(f, Roots[i]) => IsRead(f)

(* What is still to be found is below a directory that is pending.         *)
ToCome(f) == \E e \in pending : \E k \in 0 .. MaxDepth - e[2] : LeadsTo(e[1], f[1], k)
WalkTrue ==
  at = "walk" => \A r \in Dirs \intersect {Roots[root]} :
    /\ \A e \in pending : LeadsTo(r, e[1], e[2])
    /\ \A f \in Untouched : /\ IsIn(f, matches) => OfRoot(f, r)
                            /\ OfRoot(f, r) => IsIn(f, matches) \/ ToCome(f)

ReadTrue ==
  at \in AtRoot \ {"walk"} => \A r \in Dirs \intersect {Roots[root]} :
    \A f \in Untouched : /\ IsIn(f, todo) => OfRoot(f, r)
                         /\ OfRoot(f, r) => IsIn(f, todo) \/ IsRead(f)

ServicesTrue ==
  at \in AtFile /\ IsCompose(File) => \A f \in Untouched \intersect {File} :
    /\ disk[f] \notin {Missing, Unreadable}
    /\ \A s \in Services : /\ IsIn(s, services) => IsIn(s, disk[f])
                           /\ IsIn(s, disk[f]) => IsIn(s, services) \/ Settled(ServiceConfig(f, s))

(* The settings read so far are those of a service and the first of its    *)
(* env files; then those of all, or of the .env file.                      *)
EnvFilesTrue ==
  at = "env file" => \A s \in Services \intersect {services[1]} : \E n \in 0 .. Len(s.env_file) :
    /\ n + Len(envFiles) = Len(s.env_file)
    /\ \A i \in 1 .. Len(envFiles) : envFiles[i] = s.env_file[n + i]
    /\ EnvOf(s) \subseteq Untouched => mapping = SettingsAfter(s, n)
MappingTrue ==
  at \in {"build", "probe"} =>
    IF IsCompose(File)
      THEN \A s \in Services \intersect {services[1]} :
             EnvOf(s) \subseteq Untouched => mapping = SettingsAfter(s, Len(s.env_file))
      ELSE \A f \in Untouched \intersect {File} : mapping = Parsed(f)

OffersTrue ==
  Scanning /\ touched = {} =>
    \A i \in DOMAIN candidates : \E c \in Expected : candidates[i].found = c.found

ScanInv ==
  /\ RootsRead /\ WalkTrue /\ ReadTrue /\ ServicesTrue /\ EnvFilesTrue /\ MappingTrue
  /\ OffersTrue /\ ScanFindsAll

-----------------------------------------------------------------------------
(* Directories below one another.                                          *)

LEMMA LeadsNowhere ==
  ASSUME NEW r \in Dirs
  PROVE  LeadsTo(r, r, 0) /\ \A d : LeadsTo(r, d, 0) => d = r
<1>1. LeadsTo(r, r, 0)
  <2> DEFINE way == [i \in 0 .. 0 |-> r]
  <2>1. way \in [0 .. 0 -> Dirs] /\ way[0] = r /\ \A i \in 1 .. 0 : FALSE
    OBVIOUS
  <2> HIDE DEF way
  <2> QED
    BY <2>1 DEF LeadsTo
<1> QED
  BY <1>1 DEF LeadsTo

(* What leads to a directory leads to those that os.walk enters from it.   *)
LEMMA LeadsBelow ==
  ASSUME NEW r, NEW d, NEW k \in Nat, LeadsTo(r, d, k), NEW e \in Below(d, k)
  PROVE  LeadsTo(r, e[1], e[2])
<1>1. PICK c \in Dirs \ {d} : e = <<c, k + 1>> /\ Parent[c] = d /\ c \notin Ignored
  BY DEF Below, Enters
<1>2. PICK way \in [0 .. k -> Dirs] :
        /\ way[0] = r /\ way[k] = d
        /\ \A i \in 1 .. k : /\ way[i] \notin Ignored
                            /\ Parent[way[i]] = way[i - 1] /\ way[i] # way[i - 1]
  BY DEF LeadsTo
<1> DEFINE on == [i \in 0 .. k + 1 |-> IF i = k + 1 THEN c ELSE way[i]]
<1>3. on \in [0 .. k + 1 -> Dirs] /\ on[0] = r /\ on[k + 1] = c
  BY <1>2
<1>4. ASSUME NEW i \in 1 .. k + 1
      PROVE  on[i] \notin Ignored /\ Parent[on[i]] = on[i - 1] /\ on[i] # on[i - 1]
  <2>1. CASE i = k + 1
    <3>1. on[i] = c /\ on[i - 1] = d
      BY <1>2, <2>1
    <3> QED
      BY <1>1, <3>1
  <2>2. CASE i # k + 1
    <3>1. i \in 1 .. k /\ on[i] = way[i] /\ on[i - 1] = way[i - 1]
      BY <2>2
    <3> QED
      BY <1>2, <3>1
  <2> QED
    BY <2>1, <2>2
<1> HIDE DEF on
<1>5. LeadsTo(r, c, k + 1)
  BY <1>3, <1>4 DEF LeadsTo
<1> QED
  BY <1>1, <1>5

(* What leads to another directory goes through one that lies below.       *)
LEMMA LeadsThrough ==
  ASSUME NEW r \in Dirs, NEW d, NEW k \in Nat \ {0}, LeadsTo(r, d, k)
  PROVE  \E c \in Dirs \ {r} : Parent[c] = r /\ c \notin Ignored /\ LeadsTo(c, d, k - 1)
<1>1. PICK way \in [0 .. k -> Dirs] :
        /\ way[0] = r /\ way[k] = d
        /\ \A i \in 1 .. k : /\ way[i] \notin Ignored
                            /\ Parent[way[i]] = way[i - 1] /\ way[i] # way[i - 1]
  BY DEF LeadsTo
<1> DEFINE on == [i \in 0 .. k - 1 |-> way[i + 1]]
<1>2. on \in [0 .. k - 1 -> Dirs] /\ on[0] = way[1] /\ on[k - 1] = d
  BY <1>1
<1>3. ASSUME NEW i \in 1 .. k - 1
      PROVE  on[i] \notin Ignored /\ Parent[on[i]] = on[i - 1] /\ on[i] # on[i - 1]
  <2>1. i + 1 \in 1 .. k /\ on[i] = way[i + 1] /\ on[i - 1] = way[i] /\ (i + 1) - 1 = i
    OBVIOUS
  <2> QED
    BY <1>1, <2>1
<1> HIDE DEF on
<1>4. LeadsTo(way[1], d, k - 1)
  BY <1>2, <1>3 DEF LeadsTo
<1>5. 1 \in 1 .. k /\ 1 - 1 = 0
  OBVIOUS
<1>6. way[1] \in Dirs \ {r} /\ Parent[way[1]] = r /\ way[1] \notin Ignored
  BY <1>1, <1>5
<1> QED
  BY <1>4, <1>6

-----------------------------------------------------------------------------
(* The greatest of some numbers up to n.                                   *)
LEMMA MaxExists ==
  ASSUME NEW n \in Nat, NEW S, S \subseteq 0 .. n, S # {}
  PROVE  Max(S) \in S /\ \A k \in S : k =< Max(S)
<1> DEFINE T == {k .. n : k \in S}
<1>1. T \subseteq SUBSET (0 .. n) /\ T # {}
  <2>1. ASSUME NEW k \in S PROVE k .. n \subseteq 0 .. n
    <3>1. k \in 0 .. n
      OBVIOUS
    <3> QED
      BY <3>1
  <2>2. \A k \in S : k .. n \in T
    OBVIOUS
  <2> QED
    BY <2>1, <2>2, Zenon
<1>2. IsFiniteSet(0 .. n)
  BY FS_Interval
<1> HIDE DEF T
<1>3. PICK t \in T : \A u \in T : ~ (<<u, t>> \in StrictSubsetOrdering(0 .. n))
  <2> DEFINE N == 0 .. n
  <2>1. T \subseteq SUBSET N /\ IsFiniteSet(N)
    BY <1>1, <1>2
  <2> HIDE DEF N
  <2>2. IsWellFoundedOn(StrictSubsetOrdering(N), SUBSET N)
    BY <2>1, FS_StrictSubsetOrderingWellFounded, FS_FiniteSubsetsOfFinite
  <2>3. \E t \in T : \A u \in T : ~ (<<u, t>> \in StrictSubsetOrdering(N))
    BY <1>1, <2>1, <2>2, WFMin
  <2> QED
    BY <2>3 DEF N
<1>4. PICK m \in S : t = m .. n
  BY DEF T
<1>5. ASSUME NEW k \in S
      PROVE  m >= k
  <2>1. k .. n \in T
    BY DEF T
  <2>2. ~ (k .. n \subseteq m .. n /\ k .. n # m .. n)
    BY <1>1, <1>3, <1>4, <2>1 DEF StrictSubsetOrdering
  <2>3. m \in 0 .. n /\ k \in 0 .. n
    OBVIOUS
  <2>4. k > m => k .. n \subseteq m .. n /\ m \notin k .. n /\ m \in m .. n
    BY <2>3
  <2> QED
    BY <2>2, <2>3, <2>4
<1>6. Max(S) \in S /\ \A y \in S : Max(S) >= y
  BY <1>5 DEF Max
<1>7. \A y \in S : y \in Int
  OBVIOUS
<1> QED
  BY <1>6, <1>7

(* It is one of them that no other exceeds, and the only one.              *)
LEMMA MaxIs ==
  ASSUME NEW n \in Nat, NEW S, S \subseteq 0 .. n, NEW m \in S, \A k \in S : k =< m
  PROVE  Max(S) = m
<1>1. Max(S) \in S /\ \A k \in S : k =< Max(S)
  BY MaxExists
<1>2. PICK x : x = Max(S)
  OBVIOUS
<1>3. x \in S /\ m =< x /\ x =< m
  BY <1>1, <1>2
<1>4. x \in 0 .. n /\ m \in 0 .. n
  BY <1>3
<1> QED
  BY <1>2, <1>3, <1>4

(* An injection of a finite set into itself reaches all of it.             *)
LEMMA PermutationsReachAll ==
  ASSUME NEW n \in Nat, NEW p \in [1 .. n -> 1 .. n],
         \A i, j \in 1 .. n : p[i] = p[j] => i = j
  PROVE  \A k \in 1 .. n : \E i \in 1 .. n : p[i] = k
<1>1. IsFiniteSet(1 .. n)
  BY FS_Interval
<1>2. p \in Injection(1 .. n, 1 .. n)
  BY DEF Injection, IsInjective
<1>3. p \in Surjection(1 .. n, 1 .. n)
  <2> DEFINE S == 1 .. n
  <2>1. p \in Injection(S, S) /\ IsFiniteSet(S)
    BY <1>1, <1>2, Zenon
  <2> HIDE DEF S
  <2>2. p \in Surjection(S, S)
    BY <2>1, FS_Injection
  <2> QED
    BY <2>2 DEF S
<1> QED
  BY <1>3 DEF Surjection

(* Of the candidates of an id one remains.                                 *)
LEMMA DedupedKeeps ==
  ASSUME NEW cs, Sized(cs), NEW i \in DOMAIN cs
  PROVE  \E c \in Deduped(cs) : c.found.id = cs[i].found.id
<1> DEFINE n == Len(cs)
           S == {j \in 1 .. n : cs[j].found.id = cs[i].found.id}
<1>1. n \in Nat /\ DOMAIN cs = 1 .. n
  BY DEF Sized
<1>2. S \subseteq 0 .. n /\ i \in S
  BY <1>1
<1>3. \A j \in S : j \in 1 .. n /\ cs[j].found.id = cs[i].found.id
  OBVIOUS
<1>4. \A j \in 1 .. n : cs[j].found.id = cs[i].found.id => j \in S
  OBVIOUS
<1> HIDE DEF n, S
<1>5. Max(S) \in S /\ \A k \in S : k =< Max(S)
  BY <1>1, <1>2, MaxExists
<1>6. PICK m : m = Max(S)
  OBVIOUS
<1>7. m \in DOMAIN cs /\ cs[m].found.id = cs[i].found.id
  BY <1>1, <1>3, <1>5, <1>6
<1>8. \A j \in DOMAIN cs : j > m => cs[j].found.id # cs[m].found.id
  BY <1>1, <1>4, <1>5, <1>6, <1>7
<1>9. cs[m] \in Deduped(cs)
  BY <1>7, <1>8 DEF Deduped
<1> QED
  BY <1>7, <1>9

-----------------------------------------------------------------------------
(* The settings of a service, file by file.                                *)
PartOf(s, k) == IF k = 0 THEN s.environment ELSE Parsed(s.env_file[k])
Having(s, n, key) == {k \in 0 .. n : key \in DOMAIN PartOf(s, k)}

(* The settings after n files, part by part.                               *)
LEMMA SettingsAre ==
  ASSUME NEW s, NEW n \in Nat
  PROVE  SettingsAfter(s, n) = [key \in UNION {DOMAIN PartOf(s, k) : k \in 0 .. n} |->
                                  PartOf(s, Max(Having(s, n, key)))[key]]
<1> DEFINE P == [k \in 0 .. n |-> PartOf(s, k)]
           D == UNION {DOMAIN PartOf(s, k) : k \in 0 .. n}
<1>1. SettingsAfter(s, n) = Layered(P)
  BY DEF SettingsAfter, PartOf
<1>2. DOMAIN P = 0 .. n /\ \A k \in 0 .. n : P[k] = PartOf(s, k)
  OBVIOUS
<1> HIDE DEF P
<1>3. UNION {DOMAIN P[k] : k \in DOMAIN P} = D
  BY <1>2
<1>4. \A key : {k \in DOMAIN P : key \in DOMAIN P[k]} = Having(s, n, key)
  BY <1>2 DEF Having
<1>5. ASSUME NEW key \in D
      PROVE  P[Max(Having(s, n, key))] = PartOf(s, Max(Having(s, n, key)))
  <2>1. Having(s, n, key) \subseteq 0 .. n /\ Having(s, n, key) # {}
    BY DEF Having
  <2>2. Max(Having(s, n, key)) \in 0 .. n
    BY <2>1, MaxExists
  <2> QED
    BY <1>2, <2>2
<1> HIDE DEF D
<1>6. Layered(P) = [key \in D |-> PartOf(s, Max(Having(s, n, key)))[key]]
  BY <1>3, <1>4, <1>5 DEF Layered
<1> QED
  BY <1>1, <1>6 DEF D

(* Before any file they are those of its environment.                      *)
LEMMA SettingsStart ==
  ASSUME NEW s \in Services
  PROVE  SettingsAfter(s, 0) = s.environment
<1>1. s.environment = [key \in DOMAIN s.environment |-> s.environment[key]]
  BY FilesAssumption DEF IsSettings
<1>2. UNION {DOMAIN PartOf(s, k) : k \in 0 .. 0} = DOMAIN s.environment
  BY DEF PartOf
<1>3. ASSUME NEW key \in DOMAIN s.environment
      PROVE  PartOf(s, Max(Having(s, 0, key)))[key] = s.environment[key]
  <2>1. Having(s, 0, key) \subseteq 0 .. 0 /\ 0 \in Having(s, 0, key)
    BY DEF Having, PartOf
  <2>2. Max(Having(s, 0, key)) = 0
    BY <2>1, MaxExists
  <2> QED
    BY <2>2 DEF PartOf
<1>4. SettingsAfter(s, 0) = [key \in UNION {DOMAIN PartOf(s, k) : k \in 0 .. 0} |->
                               PartOf(s, Max(Having(s, 0, key)))[key]]
  <2>1. 0 \in Nat
    OBVIOUS
  <2> QED
    BY <2>1, SettingsAre, Zenon
<1> QED
  BY <1>1, <1>2, <1>3, <1>4

(* A further file is put over what was read before it (env_map.update).    *)
LEMMA SettingsStep ==
  ASSUME NEW s, NEW n \in Nat
  PROVE  SettingsAfter(s, n + 1) = Updated(SettingsAfter(s, n), Parsed(s.env_file[n + 1]))
<1> DEFINE D(m) == UNION {DOMAIN PartOf(s, k) : k \in 0 .. m}
           w == PartOf(s, n + 1)
<1>1. D(n + 1) = D(n) \union DOMAIN w
  OBVIOUS
<1>2. w = Parsed(s.env_file[n + 1])
  BY DEF PartOf
<1>3. ASSUME NEW key \in DOMAIN w
      PROVE  PartOf(s, Max(Having(s, n + 1, key)))[key] = w[key]
  <2>1. Having(s, n + 1, key) \subseteq 0 .. n + 1 /\ n + 1 \in Having(s, n + 1, key)
    BY DEF Having
  <2>2. Max(Having(s, n + 1, key)) = n + 1
    BY <2>1, MaxIs
  <2> QED
    BY <2>2
<1>4. ASSUME NEW key, key \notin DOMAIN w
      PROVE  Having(s, n + 1, key) = Having(s, n, key)
  BY <1>4 DEF Having
<1> HIDE DEF D, w
<1>5. SettingsAfter(s, n) = [key \in D(n) |-> PartOf(s, Max(Having(s, n, key)))[key]]
  BY SettingsAre DEF D
<1>6. SettingsAfter(s, n + 1) = [key \in D(n + 1) |-> PartOf(s, Max(Having(s, n + 1, key)))[key]]
  <2>1. n + 1 \in Nat
    OBVIOUS
  <2> QED
    BY <2>1, SettingsAre, Zenon DEF D
<1>7. Updated(SettingsAfter(s, n), w) =
        [key \in D(n) \union DOMAIN w |->
           IF key \in DOMAIN w THEN w[key] ELSE PartOf(s, Max(Having(s, n, key)))[key]]
  BY <1>5 DEF Updated
<1> QED
  BY <1>1, <1>2, <1>3, <1>4, <1>6, <1>7

-----------------------------------------------------------------------------
(* What stays as it is when files are edited and candidates are added.     *)
Keeping ==
  /\ touched \subseteq touched' /\ DOMAIN disk = Files /\ DOMAIN disk' = Files
  /\ \A f \in Files \ touched' : disk'[f] = disk[f]
  /\ \A what : IsOffered(what) => IsOffered(what)'

(* An untouched file is where it was.                                      *)
LEMMA OfRootKept ==
  ASSUME Keeping, NEW f \in Untouched'
  PROVE  /\ f \in Untouched /\ f \in Files /\ disk'[f] = disk[f]
         /\ \A r : OfRoot(f, r)' <=> OfRoot(f, r)
<1>1. f \in Untouched /\ f \in Files /\ disk'[f] = disk[f]
  BY DEF Keeping, Untouched
<1>2. f \in Found(f[1])' <=> f \in Found(f[1])
  BY <1>1 DEF Keeping, Found
<1> QED
  BY <1>1, <1>2, Zenon DEF OfRoot

(* So is what a service says, if its env files are untouched.              *)
LEMMA SettingsKept ==
  ASSUME Keeping, NEW s \in Services, EnvOf(s) \subseteq Untouched', NEW n \in 0 .. Len(s.env_file)
  PROVE  SettingsAfter(s, n)' = SettingsAfter(s, n)
<1>1. s.env_file \in Seq(EnvPaths)
  BY FilesAssumption
<1>2. ASSUME NEW k \in 1 .. n
      PROVE  disk'[s.env_file[k]] = disk[s.env_file[k]]
  <2>1. s.env_file[k] \in EnvOf(s)
    BY <1>1 DEF EnvOf
  <2> QED
    BY <2>1 DEF Keeping, Untouched
<1> DEFINE p == [k \in 0 .. n |-> IF k = 0 THEN s.environment ELSE Parsed(s.env_file[k])]
           q == [k \in 0 .. n |-> IF k = 0 THEN s.environment ELSE Parsed(s.env_file[k])']
<1>3. p = q
  <2> SUFFICES ASSUME NEW k \in 0 .. n, k # 0
               PROVE  Parsed(s.env_file[k])' = Parsed(s.env_file[k])
    OBVIOUS
  <2>1. disk'[s.env_file[k]] = disk[s.env_file[k]]
    BY <1>2
  <2> QED
    BY <2>1 DEF Parsed
<1>4. SettingsAfter(s, n) = Layered(p) /\ SettingsAfter(s, n)' = Layered(q)
  BY DEF SettingsAfter
<1> QED
  BY <1>3, <1>4

(* And the configuration made of it.                                       *)
LEMMA ServiceKept ==
  ASSUME Keeping, NEW s \in Services, EnvOf(s) \subseteq Untouched', NEW f
  PROVE  ServiceConfig(f, s)' = ServiceConfig(f, s)
<1>1. Len(s.env_file) \in 0 .. Len(s.env_file)
  BY FilesAssumption
<1>2. SettingsAfter(s, Len(s.env_file))' = SettingsAfter(s, Len(s.env_file))
  BY <1>1, SettingsKept
<1> QED
  BY <1>2 DEF ServiceConfig

(* The files that the configuration of a service comes from.               *)
LEMMA ServiceFiles ==
  ASSUME NEW f, NEW s
  PROVE  /\ ServiceConfig(f, s).files = {f} \union EnvOf(s)
         /\ ServiceConfig(f, s).says = SettingsAfter(s, Len(s.env_file))
         /\ ServiceConfig(f, s).found = Candidate(f, s.name, SettingsAfter(s, Len(s.env_file)))
BY DEF ServiceConfig, Config, EnvOf

(* The services of a compose file that can be read.                        *)
LEMMA ServicesOf ==
  ASSUME IsDisk(disk), NEW f \in Files, IsCompose(f), disk[f] \notin {Missing, Unreadable}
  PROVE  /\ disk[f] \in Seq(Services)
         /\ ConfigsOf(f) = {ServiceConfig(f, disk[f][i]) : i \in DOMAIN disk[f]}
         /\ \A i \in DOMAIN disk[f] : disk[f][i] \in Services
<1>1. disk[f] \in Seq(Services)
  BY DEF IsDisk, IsContent
<1> QED
  BY <1>1 DEF ConfigsOf

(* A configuration of untouched files was there before.                    *)
LEMMA ConfigsKept ==
  ASSUME Keeping, IsDisk(disk), NEW f \in Untouched', NEW c \in ConfigsOf(f)',
         IsCompose(f) => disk[f] \notin {Missing, Unreadable}, c.files \subseteq Untouched'
  PROVE  c \in ConfigsOf(f)
<1>1. f \in Untouched /\ f \in Files /\ disk'[f] = disk[f]
  BY OfRootKept
<1>2. CASE ~IsCompose(f)
  <2>1. Parsed(f)' = Parsed(f)
    BY <1>1 DEF Parsed
  <2> QED
    BY <1>2, <2>1 DEF ConfigsOf, EnvConfig
<1>3. CASE IsCompose(f)
  <2>1. PICK i \in DOMAIN disk'[f] : c = ServiceConfig(f, disk[f][i])'
    BY <1>1, <1>3 DEF ConfigsOf
  <2>2. PICK s : s = disk[f][i]
    OBVIOUS
  <2>3. s \in Services /\ i \in DOMAIN disk[f]
    BY <1>1, <1>3, <2>1, <2>2, ServicesOf
  <2>4. c = ServiceConfig(f, s)'
    BY <1>1, <2>1, <2>2 DEF ServiceConfig, SettingsAfter
  <2>5. EnvOf(s) \subseteq Untouched'
    <3>1. c.files = {f} \union EnvOf(s)
      BY <2>4 DEF ServiceConfig, Config, EnvOf
    <3> QED
      BY <3>1
  <2>6. c = ServiceConfig(f, s)
    BY <2>3, <2>4, <2>5, ServiceKept
  <2> QED
    BY <1>1, <1>3, <2>2, <2>3, <2>6, ServicesOf
<1> QED
  BY <1>2, <1>3

(* What has been offered stays offered.                                    *)
LEMMA SettledKept ==
  ASSUME Keeping, NEW c, Settled(c)
  PROVE  Settled(c)'
<1>1. Untouched' \subseteq Untouched
  BY DEF Keeping, Untouched
<1>2. IsOffered(c.found) => IsOffered(c.found)'
  BY DEF Keeping
<1> QED
  BY <1>1, <1>2 DEF Settled

(* It has been come past, as a configuration of its service.               *)
LEMMA ServiceSettled ==
  ASSUME Keeping, NEW s \in Services, NEW f, NEW c, c = ServiceConfig(f, s), Settled(c)'
  PROVE  Settled(ServiceConfig(f, s))'
<1>1. CASE EnvOf(s) \subseteq Untouched'
  <2>1. ServiceConfig(f, s)' = c
    BY <1>1, ServiceKept
  <2> QED
    BY <2>1 DEF Settled
<1>2. CASE ~(EnvOf(s) \subseteq Untouched')
  <2>1. ~(ServiceConfig(f, s)'.files \subseteq Untouched')
    BY <1>2 DEF ServiceConfig, Config, EnvOf
  <2> QED
    BY <2>1 DEF Settled
<1> QED
  BY <1>1, <1>2

(* A file that has been read stays read.                                   *)
LEMMA ReadKept ==
  ASSUME Keeping, IsDisk(disk), NEW f, IsRead(f)
  PROVE  IsRead(f)'
<1> SUFFICES ASSUME f \in Untouched'
             PROVE  /\ IsCompose(f) => disk'[f] \notin {Missing, Unreadable}
                    /\ \A c \in ConfigsOf(f)' : Settled(c)'
  BY DEF IsRead
<1>1. f \in Untouched /\ disk'[f] = disk[f]
  BY OfRootKept
<1>2. IsCompose(f) => disk[f] \notin {Missing, Unreadable}
  BY <1>1 DEF IsRead
<1>3. ASSUME NEW c \in ConfigsOf(f)'
      PROVE  Settled(c)'
  <2>1. CASE c.files \subseteq Untouched'
    <3>1. c \in ConfigsOf(f)
      BY <1>2, <2>1, ConfigsKept
    <3>2. Settled(c)
      BY <1>1, <3>1 DEF IsRead
    <3> QED
      BY <3>2, SettledKept
  <2>2. CASE ~(c.files \subseteq Untouched')
    BY <2>2 DEF Settled
  <2> QED
    BY <2>1, <2>2
<1> QED
  BY <1>1, <1>2, <1>3

(* When no file is edited, the same is expected.                           *)
LEMMA SameDisk ==
  ASSUME disk' = disk
  PROVE  ToRead' = ToRead /\ Expected' = Expected
<1>1. \A d : Found(d)' = Found(d)
  BY DEF Found
<1>2. ToRead' = ToRead
  BY <1>1 DEF ToRead
<1>3. ASSUME NEW f
      PROVE  ConfigsOf(f)' = ConfigsOf(f)
  BY DEF ConfigsOf, EnvConfig, ServiceConfig, SettingsAfter, Parsed
<1> QED
  BY <1>2, <1>3 DEF Expected

(* The files to be read are those of some root.                            *)
LEMMA ToReadIs ==
  ASSUME NEW f
  PROVE  /\ f \in ToRead <=> \E i \in DOMAIN Roots : Roots[i] \in Dirs /\ OfRoot(f, Roots[i])
         /\ f \in ToRead' <=> \E i \in DOMAIN Roots : Roots[i] \in Dirs /\ OfRoot(f, Roots[i])'
<1>1. f \in ToRead <=> \E i \in DOMAIN Roots : Roots[i] \in Dirs /\ OfRoot(f, Roots[i])
  BY DEF ToRead, OfRoot, Found
<1>2. f \in ToRead' <=> \E i \in DOMAIN Roots : Roots[i] \in Dirs /\ OfRoot(f, Roots[i])'
  BY DEF ToRead, OfRoot, Found
<1> QED
  BY <1>1, <1>2

(* A configuration comes from the file that it is of, among others.        *)
LEMMA OwnFile ==
  ASSUME NEW f
  PROVE  /\ \A c \in ConfigsOf(f) : f \in c.files
         /\ \A c \in ConfigsOf(f)' : f \in c.files
BY DEF ConfigsOf, EnvConfig, ServiceConfig, Config

(* A file that is to be read, and may be.                                  *)
Readable == \A f \in ToRead \intersect Untouched : IsCompose(f) => disk[f] # Unreadable

(* Nothing that is expected of untouched files was not expected before.    *)
LEMMA ExpectedKept ==
  ASSUME Keeping, IsDisk(disk), Readable
  PROVE  /\ ToRead' \intersect Untouched' \subseteq ToRead \intersect Untouched
         /\ \A c \in Expected' : c.files \subseteq Untouched' => c \in Expected
<1>1. ASSUME NEW f \in ToRead' \intersect Untouched'
      PROVE  f \in ToRead \intersect Untouched
  BY OfRootKept, ToReadIs
<1>2. ASSUME NEW c \in Expected', c.files \subseteq Untouched'
      PROVE  c \in Expected
  <2>1. PICK f \in ToRead' : c \in ConfigsOf(f)' /\ CompleteConfig(c.says)
    BY DEF Expected
  <2>2. f \in Untouched'
    BY <1>2, <2>1, OwnFile
  <2>3. f \in ToRead /\ f \in Untouched
    BY <1>1, <2>1, <2>2
  <2>4. disk[f] # Missing
    BY <2>3, ToReadIs DEF OfRoot, Found
  <2>5. c \in ConfigsOf(f)
    BY <1>2, <2>1, <2>2, <2>3, <2>4, ConfigsKept DEF Readable
  <2> QED
    BY <2>1, <2>3, <2>5 DEF Expected
<1> QED
  BY <1>1, <1>2

(* The roots that were through are.                                        *)
LEMMA RootsKept ==
  ASSUME Keeping, IsDisk(disk), RootsRead, Scanning, root' = root, at' # "root" \/ at = "root"
  PROVE  RootsRead'
<1> SUFFICES ASSUME NEW i \in DOMAIN Roots, NEW f \in Files, Roots[i] \in Dirs,
                    i < root' \/ (i = root' /\ at' = "root"), OfRoot(f, Roots[i])'
             PROVE  IsRead(f)'
  BY DEF RootsRead
<1>1. CASE f \in Untouched'
  <2>1. OfRoot(f, Roots[i])
    BY <1>1, OfRootKept
  <2>2. IsRead(f)
    BY <2>1 DEF RootsRead
  <2> QED
    BY <2>2, ReadKept
<1>2. CASE f \notin Untouched'
  BY <1>2 DEF IsRead
<1> QED
  BY <1>1, <1>2

(* The root that is being walked.                                          *)
LEMMA WalkKept ==
  ASSUME Keeping, WalkTrue, UNCHANGED <<at, root, pending, matches>>
  PROVE  WalkTrue'
<1> SUFFICES ASSUME at = "walk", NEW r \in Dirs \intersect {Roots[root]}
             PROVE  /\ \A e \in pending : LeadsTo(r, e[1], e[2])
                    /\ \A f \in Untouched' : /\ IsIn(f, matches) => OfRoot(f, r)'
                                             /\ OfRoot(f, r)' => IsIn(f, matches) \/ ToCome(f)'
  BY DEF WalkTrue
<1>1. \A f : ToCome(f)' <=> ToCome(f)
  BY DEF ToCome
<1>2. /\ \A e \in pending : LeadsTo(r, e[1], e[2])
      /\ \A f \in Untouched : /\ IsIn(f, matches) => OfRoot(f, r)
                              /\ OfRoot(f, r) => IsIn(f, matches) \/ ToCome(f)
  BY DEF WalkTrue
<1> QED
  BY <1>1, <1>2, OfRootKept

(* The files that are being read.                                          *)
LEMMA FilesKept ==
  ASSUME Keeping, IsDisk(disk), ReadTrue, at \in AtRoot \ {"walk"}, UNCHANGED <<root, todo>>
  PROVE  ReadTrue'
<1> SUFFICES ASSUME NEW r \in Dirs \intersect {Roots[root]}, NEW f \in Untouched'
             PROVE  /\ IsIn(f, todo) => OfRoot(f, r)'
                    /\ OfRoot(f, r)' => IsIn(f, todo) \/ IsRead(f)'
  BY DEF ReadTrue
<1>1. f \in Untouched /\ (OfRoot(f, r)' <=> OfRoot(f, r))
  BY OfRootKept
<1>2. /\ IsIn(f, todo) => OfRoot(f, r)
      /\ OfRoot(f, r) => IsIn(f, todo) \/ IsRead(f)
  BY <1>1 DEF ReadTrue
<1> QED
  BY <1>1, <1>2, ReadKept

(* The services of the compose file.                                       *)
LEMMA ServicesKept ==
  ASSUME Keeping, ServicesTrue, at \in AtFile, UNCHANGED <<todo, services>>
  PROVE  ServicesTrue'
<1> SUFFICES ASSUME IsCompose(File), NEW f \in Untouched' \intersect {File}
             PROVE  /\ disk'[f] \notin {Missing, Unreadable}
                    /\ \A s \in Services :
                         /\ IsIn(s, services) => IsIn(s, disk'[f])
                         /\ IsIn(s, disk'[f]) => IsIn(s, services) \/ Settled(ServiceConfig(f, s))'
  BY DEF ServicesTrue, File
<1>1. f \in Untouched /\ disk'[f] = disk[f]
  BY OfRootKept
<1>2. /\ disk[f] \notin {Missing, Unreadable}
      /\ \A s \in Services : /\ IsIn(s, services) => IsIn(s, disk[f])
                             /\ IsIn(s, disk[f]) => IsIn(s, services) \/ Settled(ServiceConfig(f, s))
  BY <1>1 DEF ServicesTrue
<1>3. ASSUME NEW s \in Services, Settled(ServiceConfig(f, s))
      PROVE  Settled(ServiceConfig(f, s))'
  <2>1. PICK c : c = ServiceConfig(f, s)
    OBVIOUS
  <2>2. Settled(c)'
    BY <1>3, <2>1, SettledKept
  <2> QED
    BY <2>1, <2>2, ServiceSettled
<1> QED
  BY <1>1, <1>2, <1>3

(* The service or .env file at hand.                                       *)
LEMMA EnvFilesKept ==
  ASSUME Keeping, EnvFilesTrue, UNCHANGED <<at, services, mapping, envFiles>>
  PROVE  EnvFilesTrue'
<1> SUFFICES ASSUME at = "env file", NEW s \in Services \intersect {services[1]}
             PROVE  \E n \in 0 .. Len(s.env_file) :
                      /\ n + Len(envFiles) = Len(s.env_file)
                      /\ \A i \in 1 .. Len(envFiles) : envFiles[i] = s.env_file[n + i]
                      /\ EnvOf(s) \subseteq Untouched' => mapping = SettingsAfter(s, n)'
  BY DEF EnvFilesTrue
<1>1. PICK n \in 0 .. Len(s.env_file) :
        /\ n + Len(envFiles) = Len(s.env_file)
        /\ \A i \in 1 .. Len(envFiles) : envFiles[i] = s.env_file[n + i]
        /\ EnvOf(s) \subseteq Untouched => mapping = SettingsAfter(s, n)
  BY DEF EnvFilesTrue
<1>2. EnvOf(s) \subseteq Untouched' => mapping = SettingsAfter(s, n)'
  <2> SUFFICES ASSUME EnvOf(s) \subseteq Untouched'
               PROVE  mapping = SettingsAfter(s, n)'
    OBVIOUS
  <2>1. EnvOf(s) \subseteq Untouched
    BY DEF Keeping, Untouched
  <2> QED
    BY <1>1, <2>1, SettingsKept
<1> QED
  BY <1>1, <1>2

(* Its settings, once all are read.                                        *)
LEMMA MappingKept ==
  ASSUME Keeping, MappingTrue, at \in {"build", "probe"}, UNCHANGED <<todo, services, mapping>>
  PROVE  MappingTrue'
<1>1. CASE IsCompose(File)
  <2> SUFFICES ASSUME NEW s \in Services \intersect {services[1]}, EnvOf(s) \subseteq Untouched'
               PROVE  mapping = SettingsAfter(s, Len(s.env_file))'
    BY <1>1 DEF MappingTrue, File
  <2>1. EnvOf(s) \subseteq Untouched
    BY DEF Keeping, Untouched
  <2>2. mapping = SettingsAfter(s, Len(s.env_file))
    BY <1>1, <2>1 DEF MappingTrue
  <2>3. Len(s.env_file) \in 0 .. Len(s.env_file)
    BY FilesAssumption
  <2> QED
    BY <2>2, <2>3, SettingsKept
<1>2. CASE ~IsCompose(File)
  <2> SUFFICES ASSUME NEW f \in Untouched' \intersect {File}
               PROVE  mapping = Parsed(f)'
    BY <1>2 DEF MappingTrue, File
  <2>1. f \in Untouched /\ disk'[f] = disk[f]
    BY OfRootKept
  <2> QED
    BY <1>2, <2>1 DEF MappingTrue, Parsed
<1> QED
  BY <1>1, <1>2

(* The candidates so far.                                                  *)
LEMMA OffersKept ==
  ASSUME OffersTrue, Scanning, UNCHANGED <<disk, touched, candidates>>
  PROVE  OffersTrue'
BY SameDisk DEF OffersTrue

(* The result of the scan that is over.                                    *)
LEMMA ResultKept ==
  ASSUME Keeping, IsDisk(disk), ScanFindsAll, UNCHANGED <<at, result>>,
         UNCHANGED <<disk, touched>> \/ touched' # {}
  PROVE  ScanFindsAll'
<1>1. CASE UNCHANGED <<disk, touched>>
  BY <1>1, SameDisk DEF ScanFindsAll, Unscannable
<1>2. CASE touched' # {}
  <2>1. Untouched = DOMAIN disk \ touched /\ Untouched' = DOMAIN disk' \ touched'
    BY DEF Keeping, Untouched
  <2>2. CASE at # "done"
    BY <1>2, <2>2 DEF ScanFindsAll
  <2>3. CASE at = "done"
    <3>1. /\ ~ Unscannable(Untouched)
          /\ {c.found.id : c \in {c \in Expected : c.files \subseteq Untouched}}
               \subseteq {c.found.id : c \in result}
      BY <2>1, <2>3 DEF ScanFindsAll
    <3>2. Readable
      BY <3>1 DEF Readable, Unscannable
    <3>3. /\ ToRead' \intersect Untouched' \subseteq ToRead \intersect Untouched
          /\ \A c \in Expected' : c.files \subseteq Untouched' => c \in Expected
      BY <3>2, ExpectedKept
    <3>4. Untouched' \subseteq Untouched /\ \A f \in Untouched' : disk'[f] = disk[f]
      BY DEF Keeping, Untouched
    <3>5. ~ (\E f \in ToRead' \intersect Untouched' : IsCompose(f) /\ disk'[f] = Unreadable)
      BY <3>2, <3>3, <3>4 DEF Readable
    <3>6. ~ (\E c \in Expected' : c.files \subseteq Untouched' /\ PortOf(c.says) = Bad)
      BY <3>1, <3>3, <3>4 DEF Unscannable
    <3>7. {c.found.id : c \in {c \in Expected' : c.files \subseteq Untouched'}}
            \subseteq {c.found.id : c \in result}
      BY <3>1, <3>3, <3>4
    <3> QED
      BY <1>2, <2>1, <2>3, <3>5, <3>6, <3>7 DEF ScanFindsAll, Unscannable
  <2> QED
    BY <2>2, <2>3
<1> QED
  BY <1>1, <1>2

(* Files are edited, servers change, probes go on: nothing that the scan   *)
(* has read of untouched files is other than it was.                       *)
LEMMA AroundTrue ==
  ASSUME IsTyped, ScanInv, Keeping, UNCHANGED <<at, walkVars, readVars, candidates, result>>,
         UNCHANGED <<disk, touched>> \/ touched' # {}
  PROVE  ScanInv'
<1>1. /\ IsDisk(disk)
      /\ UNCHANGED <<root, pending, matches, todo, services, mapping, envFiles>>
  BY DEF IsTyped, Typed, DiskTyped, walkVars, readVars
<1>2. RootsRead'
  BY <1>1, RootsKept DEF ScanInv, RootsRead, Scanning
<1>3. WalkTrue'
  BY <1>1, WalkKept DEF ScanInv
<1>4. ReadTrue'
  BY <1>1, FilesKept DEF ScanInv, ReadTrue
<1>5. ServicesTrue'
  BY <1>1, ServicesKept DEF ScanInv, ServicesTrue
<1>6. EnvFilesTrue'
  BY <1>1, EnvFilesKept DEF ScanInv
<1>7. MappingTrue'
  BY <1>1, MappingKept DEF ScanInv, MappingTrue
<1>8. OffersTrue'
  BY OffersKept DEF ScanInv, OffersTrue, Scanning
<1>9. ScanFindsAll'
  BY <1>1, ResultKept DEF ScanInv
<1> QED
  BY <1>2, <1>3, <1>4, <1>5, <1>6, <1>7, <1>8, <1>9 DEF ScanInv

(* What two sequences hold.                                                *)
LEMMA ConcatHolds ==
  ASSUME NEW S, NEW T, NEW s \in Seq(S), NEW t \in Seq(T), NEW x
  PROVE  IsIn(x, s \o t) <=> IsIn(x, s) \/ IsIn(x, t)
<1> DEFINE U == S \union T
<1>1. s \in Seq(U) /\ t \in Seq(U)
  OBVIOUS
<1> HIDE DEF U
<1>2. /\ Len(s) \in Nat /\ DOMAIN s = 1 .. Len(s) /\ Len(t) \in Nat /\ DOMAIN t = 1 .. Len(t)
      /\ DOMAIN (s \o t) = 1 .. Len(s) + Len(t)
      /\ \A i \in 1 .. Len(s) + Len(t) : (s \o t)[i] = IF i =< Len(s) THEN s[i] ELSE t[i - Len(s)]
  BY <1>1
<1>3. ASSUME NEW i \in DOMAIN (s \o t), (s \o t)[i] = x
      PROVE  IsIn(x, s) \/ IsIn(x, t)
  <2>1. CASE i =< Len(s)
    BY <1>2, <1>3, <2>1 DEF IsIn
  <2>2. CASE ~ (i =< Len(s))
    <3>1. i - Len(s) \in 1 .. Len(t) /\ t[i - Len(s)] = x
      BY <1>2, <1>3, <2>2
    <3> QED
      BY <1>2, <3>1 DEF IsIn
  <2> QED
    BY <2>1, <2>2
<1>4. ASSUME NEW i \in DOMAIN s, s[i] = x
      PROVE  IsIn(x, s \o t)
  <2>1. i \in 1 .. Len(s) + Len(t) /\ (s \o t)[i] = x
    BY <1>2, <1>4
  <2> QED
    BY <1>2, <2>1 DEF IsIn
<1>5. ASSUME NEW i \in DOMAIN t, t[i] = x
      PROVE  IsIn(x, s \o t)
  <2>1. Len(s) + i \in 1 .. Len(s) + Len(t) /\ ~ (Len(s) + i =< Len(s)) /\ (Len(s) + i) - Len(s) = i
    BY <1>2
  <2>2. (s \o t)[Len(s) + i] = x
    BY <1>2, <1>5, <2>1
  <2> QED
    BY <1>2, <2>1, <2>2 DEF IsIn
<1> QED
  BY <1>3, <1>4, <1>5 DEF IsIn

-----------------------------------------------------------------------------
(* Every step of a scan keeps the invariant.                               *)
IsScan == IsTyped /\ ScanInv

(* A step that edits no file.                                              *)
LEMMA NothingEdited ==
  ASSUME IsTyped, UNCHANGED <<disk, touched>>
  PROVE  IsDisk(disk) /\ Untouched' = Untouched /\ (UNCHANGED candidates => Keeping)
<1>1. IsDisk(disk)
  BY DEF IsTyped, Typed, DiskTyped
<1>2. Untouched' = Untouched
  BY DEF Untouched
<1>3. ASSUME UNCHANGED candidates
      PROVE  Keeping
  BY <1>1, <1>3 DEF Keeping, IsOffered, IsDisk
<1> QED
  BY <1>1, <1>2, <1>3

(* A step in one root: the roots before it are as they were.               *)
LEMMA InRoot ==
  ASSUME IsScan, Keeping, UNCHANGED <<disk, touched>>, at \in AtRoot, at' \in AtRoot, root' = root
  PROVE  /\ RootsRead' /\ ScanFindsAll'
         /\ UNCHANGED candidates => OffersTrue'
<1>1. Scanning /\ at' # "root" /\ at' \notin {"failed", "done"}
  BY DEF Scanning, AtRoot
<1>2. RootsRead'
  BY <1>1, RootsKept, NothingEdited DEF IsScan, ScanInv
<1>3. ScanFindsAll'
  BY <1>1 DEF ScanFindsAll
<1>4. UNCHANGED candidates => OffersTrue'
  BY <1>1, OffersKept DEF IsScan, ScanInv
<1> QED
  BY <1>2, <1>3, <1>4

(* A scan begins: no file has been touched since.                          *)
LEMMA StartTrue ==
  ASSUME IsScan, Start
  PROVE  ScanInv'
<1>1. at' = "root" /\ root' = 0 /\ candidates' = <<>>
  BY DEF Start, IsScan, IsTyped, Placed, walkVars
<1>2. RootsRead'
  <2> SUFFICES ASSUME NEW i \in DOMAIN Roots
               PROVE  ~ (i < root' \/ i = root')
    BY DEF RootsRead
  <2> QED
    BY <1>1, DirsAssumption
<1>3. OffersTrue'
  BY <1>1 DEF OffersTrue
<1>4. WalkTrue' /\ ReadTrue' /\ ServicesTrue' /\ EnvFilesTrue' /\ MappingTrue' /\ ScanFindsAll'
  BY <1>1 DEF WalkTrue, ReadTrue, ServicesTrue, EnvFilesTrue, MappingTrue, ScanFindsAll, AtRoot, AtFile
<1> QED
  BY <1>2, <1>3, <1>4 DEF ScanInv

(* The next root, if it is there: all that is in its reach is to come.     *)
LEMMA NextRootTrue ==
  ASSUME IsScan, NextRoot
  PROVE  ScanInv'
<1>1. UNCHANGED <<disk, touched, candidates>> /\ at = "root" /\ root' = root + 1
  BY DEF NextRoot, Unprobed
<1>2. Keeping /\ IsDisk(disk) /\ Untouched' = Untouched
  BY <1>1, NothingEdited DEF IsScan
<1>3. root \in Nat /\ DOMAIN Roots \subseteq Nat
  BY DirsAssumption DEF IsScan, IsTyped, Typed, WalkTyped
<1>4. Scanning /\ at' \in {"root", "walk"} /\ (at' = "root" => Roots[root'] \notin Dirs)
  BY <1>1 DEF NextRoot, Scanning
<1>5. RootsRead'
  <2> SUFFICES ASSUME NEW i \in DOMAIN Roots, NEW f \in Files, Roots[i] \in Dirs,
                      i < root' \/ (i = root' /\ at' = "root"), OfRoot(f, Roots[i])'
               PROVE  IsRead(f)'
    BY DEF RootsRead
  <2>1. i < root'
    BY <1>4
  <2>2. i < root \/ i = root
    BY <1>1, <1>3, <2>1
  <2>3. CASE f \in Untouched'
    <3>1. OfRoot(f, Roots[i])
      BY <1>2, <2>3, OfRootKept
    <3>2. IsRead(f)
      BY <1>1, <1>4, <2>2, <3>1 DEF IsScan, ScanInv, RootsRead
    <3> QED
      BY <1>2, <3>2, ReadKept
  <2>4. CASE f \notin Untouched'
    BY <2>4 DEF IsRead
  <2> QED
    BY <2>3, <2>4
<1>6. WalkTrue'
  <2> SUFFICES ASSUME at' = "walk", NEW r \in Dirs \intersect {Roots[root']}
               PROVE  /\ \A e \in pending' : LeadsTo(r, e[1], e[2])
                      /\ \A f \in Untouched' : /\ IsIn(f, matches') => OfRoot(f, r)'
                                               /\ OfRoot(f, r)' => IsIn(f, matches') \/ ToCome(f)'
    BY DEF WalkTrue
  <2>1. pending' = {<<r, 0>>} /\ matches' = <<>>
    <3>1. CASE Roots[root + 1] \in Dirs
      BY <1>1, <3>1 DEF NextRoot
    <3>2. CASE Roots[root + 1] \notin Dirs
      BY <1>1, <3>2 DEF NextRoot
    <3> QED
      BY <3>1, <3>2
  <2>2. LeadsTo(r, r, 0)
    BY LeadsNowhere
  <2>4. ASSUME NEW f, OfRoot(f, r)'
        PROVE  ToCome(f)'
    <3>1. PICK k \in 0 .. MaxDepth : LeadsTo(r, f[1], k)
      BY <2>4 DEF OfRoot, Within
    <3>2. MaxDepth - 0 = MaxDepth
      BY DirsAssumption
    <3> QED
      BY <2>1, <3>1, <3>2 DEF ToCome
  <2>5. \A e \in pending' : LeadsTo(r, e[1], e[2])
    BY <2>1, <2>2
  <2>6. \A f : ~ IsIn(f, matches')
    BY <2>1 DEF IsIn
  <2> QED
    BY <2>4, <2>5, <2>6
<1>7. OffersTrue'
  BY <1>1, <1>4, OffersKept DEF IsScan, ScanInv
<1>8. ReadTrue' /\ ServicesTrue' /\ EnvFilesTrue' /\ MappingTrue' /\ ScanFindsAll'
  BY <1>4 DEF ReadTrue, ServicesTrue, EnvFilesTrue, MappingTrue, ScanFindsAll, AtRoot, AtFile
<1> QED
  BY <1>5, <1>6, <1>7, <1>8 DEF ScanInv

(* A directory is listed: its files are found, and what is below it is now *)
(* below one of the directories entered from it.                           *)
LEMMA VisitTrue ==
  ASSUME IsScan, NEW d, NEW depth, Visit(d, depth)
  PROVE  ScanInv'
<1>1. /\ UNCHANGED <<disk, touched, candidates, at, root>> /\ at = "walk"
      /\ <<d, depth>> \in pending
  BY DEF Visit, Unprobed
<1>2. Keeping /\ IsDisk(disk) /\ Untouched' = Untouched
  BY <1>1, NothingEdited DEF IsScan
<1>3. d \in Dirs /\ depth \in 0 .. MaxDepth /\ MaxDepth \in Nat
  BY <1>1, DirsAssumption DEF IsScan, IsTyped, Typed, WalkTyped
<1>4. pending' = (pending \ {<<d, depth>>}) \union Below(d, depth)
  BY DEF Visit
<1>5. PICK l \in Listings(Found(d)) : matches' = matches \o l
  BY DEF Visit
<1>6. DOMAIN l \subseteq Nat /\ \A f : IsIn(f, l) <=> f \in Found(d)
  <2>1. l \in Bijection(1 .. Cardinality(Found(d)), Found(d))
    BY <1>5 DEF Listings
  <2> QED
    BY <2>1 DEF Bijection, Injection, Surjection, IsIn
<1>7. \A f : IsIn(f, matches') <=> IsIn(f, matches) \/ f \in Found(d)
  <2>1. matches \in Seq(Files) /\ l \in Seq(Found(d))
    <3>1. IsFiniteSet(Found(d))
      BY FoundFinite DEF IsScan, IsTyped, Typed
    <3>2. Cardinality(Found(d)) \in Nat
      BY <3>1, FS_CardinalityType
    <3>3. l \in [1 .. Cardinality(Found(d)) -> Found(d)]
      BY <1>5 DEF Listings, Bijection, Injection
    <3>4. l \in Seq(Found(d))
      BY <3>2, <3>3
    <3> QED
      BY <3>4 DEF IsScan, IsTyped, Typed, WalkTyped
  <2>2. ASSUME NEW f
        PROVE  IsIn(f, matches \o l) <=> IsIn(f, matches) \/ IsIn(f, l)
    BY <2>1, ConcatHolds
  <2> QED
    BY <1>5, <1>6, <2>2
<1>8. WalkTrue'
  <2> SUFFICES ASSUME NEW r \in Dirs \intersect {Roots[root]}
               PROVE  /\ \A e \in pending' : LeadsTo(r, e[1], e[2])
                      /\ \A f \in Untouched : /\ IsIn(f, matches') => OfRoot(f, r)
                                              /\ OfRoot(f, r) => IsIn(f, matches') \/ ToCome(f)'
    BY <1>1, <1>2, OfRootKept DEF WalkTrue
  <2>1. /\ \A e \in pending : LeadsTo(r, e[1], e[2])
        /\ \A f \in Untouched : /\ IsIn(f, matches) => OfRoot(f, r)
                                /\ OfRoot(f, r) => IsIn(f, matches) \/ ToCome(f)
    BY <1>1 DEF IsScan, ScanInv, WalkTrue
  <2>2. LeadsTo(r, d, depth)
    BY <1>1, <2>1
  <2>3. ASSUME NEW e \in pending'
        PROVE  LeadsTo(r, e[1], e[2])
    BY <1>3, <1>4, <2>1, <2>2, LeadsBelow
  <2>4. ASSUME NEW f \in Found(d)
        PROVE  OfRoot(f, r)
    <3>1. f[1] = d
      BY DEF Found
    <3>2. d \in Within(r)
      BY <1>3, <2>2 DEF Within
    <3> QED
      BY <3>1, <3>2 DEF OfRoot
  <2>5. ASSUME NEW f \in Untouched, OfRoot(f, r), ToCome(f)
        PROVE  f \in Found(d) \/ ToCome(f)'
    <3>1. PICK e \in pending : \E k \in 0 .. MaxDepth - e[2] : LeadsTo(e[1], f[1], k)
      BY <2>5 DEF ToCome
    <3>2. CASE e # <<d, depth>>
      <4>1. e \in pending'
        BY <1>4, <3>2
      <4> QED
        BY <3>1, <4>1 DEF ToCome
    <3>3. CASE e = <<d, depth>>
      <4>1. PICK k \in 0 .. MaxDepth - depth : LeadsTo(d, f[1], k)
        BY <3>1, <3>3
      <4>2. CASE k = 0
        <5>1. f[1] = d
          BY <1>3, <4>1, <4>2, LeadsNowhere
        <5> QED
          BY <2>5, <5>1 DEF OfRoot
      <4>3. CASE k # 0
        <5>1. k \in Nat \ {0}
          BY <1>3, <4>3
        <5>2. PICK c \in Dirs \ {d} : Parent[c] = d /\ c \notin Ignored /\ LeadsTo(c, f[1], k - 1)
          BY <1>3, <4>1, <5>1, LeadsThrough
        <5>3. <<c, depth + 1>> \in pending'
          <6>1. depth < MaxDepth
            BY <1>3, <4>3
          <6>2. <<c, depth + 1>> \in Below(d, depth)
            BY <5>2, <6>1 DEF Below, Enters
          <6> QED
            BY <1>4, <6>2
        <5>4. k - 1 \in 0 .. MaxDepth - (depth + 1)
          BY <1>3, <5>1
        <5>5. PICK g : g = <<c, depth + 1>>
          OBVIOUS
        <5>6. g \in pending' /\ \E m \in 0 .. MaxDepth - g[2] : LeadsTo(g[1], f[1], m)
          BY <5>2, <5>3, <5>4, <5>5
        <5> QED
          BY <5>6 DEF ToCome
      <4> QED
        BY <4>2, <4>3
    <3> QED
      BY <3>2, <3>3
  <2> QED
    BY <1>7, <2>1, <2>3, <2>4, <2>5
<1>9. RootsRead' /\ ScanFindsAll' /\ OffersTrue'
  BY <1>1, <1>2, InRoot DEF AtRoot
<1>10. ReadTrue' /\ ServicesTrue' /\ EnvFilesTrue' /\ MappingTrue'
  BY <1>1 DEF ReadTrue, ServicesTrue, EnvFilesTrue, MappingTrue, AtRoot, AtFile
<1> QED
  BY <1>8, <1>9, <1>10 DEF ScanInv

(* All directories are listed: the files found are put in order.           *)
LEMMA WalkedTrue ==
  ASSUME IsScan, Walked
  PROVE  ScanInv'
<1>1. /\ UNCHANGED <<disk, touched, candidates, root>> /\ at = "walk" /\ pending = {}
      /\ at' = "read"
  BY DEF Walked, Unprobed, walkVars
<1>2. Keeping /\ IsDisk(disk) /\ Untouched' = Untouched
  BY <1>1, NothingEdited DEF IsScan
<1>3. \A f : IsIn(f, todo') <=> IsIn(f, matches)
  <2>1. PICK p \in [DOMAIN matches -> DOMAIN matches] :
          EnvFirst(p) /\ todo' = [i \in DOMAIN matches |-> matches[p[i]]]
    BY DEF Walked
  <2>2. PICK n \in Nat : DOMAIN matches = 1 .. n
    <3>1. matches \in Seq(Files)
      BY DEF IsScan, IsTyped, Typed, WalkTyped
    <3> QED
      BY <3>1
  <2>3. p \in [1 .. n -> 1 .. n]
    BY <2>1, <2>2
  <2>4. ASSUME NEW i \in 1 .. n, NEW j \in 1 .. n, i < j
        PROVE  p[i] # p[j]
    <3>1. \/ ~IsCompose(matches[p[i]]) /\ IsCompose(matches[p[j]])
          \/ p[i] < p[j]
      BY <2>1, <2>2, <2>4 DEF EnvFirst
    <3>2. p[i] \in Int /\ p[j] \in Int
      BY <2>3
    <3> QED
      BY <3>1, <3>2
  <2>5. \A i, j \in 1 .. n : p[i] = p[j] => i = j
    <3> SUFFICES ASSUME NEW i \in 1 .. n, NEW j \in 1 .. n, p[i] = p[j]
                 PROVE  i = j
      OBVIOUS
    <3>1. i < j \/ j < i \/ i = j
      OBVIOUS
    <3> QED
      BY <2>4, <3>1
  <2>6. \A k \in 1 .. n : \E i \in 1 .. n : p[i] = k
    BY <2>3, <2>5, PermutationsReachAll
  <2>7. DOMAIN todo' = 1 .. n /\ \A i \in 1 .. n : todo'[i] = matches[p[i]]
    BY <2>1, <2>2
  <2> QED
    BY <2>2, <2>3, <2>6, <2>7 DEF IsIn
<1>4. ReadTrue'
  <2> SUFFICES ASSUME NEW r \in Dirs \intersect {Roots[root]}, NEW f \in Untouched
               PROVE  /\ IsIn(f, todo') => OfRoot(f, r)
                      /\ OfRoot(f, r) => IsIn(f, todo')
    BY <1>1, <1>2, OfRootKept DEF ReadTrue
  <2>1. /\ IsIn(f, matches) => OfRoot(f, r)
        /\ OfRoot(f, r) => IsIn(f, matches) \/ ToCome(f)
    BY <1>1 DEF IsScan, ScanInv, WalkTrue
  <2>2. ~ ToCome(f)
    BY <1>1 DEF ToCome
  <2> QED
    BY <1>3, <2>1, <2>2
<1>5. RootsRead' /\ ScanFindsAll' /\ OffersTrue'
  BY <1>1, <1>2, InRoot DEF AtRoot
<1>6. WalkTrue' /\ ServicesTrue' /\ EnvFilesTrue' /\ MappingTrue'
  BY <1>1 DEF WalkTrue, ServicesTrue, EnvFilesTrue, MappingTrue, AtFile
<1> QED
  BY <1>4, <1>5, <1>6 DEF ScanInv

(* An .env file is read.                                                   *)
LEMMA ReadEnvTrue ==
  ASSUME IsScan, ReadEnv
  PROVE  ScanInv'
<1>1. /\ UNCHANGED <<disk, touched, candidates, root, todo>> /\ at = "read" /\ at' = "build"
      /\ ~IsCompose(File) /\ mapping' = Parsed(File)
  BY DEF ReadEnv, Unprobed, walkVars
<1>2. Keeping /\ IsDisk(disk)
  BY <1>1, NothingEdited DEF IsScan
<1>3. ReadTrue'
  BY <1>1, <1>2, FilesKept DEF IsScan, ScanInv, AtRoot
<1>4. MappingTrue'
  BY <1>1 DEF MappingTrue, File, Parsed
<1>5. RootsRead' /\ ScanFindsAll' /\ OffersTrue'
  BY <1>1, <1>2, InRoot DEF AtRoot
<1>6. WalkTrue' /\ ServicesTrue' /\ EnvFilesTrue'
  BY <1>1 DEF WalkTrue, ServicesTrue, EnvFilesTrue, File
<1> QED
  BY <1>3, <1>4, <1>5, <1>6 DEF ScanInv

(* The file at hand is one of the root, if it is untouched.                *)
LEMMA FileToRead ==
  ASSUME IsScan, at \in AtRoot \ {"walk"}, todo # <<>>, File \in Untouched
  PROVE  File \in ToRead /\ File \in Files /\ disk[File] # Missing
<1>1. root \in DOMAIN Roots /\ Roots[root] \in Dirs
  BY DirsAssumption DEF IsScan, IsTyped, Placed
<1>2. IsIn(File, todo)
  <2>1. todo \in Seq(Files)
    BY DEF IsScan, IsTyped, Typed, ReadTyped
  <2> QED
    BY <2>1 DEF IsIn, File
<1>3. PICK f : f = File
  OBVIOUS
<1>4. OfRoot(f, Roots[root])
  BY <1>1, <1>2, <1>3 DEF IsScan, ScanInv, ReadTrue
<1>5. f \in ToRead
  BY <1>1, <1>4, ToReadIs
<1>6. disk[f] # Missing
  BY <1>4 DEF OfRoot, Found
<1> QED
  BY <1>3, <1>5, <1>6 DEF Untouched

(* A scan that fails has met what cannot be read, or an edited file.       *)
LEMMA FailTrue ==
  ASSUME IsScan, FailScan, touched # {} \/ Unscannable(Untouched)
  PROVE  ScanInv'
<1>1. UNCHANGED <<disk, touched>> /\ at' = "failed"
  BY DEF FailScan, Return, Unprobed
<1>2. IsDisk(disk) /\ ToRead' = ToRead /\ Expected' = Expected
  BY <1>1, NothingEdited, SameDisk DEF IsScan
<1>3. Untouched = DOMAIN disk \ touched
  BY <1>2 DEF Untouched, IsDisk
<1>4. ScanFindsAll'
  BY <1>1, <1>2, <1>3 DEF ScanFindsAll, Unscannable
<1>5. RootsRead' /\ OffersTrue'
  BY <1>1 DEF RootsRead, OffersTrue, Scanning
<1>6. WalkTrue' /\ ReadTrue' /\ ServicesTrue' /\ EnvFilesTrue' /\ MappingTrue'
  BY <1>1 DEF WalkTrue, ReadTrue, ServicesTrue, EnvFilesTrue, MappingTrue, AtRoot, AtFile
<1> QED
  BY <1>4, <1>5, <1>6 DEF ScanInv

(* A compose file is read, or cannot be.                                   *)
LEMMA ReadComposeTrue ==
  ASSUME IsScan, ReadCompose
  PROVE  ScanInv'
<1>1. UNCHANGED <<disk, touched>> /\ at = "read" /\ todo # <<>> /\ IsCompose(File)
  BY DEF ReadCompose, FailScan, Return, Unprobed
<1>2. CASE disk[File] \in {Missing, Unreadable}
  <2>1. FailScan
    BY <1>2 DEF ReadCompose
  <2>2. touched # {} \/ Unscannable(Untouched)
    <3> SUFFICES ASSUME touched = {}
                 PROVE  Unscannable(Untouched)
      OBVIOUS
    <3>1. File \in Untouched
      BY <1>1, TailType DEF Untouched, IsScan, IsTyped, Typed, ReadTyped, File
    <3>2. File \in ToRead /\ disk[File] # Missing
      BY <1>1, <3>1, FileToRead DEF AtRoot
    <3> QED
      BY <1>1, <1>2, <3>1, <3>2 DEF Unscannable
  <2> QED
    BY <2>1, <2>2, FailTrue
<1>3. CASE disk[File] \notin {Missing, Unreadable}
  <2>1. /\ UNCHANGED <<candidates, root, todo>> /\ at' = "service" /\ services' = disk[File]
    BY <1>1, <1>3 DEF ReadCompose, walkVars
  <2>2. Keeping /\ IsDisk(disk)
    BY <1>1, <2>1, NothingEdited DEF IsScan
  <2>3. ReadTrue'
    BY <1>1, <2>1, <2>2, FilesKept DEF IsScan, ScanInv, AtRoot
  <2>4. ServicesTrue'
    BY <1>1, <1>3, <2>1 DEF ServicesTrue, File
  <2>5. RootsRead' /\ ScanFindsAll' /\ OffersTrue'
    BY <1>1, <2>1, <2>2, InRoot DEF AtRoot
  <2>6. WalkTrue' /\ MappingTrue' /\ EnvFilesTrue'
    BY <2>1 DEF WalkTrue, EnvFilesTrue, MappingTrue
  <2> QED
    BY <2>3, <2>4, <2>5, <2>6 DEF ScanInv
<1> QED
  BY <1>2, <1>3

(* A service is taken: its environment, and none of its env files yet.     *)
LEMMA NextServiceTrue ==
  ASSUME IsScan, NextService
  PROVE  ScanInv'
<1>1. /\ UNCHANGED <<disk, touched, candidates, root, todo, services>> /\ at = "service"
      /\ at' = "env file" /\ services # <<>>
      /\ mapping' = services[1].environment /\ envFiles' = services[1].env_file
  BY DEF NextService, Unprobed, walkVars
<1>2. Keeping /\ IsDisk(disk)
  BY <1>1, NothingEdited DEF IsScan
<1>3. ReadTrue'
  BY <1>1, <1>2, FilesKept DEF IsScan, ScanInv, AtRoot
<1>4. ServicesTrue'
  BY <1>1, <1>2, ServicesKept DEF IsScan, ScanInv, AtFile
<1>5. EnvFilesTrue'
  <2> SUFFICES ASSUME NEW s \in Services \intersect {services[1]}
               PROVE  \E n \in 0 .. Len(s.env_file) :
                        /\ n + Len(envFiles') = Len(s.env_file)
                        /\ \A i \in 1 .. Len(envFiles') : envFiles'[i] = s.env_file[n + i]
                        /\ EnvOf(s) \subseteq Untouched' => mapping' = SettingsAfter(s, n)'
    BY <1>1 DEF EnvFilesTrue
  <2>1. Len(s.env_file) \in Nat
    BY FilesAssumption
  <2>2. 0 \in 0 .. Len(s.env_file) /\ 0 + Len(s.env_file) = Len(s.env_file)
        /\ \A i \in 1 .. Len(s.env_file) : 0 + i = i
    BY <2>1
  <2>3. s.environment = SettingsAfter(s, 0)
    BY SettingsStart
  <2>4. EnvOf(s) \subseteq Untouched' => s.environment = SettingsAfter(s, 0)'
    BY <1>2, <2>2, <2>3, SettingsKept
  <2>5. envFiles' = s.env_file /\ mapping' = s.environment
    BY <1>1
  <2> QED
    BY <2>2, <2>4, <2>5
<1>6. RootsRead' /\ ScanFindsAll' /\ OffersTrue'
  BY <1>1, <1>2, InRoot DEF AtRoot
<1>7. WalkTrue' /\ MappingTrue'
  BY <1>1 DEF WalkTrue, MappingTrue
<1> QED
  BY <1>3, <1>4, <1>5, <1>6, <1>7 DEF ScanInv

(* One of its env files is read.                                           *)
LEMMA ReadEnvFileTrue ==
  ASSUME IsScan, ReadEnvFile
  PROVE  ScanInv'
<1>1. /\ UNCHANGED <<disk, touched, candidates, root, todo, services, at>> /\ at = "env file"
      /\ envFiles # <<>> /\ mapping' = Updated(mapping, Parsed(envFiles[1]))
      /\ envFiles' = Tail(envFiles)
  BY DEF ReadEnvFile, Unprobed, walkVars
<1>2. Keeping /\ IsDisk(disk) /\ Untouched' = Untouched
  BY <1>1, NothingEdited DEF IsScan
<1>3. ReadTrue'
  BY <1>1, <1>2, FilesKept DEF IsScan, ScanInv, AtRoot
<1>4. ServicesTrue'
  BY <1>1, <1>2, ServicesKept DEF IsScan, ScanInv, AtFile
<1>5. EnvFilesTrue'
  <2> SUFFICES ASSUME NEW s \in Services \intersect {services[1]}
               PROVE  \E n \in 0 .. Len(s.env_file) :
                        /\ n + Len(envFiles') = Len(s.env_file)
                        /\ \A i \in 1 .. Len(envFiles') : envFiles'[i] = s.env_file[n + i]
                        /\ EnvOf(s) \subseteq Untouched' => mapping' = SettingsAfter(s, n)'
    BY <1>1 DEF EnvFilesTrue
  <2>1. PICK n \in 0 .. Len(s.env_file) :
          /\ n + Len(envFiles) = Len(s.env_file)
          /\ \A i \in 1 .. Len(envFiles) : envFiles[i] = s.env_file[n + i]
          /\ EnvOf(s) \subseteq Untouched => mapping = SettingsAfter(s, n)
    BY <1>1 DEF IsScan, ScanInv, EnvFilesTrue
  <2>2. /\ Len(envFiles) \in Nat \ {0} /\ Len(envFiles') = Len(envFiles) - 1
        /\ \A i \in 1 .. Len(envFiles) - 1 : envFiles'[i] = envFiles[i + 1]
    <3>1. envFiles \in Seq(EnvPaths)
      BY DEF IsScan, IsTyped, Typed, ReadTyped
    <3> QED
      BY <1>1, <3>1, TailType
  <2>3. Len(s.env_file) \in Nat
    BY FilesAssumption
  <2>4. n + 1 \in 0 .. Len(s.env_file) /\ (n + 1) + Len(envFiles') = Len(s.env_file)
    BY <2>1, <2>2, <2>3
  <2>5. ASSUME NEW i \in 1 .. Len(envFiles')
        PROVE  envFiles'[i] = s.env_file[(n + 1) + i]
    <3>1. i + 1 \in 1 .. Len(envFiles) /\ (n + 1) + i = n + (i + 1) /\ i \in 1 .. Len(envFiles) - 1
      BY <2>1, <2>2
    <3> QED
      BY <2>1, <2>2, <3>1
  <2>6. ASSUME EnvOf(s) \subseteq Untouched'
        PROVE  mapping' = SettingsAfter(s, n + 1)'
    <3>1. mapping = SettingsAfter(s, n)
      BY <1>2, <2>1, <2>6
    <3>2. envFiles[1] = s.env_file[n + 1]
      BY <2>1, <2>2
    <3>3. mapping' = Updated(SettingsAfter(s, n), Parsed(s.env_file[n + 1]))
      BY <1>1, <3>1, <3>2
    <3>4. n \in Nat
      BY <2>1
    <3>5. mapping' = SettingsAfter(s, n + 1)
      BY <3>3, <3>4, SettingsStep
    <3>6. PICK m : m = n + 1
      OBVIOUS
    <3>7. SettingsAfter(s, m)' = SettingsAfter(s, m)
      BY <1>2, <2>4, <2>6, <3>6, SettingsKept
    <3> QED
      BY <3>5, <3>6, <3>7
  <2>7. PICK m : m = n + 1
    OBVIOUS
  <2>8. EnvOf(s) \subseteq Untouched' => mapping' = SettingsAfter(s, m)'
    BY <2>6, <2>7
  <2> QED
    BY <2>4, <2>5, <2>7, <2>8
<1>6. RootsRead' /\ ScanFindsAll' /\ OffersTrue'
  BY <1>1, <1>2, InRoot DEF AtRoot
<1>7. WalkTrue' /\ MappingTrue'
  BY <1>1 DEF WalkTrue, MappingTrue
<1> QED
  BY <1>3, <1>4, <1>5, <1>6, <1>7 DEF ScanInv

(* All are read.                                                           *)
LEMMA EnvFilesReadTrue ==
  ASSUME IsScan, EnvFilesRead
  PROVE  ScanInv'
<1>1. /\ UNCHANGED <<disk, touched, candidates, root, todo, services, mapping>> /\ at = "env file"
      /\ envFiles = <<>> /\ at' = "build"
  BY DEF EnvFilesRead, Unprobed, walkVars, readVars
<1>2. Keeping /\ IsDisk(disk) /\ Untouched' = Untouched
  BY <1>1, NothingEdited DEF IsScan
<1>3. ReadTrue'
  BY <1>1, <1>2, FilesKept DEF IsScan, ScanInv, AtRoot
<1>4. ServicesTrue'
  BY <1>1, <1>2, ServicesKept DEF IsScan, ScanInv, AtFile
<1>5. MappingTrue'
  <2>1. IsCompose(File)
    BY <1>1 DEF IsScan, IsTyped, Placed
  <2> SUFFICES ASSUME NEW s \in Services \intersect {services[1]}, EnvOf(s) \subseteq Untouched'
               PROVE  mapping = SettingsAfter(s, Len(s.env_file))'
    BY <1>1, <2>1 DEF MappingTrue, File
  <2>2. PICK n \in 0 .. Len(s.env_file) :
          /\ n + Len(envFiles) = Len(s.env_file)
          /\ EnvOf(s) \subseteq Untouched => mapping = SettingsAfter(s, n)
    BY <1>1 DEF IsScan, ScanInv, EnvFilesTrue
  <2>3. n = Len(s.env_file)
    <3>1. Len(envFiles) = 0
      BY <1>1
    <3> QED
      BY <2>2, <3>1
  <2>4. SettingsAfter(s, n)' = mapping
    BY <1>2, <2>2, SettingsKept
  <2> QED
    BY <2>3, <2>4
<1>6. RootsRead' /\ ScanFindsAll' /\ OffersTrue'
  BY <1>1, <1>2, InRoot DEF AtRoot
<1>7. WalkTrue' /\ EnvFilesTrue'
  BY <1>1 DEF WalkTrue, EnvFilesTrue
<1> QED
  BY <1>3, <1>4, <1>5, <1>6, <1>7 DEF ScanInv

(* What a sequence holds is its head or in its tail.                       *)
LEMMA TailHolds ==
  ASSUME NEW S, NEW s \in Seq(S), s # <<>>, NEW x
  PROVE  /\ IsIn(x, s) <=> x = s[1] \/ IsIn(x, Tail(s))
         /\ IsIn(s[1], s)
<1>1. /\ Len(s) \in Nat \ {0} /\ DOMAIN s = 1 .. Len(s) /\ DOMAIN Tail(s) = 1 .. Len(s) - 1
      /\ \A i \in 1 .. Len(s) - 1 : Tail(s)[i] = s[i + 1]
  BY TailType
<1>2. ASSUME NEW i \in DOMAIN s, s[i] = x
      PROVE  x = s[1] \/ IsIn(x, Tail(s))
  <2>1. CASE i = 1
    BY <1>2, <2>1
  <2>2. CASE i # 1
    <3>1. i - 1 \in 1 .. Len(s) - 1 /\ (i - 1) + 1 = i
      BY <1>1, <2>2
    <3>2. Tail(s)[i - 1] = x
      BY <1>1, <1>2, <3>1
    <3> QED
      BY <1>1, <3>1, <3>2 DEF IsIn
  <2> QED
    BY <2>1, <2>2
<1>3. ASSUME NEW i \in DOMAIN Tail(s), Tail(s)[i] = x
      PROVE  IsIn(x, s)
  <2>1. i + 1 \in DOMAIN s /\ s[i + 1] = x
    BY <1>1, <1>3
  <2> QED
    BY <2>1 DEF IsIn
<1>4. IsIn(s[1], s)
  BY <1>1 DEF IsIn
<1> QED
  BY <1>2, <1>3, <1>4 DEF IsIn

(* The configuration at hand.                                              *)
AtHand == IF IsCompose(File) THEN ServiceConfig(File, services[1]) ELSE EnvConfig(File)

(* It is one of the file's, and the mapping says what it says.             *)
LEMMA AtHandIs ==
  ASSUME IsScan, at \in {"build", "probe"}, AtHand.files \subseteq Untouched
  PROVE  /\ AtHand \in ConfigsOf(File) /\ AtHand.says = mapping
         /\ AtHand.found = Candidate(File, Service, mapping)
         /\ File \in Untouched /\ File \in ToRead
<1>1. todo # <<>> /\ todo \in Seq(Files) /\ (IsCompose(File) => services # <<>>)
      /\ services \in Seq(Services)
  BY DEF IsScan, IsTyped, Typed, Placed, ReadTyped, AtFile, AtMapping
<1>2. File \in AtHand.files
  BY DEF AtHand, ServiceConfig, EnvConfig, Config
<1>3. File \in Untouched /\ File \in ToRead /\ File \in Files
  BY <1>1, <1>2, FileToRead DEF AtRoot
<1>4. PICK f : f = File
  OBVIOUS
<1>5. CASE IsCompose(File)
  <2>1. PICK s \in Services : s = services[1]
    BY <1>1, <1>5, TailType
  <2>2. AtHand = ServiceConfig(f, s) /\ EnvOf(s) \subseteq Untouched
    BY <1>4, <1>5, <2>1, ServiceFiles DEF AtHand
  <2>3. mapping = SettingsAfter(s, Len(s.env_file))
    BY <1>5, <2>1, <2>2 DEF IsScan, ScanInv, MappingTrue
  <2>4. IsIn(s, services)
    BY <1>1, <1>5, <2>1, TailHolds
  <2>5. disk[f] \notin {Missing, Unreadable} /\ IsIn(s, disk[f])
    BY <1>3, <1>4, <1>5, <2>4 DEF IsScan, ScanInv, ServicesTrue, AtFile
  <2>6. IsDisk(disk)
    BY DEF IsScan, IsTyped, Typed, DiskTyped
  <2>7. AtHand \in ConfigsOf(f)
    BY <1>3, <1>4, <1>5, <2>2, <2>5, <2>6, ServicesOf DEF IsIn
  <2>8. Service = s.name
    BY <1>5, <2>1 DEF Service
  <2> QED
    BY <1>3, <1>4, <2>2, <2>3, <2>7, <2>8, ServiceFiles
<1>6. CASE ~IsCompose(File)
  <2>1. AtHand = EnvConfig(f) /\ Service = EnvFile
    BY <1>4, <1>6 DEF AtHand, Service
  <2>2. mapping = Parsed(f)
    BY <1>3, <1>4, <1>6 DEF IsScan, ScanInv, MappingTrue
  <2>3. AtHand \in ConfigsOf(f)
    BY <1>4, <1>6, <2>1 DEF ConfigsOf
  <2> QED
    BY <1>3, <1>4, <2>1, <2>2, <2>3 DEF EnvConfig, Config
<1> QED
  BY <1>5, <1>6

(* While no file is touched it is expected, if it is complete.             *)
LEMMA AtHandExpected ==
  ASSUME IsScan, at \in {"build", "probe"}, touched = {}, CompleteConfig(mapping)
  PROVE  /\ AtHand \in Expected /\ AtHand.files \subseteq Untouched /\ AtHand.says = mapping
         /\ AtHand.found = Candidate(File, Service, mapping)
<1>1. todo # <<>> /\ todo \in Seq(Files) /\ (IsCompose(File) => services # <<>>)
      /\ services \in Seq(Services)
  BY DEF IsScan, IsTyped, Typed, Placed, ReadTyped, AtFile, AtMapping
<1>2. File \in Files
  BY <1>1, TailType DEF File
<1>3. AtHand.files \subseteq Files
  <2>1. CASE IsCompose(File)
    <3>1. PICK s \in Services : s = services[1]
      BY <1>1, <2>1, TailType
    <3>2. s.env_file \in Seq(EnvPaths)
      BY FilesAssumption
    <3>3. EnvOf(s) \subseteq EnvPaths
      BY <3>2 DEF EnvOf
    <3>4. EnvPaths \subseteq Files
      BY DEF EnvPaths
    <3> QED
      BY <1>2, <2>1, <3>1, <3>3, <3>4, ServiceFiles DEF AtHand
  <2>2. CASE ~IsCompose(File)
    BY <1>2, <2>2 DEF AtHand, EnvConfig, Config
  <2> QED
    BY <2>1, <2>2
<1>4. AtHand.files \subseteq Untouched
  BY <1>3 DEF Untouched
<1> QED
  BY <1>4, AtHandIs DEF Expected

(* On to the next service or file: the configuration at hand is settled.   *)
LEMMA OnwardTrue ==
  ASSUME IsScan, at \in {"build", "probe"}, Onward, Keeping, UNCHANGED <<disk, touched, walkVars>>,
         NEW hand, hand = AtHand, Settled(hand)'
  PROVE  /\ WalkTrue' /\ ReadTrue' /\ ServicesTrue' /\ EnvFilesTrue' /\ MappingTrue'
         /\ at' \in AtRoot
<1>1. /\ todo # <<>> /\ todo \in Seq(Files) /\ (IsCompose(File) => services # <<>>)
      /\ services \in Seq(Services) /\ IsDisk(disk) /\ root' = root
  BY DEF IsScan, IsTyped, Typed, DiskTyped, Placed, ReadTyped, AtFile, AtMapping, walkVars
<1>2. Untouched' = Untouched
  BY DEF Untouched
<1>3. CASE IsCompose(File)
  <2>1. services' = Tail(services) /\ at' = "service" /\ todo' = todo
    BY <1>3 DEF Onward
  <2>2. ReadTrue'
    BY <1>1, <2>1, FilesKept DEF IsScan, ScanInv, AtRoot
  <2>3. ServicesTrue'
    <3> SUFFICES ASSUME NEW f \in Untouched' \intersect {File}
                 PROVE  /\ disk'[f] \notin {Missing, Unreadable}
                        /\ \A s \in Services :
                             /\ IsIn(s, services') => IsIn(s, disk'[f])
                             /\ IsIn(s, disk'[f]) => IsIn(s, services') \/ Settled(ServiceConfig(f, s))'
      BY <2>1 DEF ServicesTrue, File
    <3>1. /\ disk[f] \notin {Missing, Unreadable}
          /\ \A s \in Services : /\ IsIn(s, services) => IsIn(s, disk[f])
                                 /\ IsIn(s, disk[f]) => IsIn(s, services) \/ Settled(ServiceConfig(f, s))
      BY <1>2, <1>3 DEF IsScan, ScanInv, ServicesTrue, AtFile
    <3>2. \A s : IsIn(s, services) <=> s = services[1] \/ IsIn(s, services')
      BY <1>1, <1>3, <2>1, TailHolds
    <3>3. ASSUME NEW s \in Services, s = services[1]
          PROVE  Settled(ServiceConfig(f, s))'
      <4>1. hand = ServiceConfig(f, s)
        BY <1>3, <3>3 DEF AtHand
      <4> QED
        BY <4>1, ServiceSettled
    <3>4. ASSUME NEW s \in Services, Settled(ServiceConfig(f, s))
          PROVE  Settled(ServiceConfig(f, s))'
      <4>1. PICK c : c = ServiceConfig(f, s)
        OBVIOUS
      <4>2. Settled(c)'
        BY <3>4, <4>1, SettledKept
      <4> QED
        BY <4>1, <4>2, ServiceSettled
    <3> QED
      BY <3>1, <3>2, <3>3, <3>4
  <2>4. WalkTrue' /\ EnvFilesTrue' /\ MappingTrue' /\ at' \in AtRoot
    BY <2>1 DEF WalkTrue, EnvFilesTrue, MappingTrue, AtRoot
  <2> QED
    BY <2>2, <2>3, <2>4
<1>4. CASE ~IsCompose(File)
  <2>1. todo' = Tail(todo) /\ at' = "read"
    BY <1>4 DEF Onward
  <2>2. ReadTrue'
    <3> SUFFICES ASSUME NEW r \in Dirs \intersect {Roots[root]}, NEW f \in Untouched'
                 PROVE  /\ IsIn(f, todo') => OfRoot(f, r)'
                        /\ OfRoot(f, r)' => IsIn(f, todo') \/ IsRead(f)'
      BY <1>1 DEF ReadTrue
    <3>1. f \in Untouched /\ (OfRoot(f, r)' <=> OfRoot(f, r))
      BY OfRootKept
    <3>2. /\ IsIn(f, todo) => OfRoot(f, r)
          /\ OfRoot(f, r) => IsIn(f, todo) \/ IsRead(f)
      BY <3>1 DEF IsScan, ScanInv, ReadTrue, AtRoot
    <3>3. IsIn(f, todo) <=> f = File \/ IsIn(f, todo')
      BY <1>1, <2>1, TailHolds DEF File
    <3>4. f = File => IsRead(f)'
      <4> SUFFICES ASSUME f = File
                   PROVE  IsRead(f)'
        OBVIOUS
      <4>1. ConfigsOf(f)' = {hand}
        BY <1>4 DEF ConfigsOf, AtHand, EnvConfig, Parsed
      <4> QED
        BY <1>4, <4>1 DEF IsRead
    <3> QED
      BY <1>1, <3>1, <3>2, <3>3, <3>4, ReadKept
  <2>3. WalkTrue' /\ ServicesTrue' /\ EnvFilesTrue' /\ MappingTrue' /\ at' \in AtRoot
    BY <2>1 DEF WalkTrue, ServicesTrue, EnvFilesTrue, MappingTrue, AtRoot, AtFile
  <2> QED
    BY <2>2, <2>3
<1> QED
  BY <1>3, <1>4

(* A configuration that is not complete is passed over.                    *)
LEMMA SkipTrue ==
  ASSUME IsScan, Skip
  PROVE  ScanInv'
<1>1. /\ UNCHANGED <<disk, touched, candidates, walkVars, root>> /\ at = "build"
      /\ ~CompleteConfig(mapping) /\ Onward
  BY DEF Skip, Unprobed, walkVars
<1>2. Keeping /\ IsDisk(disk) /\ Untouched' = Untouched
  BY <1>1, NothingEdited DEF IsScan
<1>3. PICK hand : hand = AtHand
  OBVIOUS
<1>4. hand.files \subseteq Untouched => hand.says = mapping
  BY <1>1, <1>3, AtHandIs
<1>5. Settled(hand)'
  BY <1>1, <1>2, <1>4 DEF Settled
<1>6. /\ WalkTrue' /\ ReadTrue' /\ ServicesTrue' /\ EnvFilesTrue' /\ MappingTrue'
      /\ at' \in AtRoot
  BY <1>1, <1>2, <1>3, <1>5, OnwardTrue
<1>7. RootsRead' /\ ScanFindsAll' /\ OffersTrue'
  BY <1>1, <1>2, <1>6, InRoot DEF AtRoot
<1> QED
  BY <1>6, <1>7 DEF ScanInv

(* A port is no number.                                                    *)
LEMMA BadPortTrue ==
  ASSUME IsScan, BadPort
  PROVE  ScanInv'
<1>1. at = "build" /\ CompleteConfig(mapping) /\ PortOf(mapping) = Bad /\ FailScan
  BY DEF BadPort
<1>2. touched = {} => Unscannable(Untouched)
  BY <1>1, AtHandExpected DEF Unscannable
<1> QED
  BY <1>1, <1>2, FailTrue

(* A candidate is probed.                                                  *)
LEMMA OfferTrue ==
  ASSUME IsScan, Offer
  PROVE  ScanInv'
<1>1. /\ UNCHANGED <<disk, touched, candidates, root, todo, services, mapping>>
      /\ at = "build" /\ at' = "probe"
  BY DEF Offer, walkVars, readVars
<1>2. Keeping /\ IsDisk(disk)
  BY <1>1, NothingEdited DEF IsScan
<1>3. ReadTrue'
  BY <1>1, <1>2, FilesKept DEF IsScan, ScanInv, AtRoot
<1>4. ServicesTrue'
  BY <1>1, <1>2, ServicesKept DEF IsScan, ScanInv, AtFile
<1>5. MappingTrue'
  BY <1>1, <1>2, MappingKept DEF IsScan, ScanInv
<1>6. RootsRead' /\ ScanFindsAll' /\ OffersTrue'
  BY <1>1, <1>2, InRoot DEF AtRoot
<1>7. WalkTrue' /\ EnvFilesTrue'
  BY <1>1 DEF WalkTrue, EnvFilesTrue
<1> QED
  BY <1>3, <1>4, <1>5, <1>6, <1>7 DEF ScanInv

(* It is offered.                                                          *)
LEMMA OfferedTrue ==
  ASSUME IsScan, Offered
  PROVE  ScanInv'
<1>1. /\ UNCHANGED <<disk, touched, walkVars, root>> /\ at = "probe" /\ Onward
      /\ CompleteConfig(mapping) /\ PortOf(mapping) # Bad
  BY DEF Offered, walkVars, IsScan, IsTyped, Placed
<1>2. PICK new : /\ new.found = Candidate(File, Service, mapping)
                 /\ candidates' = Append(candidates, new)
  BY DEF Offered
<1>3. /\ Sized(candidates) /\ Sized(candidates') /\ Len(candidates') = Len(candidates) + 1
      /\ \A i \in 1 .. Len(candidates) : candidates'[i] = candidates[i]
      /\ candidates'[Len(candidates) + 1] = new
  <2>1. Sized(candidates)
    BY DEF IsScan, IsTyped, Typed, OfferTyped
  <2> QED
    BY <1>2, <2>1, SizedAppend
<1>4. /\ Len(candidates) \in Nat /\ DOMAIN candidates = 1 .. Len(candidates)
      /\ DOMAIN candidates' = 1 .. Len(candidates) + 1
  BY <1>3 DEF Sized
<1>5. /\ \A what : IsOffered(what) => IsOffered(what)'
      /\ IsOffered(new.found)'
  BY <1>3, <1>4 DEF IsOffered
<1>6. Keeping /\ IsDisk(disk) /\ Untouched' = Untouched
  <2>1. IsDisk(disk) /\ Untouched' = Untouched
    BY <1>1, NothingEdited DEF IsScan
  <2> QED
    BY <1>1, <1>5, <2>1 DEF Keeping, IsDisk
<1>7. PICK hand : hand = AtHand
  OBVIOUS
<1>8. hand.files \subseteq Untouched => hand.says = mapping /\ hand.found = new.found
  BY <1>1, <1>2, <1>7, AtHandIs
<1>9. Settled(hand)'
  BY <1>1, <1>5, <1>6, <1>8 DEF Settled
<1>10. /\ WalkTrue' /\ ReadTrue' /\ ServicesTrue' /\ EnvFilesTrue' /\ MappingTrue'
       /\ at' \in AtRoot
  BY <1>1, <1>6, <1>7, <1>9, OnwardTrue
<1>11. RootsRead' /\ ScanFindsAll'
  BY <1>1, <1>6, <1>10, InRoot DEF AtRoot
<1>12. OffersTrue'
  <2> SUFFICES ASSUME touched = {}, NEW i \in DOMAIN candidates'
               PROVE  \E c \in Expected : candidates'[i].found = c.found
    BY <1>1, SameDisk DEF OffersTrue
  <2>1. CASE i \in DOMAIN candidates
    <3>1. candidates'[i] = candidates[i] /\ Scanning
      BY <1>1, <1>3, <1>4, <2>1 DEF Scanning
    <3> QED
      BY <2>1, <3>1 DEF IsScan, ScanInv, OffersTrue
  <2>2. CASE i \notin DOMAIN candidates
    <3>1. candidates'[i] = new
      BY <1>3, <1>4, <2>2
    <3> QED
      BY <1>1, <1>2, <3>1, AtHandExpected
  <2> QED
    BY <2>1, <2>2
<1> QED
  BY <1>10, <1>11, <1>12 DEF ScanInv

(* What is expected comes from files that there may be.                    *)
LEMMA ExpectedFiles ==
  ASSUME IsDisk(disk), touched = {}, \A f \in ToRead : f \in Untouched => IsRead(f)
  PROVE  \A c \in Expected : c.files \subseteq Files
<1> SUFFICES ASSUME NEW c \in Expected
             PROVE  c.files \subseteq Files
  OBVIOUS
<1>1. PICK f \in ToRead : c \in ConfigsOf(f)
  BY DEF Expected
<1>2. f \in Files /\ disk[f] # Missing
  BY <1>1, ToReadIs DEF OfRoot, Found, IsDisk
<1>3. CASE ~IsCompose(f)
  BY <1>1, <1>2, <1>3 DEF ConfigsOf, EnvConfig, Config
<1>4. CASE IsCompose(f)
  <2>1. disk[f] \notin {Missing, Unreadable}
    BY <1>1, <1>2, <1>4 DEF IsRead, Untouched
  <2>2. PICK s \in Services : c = ServiceConfig(f, s)
    BY <1>1, <1>2, <1>4, <2>1, ServicesOf
  <2>3. EnvOf(s) \subseteq EnvPaths
    <3>1. s.env_file \in Seq(EnvPaths)
      BY FilesAssumption
    <3> QED
      BY <3>1 DEF EnvOf
  <2>4. EnvPaths \subseteq Files
    BY DEF EnvPaths
  <2> QED
    BY <1>2, <2>2, <2>3, <2>4, ServiceFiles
<1> QED
  BY <1>3, <1>4

(* All services of a compose file are through: it has been read.           *)
LEMMA FileDoneTrue ==
  ASSUME IsScan, FileDone
  PROVE  ScanInv'
<1>1. /\ UNCHANGED <<disk, touched, candidates, root>> /\ at = "service" /\ at' = "read"
      /\ services = <<>> /\ todo' = Tail(todo)
  BY DEF FileDone, Unprobed, walkVars
<1>2. Keeping /\ IsDisk(disk) /\ Untouched' = Untouched
  BY <1>1, NothingEdited DEF IsScan
<1>3. todo # <<>> /\ todo \in Seq(Files) /\ IsCompose(File)
  BY <1>1 DEF IsScan, IsTyped, Typed, Placed, ReadTyped, AtFile
<1>4. ReadTrue'
  <2> SUFFICES ASSUME NEW r \in Dirs \intersect {Roots[root]}, NEW f \in Untouched'
               PROVE  /\ IsIn(f, todo') => OfRoot(f, r)'
                      /\ OfRoot(f, r)' => IsIn(f, todo') \/ IsRead(f)'
    BY <1>1 DEF ReadTrue
  <2>1. f \in Untouched /\ f \in Files /\ (OfRoot(f, r)' <=> OfRoot(f, r))
    BY <1>2, OfRootKept
  <2>2. /\ IsIn(f, todo) => OfRoot(f, r)
        /\ OfRoot(f, r) => IsIn(f, todo) \/ IsRead(f)
    BY <1>1, <2>1 DEF IsScan, ScanInv, ReadTrue, AtRoot
  <2>3. IsIn(f, todo) <=> f = File \/ IsIn(f, todo')
    BY <1>1, <1>3, TailHolds DEF File
  <2>4. f = File => IsRead(f)
    <3> SUFFICES ASSUME f = File
                 PROVE  IsRead(f)
      OBVIOUS
    <3>1. /\ disk[f] \notin {Missing, Unreadable}
          /\ \A s \in Services : IsIn(s, disk[f]) => IsIn(s, services) \/ Settled(ServiceConfig(f, s))
      BY <1>1, <1>3, <2>1 DEF IsScan, ScanInv, ServicesTrue, AtFile
    <3>2. \A s : ~ IsIn(s, services)
      BY <1>1 DEF IsIn
    <3>3. ASSUME NEW c \in ConfigsOf(f)
          PROVE  Settled(c)
      <4>1. PICK i \in DOMAIN disk[f] : c = ServiceConfig(f, disk[f][i])
        BY <1>2, <1>3, <2>1, <3>1, ServicesOf
      <4>2. disk[f][i] \in Services /\ IsIn(disk[f][i], disk[f])
        BY <1>2, <1>3, <2>1, <3>1, <4>1, ServicesOf DEF IsIn
      <4> QED
        BY <3>1, <3>2, <4>1, <4>2
    <3> QED
      BY <3>1, <3>3 DEF IsRead
  <2> QED
    BY <1>2, <2>1, <2>2, <2>3, <2>4, ReadKept
<1>5. RootsRead' /\ ScanFindsAll' /\ OffersTrue'
  BY <1>1, <1>2, InRoot DEF AtRoot
<1>6. WalkTrue' /\ ServicesTrue' /\ EnvFilesTrue' /\ MappingTrue'
  BY <1>1 DEF WalkTrue, ServicesTrue, EnvFilesTrue, MappingTrue, AtFile
<1> QED
  BY <1>4, <1>5, <1>6 DEF ScanInv

(* All files of a root have been read.                                     *)
LEMMA RootDoneTrue ==
  ASSUME IsScan, RootDone
  PROVE  ScanInv'
<1>1. /\ UNCHANGED <<disk, touched, candidates, root>> /\ at = "read" /\ at' = "root"
      /\ todo = <<>>
  BY DEF RootDone, Unprobed, walkVars, readVars
<1>2. Keeping /\ IsDisk(disk)
  BY <1>1, NothingEdited DEF IsScan
<1>3. RootsRead'
  <2> SUFFICES ASSUME NEW i \in DOMAIN Roots, NEW f \in Files, Roots[i] \in Dirs,
                      i < root \/ i = root, OfRoot(f, Roots[i])'
               PROVE  IsRead(f)'
    BY <1>1 DEF RootsRead
  <2>1. CASE f \in Untouched'
    <3>1. OfRoot(f, Roots[i]) /\ f \in Untouched
      BY <1>2, <2>1, OfRootKept
    <3>2. CASE i < root
      <4>1. IsRead(f)
        BY <1>1, <3>1, <3>2 DEF IsScan, ScanInv, RootsRead, Scanning
      <4> QED
        BY <1>2, <4>1, ReadKept
    <3>3. CASE i = root
      <4>1. ~ IsIn(f, todo)
        BY <1>1 DEF IsIn
      <4>2. IsRead(f)
        BY <1>1, <3>1, <3>3, <4>1 DEF IsScan, ScanInv, ReadTrue, AtRoot
      <4> QED
        BY <1>2, <4>2, ReadKept
    <3> QED
      BY <3>2, <3>3
  <2>2. CASE f \notin Untouched'
    BY <2>2 DEF IsRead
  <2> QED
    BY <2>1, <2>2
<1>4. OffersTrue'
  BY <1>1, OffersKept DEF IsScan, ScanInv, Scanning
<1>5. WalkTrue' /\ ReadTrue' /\ ServicesTrue' /\ EnvFilesTrue' /\ MappingTrue' /\ ScanFindsAll'
  BY <1>1 DEF WalkTrue, ReadTrue, ServicesTrue, EnvFilesTrue, MappingTrue, ScanFindsAll, AtRoot, AtFile
<1> QED
  BY <1>3, <1>4, <1>5 DEF ScanInv

(* All roots are through: what is expected of untouched files is offered,  *)
(* under its id, and what is offered was expected.                         *)
LEMMA FinishTrue ==
  ASSUME IsScan, Finish
  PROVE  ScanInv'
<1>1. /\ UNCHANGED <<disk, touched>> /\ at = "root" /\ root = Len(Roots) /\ at' = "done"
      /\ result' = Deduped(candidates)
  BY DEF Finish, Return, Unprobed
<1>2. IsDisk(disk) /\ ToRead' = ToRead /\ Expected' = Expected
  BY <1>1, NothingEdited, SameDisk DEF IsScan
<1>3. Untouched = DOMAIN disk \ touched
  BY <1>2 DEF Untouched, IsDisk
<1>4. ASSUME NEW f \in ToRead, f \in Untouched
      PROVE  IsRead(f)
  <2>1. PICK i \in DOMAIN Roots : Roots[i] \in Dirs /\ OfRoot(f, Roots[i])
    BY <1>4, ToReadIs
  <2>2. i < root \/ i = root
    BY <1>1, DirsAssumption
  <2>3. f \in Files
    BY <1>4 DEF Untouched
  <2> QED
    BY <1>1, <2>1, <2>2, <2>3 DEF IsScan, ScanInv, RootsRead, Scanning
<1>5. ASSUME NEW c \in Expected, c.files \subseteq Untouched
      PROVE  PortOf(c.says) # Bad /\ IsOffered(c.found)
  <2>1. PICK f \in ToRead : c \in ConfigsOf(f) /\ CompleteConfig(c.says)
    BY DEF Expected
  <2>2. f \in Untouched
    BY <1>5, <2>1, OwnFile
  <2> QED
    BY <1>4, <1>5, <2>1, <2>2 DEF IsRead, Settled
<1>6. ~ Unscannable(Untouched)
  <2>1. ~ (\E f \in ToRead \intersect Untouched : IsCompose(f) /\ disk[f] = Unreadable)
    BY <1>4 DEF IsRead
  <2> QED
    BY <1>5, <2>1 DEF Unscannable
<1>7. Sized(candidates)
  BY DEF IsScan, IsTyped, Typed, OfferTyped
<1>8. ASSUME NEW c \in Expected, c.files \subseteq Untouched
      PROVE  \E d \in result' : d.found.id = c.found.id
  <2>1. PICK i \in DOMAIN candidates : candidates[i].found = c.found
    BY <1>5, <1>8 DEF IsOffered
  <2> QED
    BY <1>1, <1>7, <2>1, DedupedKeeps
<1>9. ASSUME touched = {}, NEW d \in result'
      PROVE  \E c \in Expected : c.files \subseteq Untouched /\ d.found = c.found
  <2>1. PICK i \in DOMAIN candidates : d = candidates[i]
    BY <1>1, <1>9 DEF Deduped
  <2>2. PICK c \in Expected : candidates[i].found = c.found
    BY <1>1, <1>9 DEF IsScan, ScanInv, OffersTrue, Scanning
  <2>3. c.files \subseteq Files
    BY <1>2, <1>4, <1>9, ExpectedFiles
  <2> QED
    BY <1>9, <2>1, <2>2, <2>3 DEF Untouched
<1>10. ScanFindsAll'
  <2>1. ~ Unscannable(DOMAIN disk \ touched)'
    BY <1>1, <1>2, <1>3, <1>6 DEF Unscannable
  <2>2. {c.found.id : c \in {c \in Expected : c.files \subseteq Untouched}}
          \subseteq {c.found.id : c \in result'}
    BY <1>8
  <2>3. touched = {} => {c.found : c \in result'}
                          \subseteq {c.found : c \in {c \in Expected : c.files \subseteq Untouched}}
    BY <1>9
  <2> QED
    BY <1>1, <1>2, <1>3, <2>1, <2>2, <2>3 DEF ScanFindsAll
<1>11. RootsRead' /\ OffersTrue'
  BY <1>1 DEF RootsRead, OffersTrue, Scanning
<1>12. WalkTrue' /\ ReadTrue' /\ ServicesTrue' /\ EnvFilesTrue' /\ MappingTrue'
  BY <1>1 DEF WalkTrue, ReadTrue, ServicesTrue, EnvFilesTrue, MappingTrue, AtRoot, AtFile
<1> QED
  BY <1>10, <1>11, <1>12 DEF ScanInv

(* A file is edited: it is touched, and the others are as they were.       *)
LEMMA EditTrue ==
  ASSUME IsScan, DiskTyped', NEW file, NEW content, Edit(file, content)
  PROVE  ScanInv'
<1>1. /\ disk' = [disk EXCEPT ![file] = content] /\ touched' = touched \union {file}
      /\ UNCHANGED <<at, walkVars, readVars, candidates, result>>
  BY DEF Edit
<1>2. IsDisk(disk) /\ IsDisk(disk)'
  BY DEF IsScan, IsTyped, Typed, DiskTyped
<1>3. Keeping
  <2>1. DOMAIN disk = Files /\ DOMAIN disk' = Files
    BY <1>2 DEF IsDisk
  <2>2. \A f \in Files \ touched' : disk'[f] = disk[f]
    BY <1>1, <2>1
  <2>3. \A what : IsOffered(what) => IsOffered(what)'
    BY <1>1 DEF IsOffered
  <2> QED
    BY <1>1, <2>1, <2>2, <2>3 DEF Keeping
<1> QED
  BY <1>1, <1>3, AroundTrue DEF IsScan

(* Nothing is scanned yet.                                                 *)
LEMMA InitTrue ==
  ASSUME Init
  PROVE  ScanInv
BY DEF Init, ScanInv, RootsRead, WalkTrue, ReadTrue, ServicesTrue, EnvFilesTrue, MappingTrue, OffersTrue,
   ScanFindsAll, Scanning, AtRoot, AtFile

(* Every step keeps the invariant.                                         *)
LEMMA StepScans ==
  ASSUME IsScan, Typed', [Next]_vars
  PROVE  ScanInv'
<1>1. ASSUME UNCHANGED <<disk, scanVars>>
      PROVE  ScanInv'
  <2>1. UNCHANGED <<disk, touched, at, walkVars, readVars, candidates, result>>
    BY <1>1 DEF scanVars
  <2>2. Keeping
    BY <2>1, NothingEdited DEF IsScan
  <2> QED
    BY <2>1, <2>2, AroundTrue DEF IsScan
<1>2. ASSUME NEW file \in DOMAIN disk, NEW content \in Edits[file], Edit(file, content)
      PROVE  ScanInv'
  BY <1>2, EditTrue DEF Typed
<1>3. ASSUME NEW uri \in Uris, CheckSource(FromUri(uri))
      PROVE  ScanInv'
  BY <1>1, <1>3 DEF CheckSource, Unscanned, scanVars
<1>4. ASSUME Checked
      PROVE  ScanInv'
  BY <1>1, <1>4 DEF Checked, Unscanned, scanVars
<1>5. ASSUME NEW entry \in pending, Visit(entry[1], entry[2])
      PROVE  ScanInv'
  BY <1>5, VisitTrue
<1>6. ASSUME Start \/ NextRoot \/ Walked
      PROVE  ScanInv'
  BY <1>6, StartTrue, NextRootTrue, WalkedTrue
<1>7. ASSUME ReadEnv \/ ReadCompose \/ NextService \/ ReadEnvFile \/ EnvFilesRead
      PROVE  ScanInv'
  BY <1>7, ReadEnvTrue, ReadComposeTrue, NextServiceTrue, ReadEnvFileTrue, EnvFilesReadTrue
<1>8. ASSUME Skip \/ BadPort \/ Offer \/ Offered
      PROVE  ScanInv'
  BY <1>8, SkipTrue, BadPortTrue, OfferTrue, OfferedTrue
<1>9. ASSUME FileDone \/ RootDone \/ Finish
      PROVE  ScanInv'
  BY <1>9, FileDoneTrue, RootDoneTrue, FinishTrue
<1>10. ASSUME UNCHANGED vars
       PROVE  ScanInv'
  BY <1>1, <1>10 DEF vars
<1> QED
  BY <1>1, <1>2, <1>3, <1>4, <1>5, <1>6, <1>7, <1>8, <1>9, <1>10, Zenon DEF Next, ScanStep

(* A scan offers every complete configuration in reach of its roots that   *)
(* is in files nobody edits, and nothing that is not in the files; it      *)
(* fails for what cannot be read and for nothing else: whatever the tree,  *)
(* the files and their services, and whichever servers come and go         *)
(* (scan_local_new_api_sources).                                           *)
THEOREM AllFound == Spec => []ScanFindsAll
<1>1. Init => ProbeInv /\ Typed /\ Placed /\ ScanInv
  BY InitTyped, InitTrue, ProbeInitTrue DEF Init
<1>2. ProbeInv /\ Typed /\ Placed /\ ScanInv /\ [Next]_vars
        => ProbeInv' /\ Typed' /\ Placed' /\ ScanInv'
  BY StepTrue, StepTyped, StepScans DEF IsTyped, IsScan
<1>3. ScanInv => ScanFindsAll
  BY DEF ScanInv
<1> QED
  BY <1>1, <1>2, <1>3, PTL DEF Spec
=============================================================================
