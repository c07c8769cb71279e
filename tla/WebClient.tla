------------------------------ MODULE WebClient -----------------------------
(***************************************************************************)
(* The browser's side (web/js/app.js).  JavaScript runs one piece of code  *)
(* at a time, from an event to the next await; a task here is one          *)
(* invocation of an event handler with the functions it awaits, and        *)
(* several of them may be waiting for answers of the server at once.  Two  *)
(* caches without a time limit, queryCache by URL and bundledQueryCache by *)
(* the filters of a query, are cleared when the server acknowledges a      *)
(* write and when the session begins or ends.                              *)
(*                                                                         *)
(* An answer is abstracted to the request it answers and the server's      *)
(* registry when it was given.  Sorting and the page size are not told     *)
(* apart from the other filters of a query.  What the form holds besides   *)
(* the source is read when a query starts and chosen there: the user, a    *)
(* chart or the reset button may have changed it at any time before.       *)
(***************************************************************************)
EXTENDS Integers, FiniteSets

CONSTANTS
  Tasks,        (* identities for handlers that run at the same time       *)
  Sources,      (* source ids                                              *)
  Filters,      (* what the form may hold besides the source               *)
  LastPage,     (* the pages of every result                               *)
  MaxPage,      (* bound: the page that the buttons may reach              *)
  MaxEdits,     (* bound: the changes of the server's registry             *)
  MaxStarts,    (* bound: the handlers set off, but for those of the pager *)
  AuthEnabled,  (* AUTH_ENABLED of the server                              *)
  None

ASSUME ClientAssumption ==
  /\ LastPage \in Nat \ {0} /\ MaxPage \in Nat /\ LastPage =< MaxPage
  /\ MaxEdits \in Nat /\ MaxStarts \in Nat
  /\ AuthEnabled \in BOOLEAN
  /\ None \notin Tasks \union Sources \union Filters

VARIABLES
  registry, version,           (* the server: its sources and the number   *)
                               (* of their changes                         *)
  issued, expired,             (* the session tokens it has issued, and    *)
                               (* how many of them, in order, have expired *)
  cookie,                      (* the token that the browser holds, or 0   *)
  net,                         (* requests and answers under way           *)
  tasks,
  queryCache, bundledQueryCache,
  auth,                        (* authState: "off", "in" or "out"          *)
  recent,                      (* the source kept in localStorage          *)
  ui,                          (* the form and the panels                  *)
  starts,                      (* the handlers that count for MaxStarts    *)
  floor                        (* auxiliary: the version that the last     *)
                               (* acknowledged write brought about         *)

sessions == <<issued, expired, cookie>>
server == <<registry, version, sessions>>
caches == <<queryCache, bundledQueryCache>>
vars == <<server, net, tasks, caches, auth, recent, ui, starts, floor>>

-----------------------------------------------------------------------------
(* Requests and answers.                                                   *)

Url(path, s, f, n) == [path |-> path, source |-> s, filter |-> f, page |-> n]
Plain(path) == Url(path, None, None, 0)
StatsUrls(q) == {Url(path, q.source, q.filter, 0) : path \in {"summary", "charts"}}
DetailsUrl(q) == Url("details", q.source, q.filter, q.page)
WriteUrl(kind, s) == Url(kind, s, None, 0)

Queries == [source : Sources, filter : Filters, page : 1 .. MaxPage]
Urls == {Plain(p) : p \in {"sources", "test", "login", "logout", "status"}}
          \union (UNION {StatsUrls(q) : q \in Queries})
          \union {DetailsUrl(q) : q \in Queries}
          \union {WriteUrl(k, s) : k \in {"save", "delete"}, s \in Sources}
Writes == {"test", "save", "delete", "login", "logout"}
Tokens == 0 .. MaxStarts + 1

(* A request carries the cookie of its time, an answer the one that it     *)
(* sets, if it is of a login or a logout.                                  *)
(* An answer is late if it was asked for before the caches were cleared    *)
(* for the last time (an auxiliary mark).                                  *)
Answers == [url : Urls, at : 0 .. MaxEdits, listing : SUBSET Sources,
            valid : BOOLEAN, late : BOOLEAN]
Codes == {"none", "ok", "body", "unauthorized"}
Messages == [task : Tasks \union {None}, code : Codes, cookie : Tokens,
             answer : Answers]
Request(t, u) ==
  [task |-> t, code |-> "none", cookie |-> cookie,
   answer |-> [url |-> u, at |-> 0, listing |-> {}, valid |-> FALSE, late |-> FALSE]]

UrlsOf(answers) == {a.url : a \in answers}
Late(answers) == {[a EXCEPT !.late = TRUE] : a \in answers}

Kinds == {"none", "boot", "query", "sources", "scan", "save", "delete",
          "login", "logout"}
Awaits == {"idle", "status", "stats", "details", "list", "test", "write",
           "login", "logout"}
NoTask == [kind |-> "none", await |-> "idle", source |-> None, filter |-> None,
           page |-> 0, got |-> {}, parts |-> {}]
TaskTypes == [kind : Kinds, await : Awaits, source : Sources \union {None},
              filter : Filters \union {None}, page : 0 .. MaxPage,
              got : SUBSET Answers, parts : SUBSET Urls]

BundleKeyMutant(q) == <<q.source>>
(* The key of bundledQueryCache: the parameters without the page.          *)
BundleKey(q) == <<q.source, q.filter>>
Bundled(q) == {b \in bundledQueryCache : b.key = BundleKey(q)}

-----------------------------------------------------------------------------
(* The panels.  A panel shows nothing (a failure, say), that it is loading *)
(* or the request that its answer answers.                                 *)

Empty   == Plain("empty")
Loading == Plain("loading")

BlankMutant(u) ==
  [u EXCEPT !.summary = Empty, !.details = Empty, !.charts = Empty,
            !.page = 0, !.shownPage = 1, !.pages = 1]
(* fillSummary, renderDetails, renderCharts and updatePagination without   *)
(* data: reset, a deleted source, a locked page.                           *)
Blank(u) ==
  [u EXCEPT !.summary = Empty, !.details = Empty, !.charts = Empty,
            !.page = 1, !.shownPage = 1, !.pages = 1]

(* resetProtectedView.                                                     *)
ResetView(u) ==
  [Blank(u) EXCEPT !.visible = FALSE, !.cards = [s \in Sources |-> 0],
                   !.source = None]

ShowAuthMutant(u, state) ==
  IF state = "out" THEN u ELSE [u EXCEPT !.visible = TRUE, !.gate = FALSE]
(* The gate is the form to log in.                                         *)
OpenGate(u) == [ResetView(u) EXCEPT !.gate = TRUE]

(* updateAuthUi.                                                           *)
ShowAuth(u, state) ==
  IF state = "out" THEN OpenGate(u) ELSE [u EXCEPT !.visible = TRUE, !.gate = FALSE]

FailedChartsMutant(u) == u.charts
(* The catch block of runQuery.                                            *)
FailedCharts(u) == Empty
QueryFailed(u) == [u EXCEPT !.details = Empty, !.charts = FailedCharts(u)]

(* runQuery with all its answers: the summary and the charts come from the *)
(* bundle, the rest from the query.                                        *)
QueryShown(u, q, parts) ==
  LET shown(path) == CHOOSE part \in parts : part.path = path
  IN  [u EXCEPT !.summary = shown("summary"), !.charts = shown("charts"),
                !.details = DetailsUrl(q),
                !.page = q.page, !.shownPage = q.page, !.pages = LastPage]

EmptiedListMutant(u) == u.cards
(* loadSources empties the list when the answer is there, not before.      *)
EmptiedList(u) == [s \in Sources |-> 0]

(* restoreRecentSource: a source that has gone leaves nothing selected.    *)
Selected(listing, first) ==
  IF recent = None THEN first ELSE IF recent \in listing THEN recent ELSE None

ListShown(u, listing, first) ==
  LET emptied == EmptiedList(u)
  IN  [u EXCEPT !.cards = [s \in Sources |->
                             IF s \in listing THEN emptied[s] + 1 ELSE emptied[s]],
                !.source = IF listing = {} THEN None ELSE Selected(listing, first)]

-----------------------------------------------------------------------------
(* Tasks.                                                                  *)

Ready(t) == tasks[t].await # "idle" /\ \A m \in net : m.task # t

(* Promises that are settled go on before any other event is handled.      *)
Quiet == \A t \in Tasks : ~Ready(t)

(* fetchJson and its kin: what queryCache has needs no request.            *)
Await(t, task, urls) ==
  LET hits == {a \in queryCache : a.url \in urls}
  IN  /\ tasks' = [tasks EXCEPT ![t] = [task EXCEPT !.got = hits]]
      /\ net' = net \union {Request(t, u) : u \in urls \ UrlsOf(hits)}

End(t) == tasks' = [tasks EXCEPT ![t] = NoTask] /\ UNCHANGED net

Starts(t) == Quiet /\ tasks[t] = NoTask
Counted == starts < MaxStarts /\ starts' = starts + 1

(* loadSources: nothing is loaded while the page is locked.                *)
LoadSources(t, kind, u) ==
  IF auth = "out"
  THEN ui' = ResetView(u) /\ End(t)
  ELSE /\ ui' = u
       /\ Await(t, [NoTask EXCEPT !.kind = kind, !.await = "list"], {Plain("sources")})

(* ensureProtectedContentLoaded, after loadSources: protectedBootstrapped. *)
Loaded(t, u) == [u EXCEPT !.loaded = @ \/ tasks[t].kind = "boot"]

Init ==
  /\ registry \in SUBSET Sources /\ version = 0
  /\ issued \in (IF AuthEnabled THEN {0, 1} ELSE {0})
  /\ cookie = issued /\ expired = 0
  /\ queryCache = {} /\ bundledQueryCache = {}
  /\ auth = "off" /\ starts = 0 /\ floor = 0
  /\ recent \in Sources \union {None}
  /\ ui = [visible |-> FALSE, gate |-> FALSE, loaded |-> FALSE, source |-> None,
           page |-> 1, shownPage |-> 1, pages |-> 1, cards |-> [s \in Sources |-> 0],
           summary |-> Empty, details |-> Empty, charts |-> Empty]
  /\ \E t \in Tasks :
       /\ tasks = [[u \in Tasks |-> NoTask] EXCEPT
                     ![t] = [NoTask EXCEPT !.kind = "boot", !.await = "status"]]
       /\ net = {Request(t, Plain("status"))}

-----------------------------------------------------------------------------
(* The user.                                                               *)

(* runQuery up to its first await, with what the user has typed by then.   *)
RunQuery(t, f, n) ==
  LET q == [source |-> ui.source, filter |-> f, page |-> n]
      task == [NoTask EXCEPT !.kind = "query", !.source = q.source,
                             !.filter = q.filter, !.page = n]
  IN  /\ Starts(t) /\ ui.visible
      /\ \/ /\ auth = "out" \/ ui.source = None
            /\ ui' = [ui EXCEPT !.page = n]
            /\ UNCHANGED <<tasks, net, recent>>
         \/ /\ auth # "out" /\ ui.source # None
            /\ ui' = [ui EXCEPT !.page = n, !.charts = Loading]
            /\ recent' = ui.source
            /\ \/ /\ Bundled(q) = {}
                  /\ Await(t, [task EXCEPT !.await = "stats"], StatsUrls(q))
               \/ \E b \in Bundled(q) :
                    Await(t, [task EXCEPT !.await = "details", !.parts = UrlsOf(b.answers)],
                          {DetailsUrl(q)})
      /\ UNCHANGED <<server, caches, auth, floor>>

(* The form's submit, a new order or page size, and the pager's buttons.   *)
Search(t) == Counted /\ \E f \in Filters : RunQuery(t, f, 1)
PreviousPage(t) ==
  /\ ui.shownPage > 1 /\ ui.page > 1
  /\ \E f \in Filters : RunQuery(t, f, ui.page - 1)
  /\ UNCHANGED starts
NextPage(t) ==
  /\ ui.shownPage < ui.pages /\ ui.page < MaxPage
  /\ \E f \in Filters : RunQuery(t, f, ui.page + 1)
  /\ UNCHANGED starts

(* The reset button: it clears bundledQueryCache only.                     *)
Reset ==
  /\ Quiet /\ ui.visible
  /\ ui' = Blank(ui)
  /\ bundledQueryCache' = {}
  /\ UNCHANGED <<server, net, tasks, queryCache, auth, recent, starts, floor>>

(* Another source is selected.                                             *)
Select(s) ==
  /\ Quiet /\ ui.visible /\ ui.cards[s] > 0
  /\ recent' = s
  /\ ui' = [ui EXCEPT !.source = s]
  /\ UNCHANGED <<server, net, tasks, caches, auth, starts, floor>>

(* restoreFilterState: a saved source that is not listed any more leaves   *)
(* nothing selected.                                                       *)
Restored(saved) ==
  IF saved = None THEN ui.source ELSE IF ui.cards[saved] > 0 THEN saved ELSE None
RestoreFilter ==
  /\ Quiet /\ ui.visible
  /\ \E saved \in Sources \union {None} :
       ui' = [ui EXCEPT !.source = Restored(saved)]
  /\ UNCHANGED <<server, net, tasks, caches, auth, recent, starts, floor>>

(* The button that refreshes the sources; it is outside the protected part. *)
RefreshSources(t) ==
  /\ Starts(t) /\ Counted
  /\ LoadSources(t, "sources", ui)
  /\ UNCHANGED <<server, caches, auth, recent, floor>>

(* The handlers that begin with a write: those of the protected part do    *)
(* nothing on a locked page.                                               *)
FirstWrite(kind) == IF kind \in {"scan", "save"} THEN "test" ELSE kind
FirstAwait(kind) == IF kind = "delete" THEN "write" ELSE FirstWrite(kind)
Write(t, kind, s) ==
  /\ Starts(t) /\ Counted
  /\ kind \in {"scan", "save", "delete"} => ui.visible /\ auth # "out"
  /\ Await(t, [NoTask EXCEPT !.kind = kind, !.await = FirstAwait(kind), !.source = s],
           {IF kind = "delete" THEN WriteUrl(kind, s) ELSE Plain(FirstWrite(kind))})
  /\ UNCHANGED <<server, caches, auth, recent, ui, floor>>

ScanLocalConfigs(t) == Write(t, "scan", None)
SaveSource(t, s)    == Write(t, "save", s)
DeleteSource(t, s)  == ui.cards[s] > 0 /\ Write(t, "delete", s)
Login(t)            == ui.gate /\ Write(t, "login", None)
Logout(t)           == auth = "in" /\ Write(t, "logout", None)

-----------------------------------------------------------------------------
(* The server (main.py, the routes) and the network.                       *)

(* Tokens live equally long, so they expire in the order of their issue;   *)
(* nothing revokes one, a logout neither.                                  *)
ReadToken(token) == token > expired

(* get_authenticated_username; this client never sends HTTP Basic.         *)
Authenticated(token) == AuthEnabled /\ ReadToken(token)

Public == {"login", "logout", "status"}           (* is_public_path        *)
Guarded(m) ==
  AuthEnabled /\ m.answer.url.path \notin Public /\ ~Authenticated(m.cookie)

(* auth_login and auth_logout, given the right password.                   *)
IssueToken(u) == issued' = IF AuthEnabled /\ u.path = "login" THEN issued + 1 ELSE issued
SetCookie(u)  == IF AuthEnabled /\ u.path = "login" THEN issued' ELSE 0

Known(u) == u.path \in {"summary", "charts", "details"} => u.source \in registry

(* The effect of a request that succeeds.                                  *)
Effect(u) ==
  /\ registry' = CASE u.path = "save"   -> registry \union {u.source}
                   [] u.path = "delete" -> registry \ {u.source}
                   [] OTHER             -> registry
  /\ version' = IF u.path \in {"save", "delete"} THEN version + 1 ELSE version
  /\ IssueToken(u)
  /\ UNCHANGED <<expired, cookie>>

(* list_sources, auth_status: what only they answer.                       *)
ListedNow(u)       == IF u.path = "sources" THEN registry ELSE {}
SignedIn(u, token) == u.path = "status" /\ Authenticated(token)

(* What the server answers, unless it is an error: a route behind the      *)
(* guard, of a source that is known.  The answer is of the time when it is *)
(* given, at; the data in it may be older, by what the server's own cache  *)
(* and pools may keep (StatsService).                                      *)
Serve(m) ==
  LET u == m.answer.url
  IN  /\ m.code = "none"
      /\ \/ /\ Guarded(m)
            /\ net' = (net \ {m}) \union
                 {[m EXCEPT !.code = "unauthorized", !.cookie = 0]}
            /\ UNCHANGED server
         \/ /\ ~Guarded(m) /\ Known(u)
            /\ u.path \in {"save", "delete"} => version < MaxEdits
            /\ u.path = "delete" => u.source \in registry
            /\ Effect(u)
            /\ net' = (net \ {m}) \union
                 {[m EXCEPT !.code = "ok", !.cookie = SetCookie(u),
                            !.answer = [@ EXCEPT
                              !.at = IF u.path \in Public THEN 0 ELSE version',
                              !.listing = ListedNow(u),
                              !.valid = SignedIn(u, m.cookie)]]}
      /\ UNCHANGED <<tasks, caches, auth, recent, ui, starts, floor>>

(* Another administrator edits the sources; the oldest token expires.      *)
Elsewhere ==
  /\ \/ /\ version < MaxEdits /\ version' = version + 1
        /\ registry' \in SUBSET Sources \ {registry}
        /\ UNCHANGED sessions
     \/ /\ expired < issued /\ expired' = expired + 1
        /\ UNCHANGED <<registry, version, issued, cookie>>
  /\ UNCHANGED <<net, tasks, caches, auth, recent, ui, starts, floor>>

-----------------------------------------------------------------------------
(* An answer arrives.                                                      *)

ClearedMutant(cache) == cache
Cleared(cache) == {}
(* queryCache.clear(), bundledQueryCache.clear(): what is under way        *)
(* becomes late.  The net keeps rest and gets what is new.                 *)
ClearCaches(rest, new) ==
  /\ queryCache' = Cleared(queryCache)
  /\ bundledQueryCache' = Cleared(bundledQueryCache)
  /\ net' = {[m EXCEPT !.answer = [@ EXCEPT !.late = TRUE]] : m \in rest} \union new

Aged(ts) == [t \in Tasks |-> [ts[t] EXCEPT !.got = Late(@)]]

(* handleLogout after its request, successful or not.                      *)
LogOut(t, rest) ==
  /\ ClearCaches(rest, {})
  /\ tasks' = [Aged(tasks) EXCEPT ![t] = NoTask]
  /\ auth' = "out"
  /\ ui' = [ShowAuth(ui, "out") EXCEPT !.loaded = FALSE]

(* Where the task that an answer is for waits.                             *)
AwaitOf(m) == IF m.task = None THEN "idle" ELSE tasks[m.task].await

(* A Promise.all that is rejected leaves its other requests under way.     *)
Orphaned(rest, t) ==
  {IF m.task = t THEN [m EXCEPT !.task = None] ELSE m : m \in rest}

(* A request fails: the catch block of the function that awaits it, which  *)
(* is runQuery's, the start-up's, loadSources' or one that only reports it *)
(* (the handlers that write).                                              *)
Fail(m, u) ==
  LET t == m.task
  IN  \/ /\ t = None
         /\ net' = net \ {m}
         /\ ui' = u
         /\ UNCHANGED tasks
      \/ /\ t # None
         /\ net' = Orphaned(net \ {m}, t)
         /\ tasks' = [tasks EXCEPT ![t] = NoTask]
         /\ ui' = CASE AwaitOf(m) \in {"stats", "details"} -> QueryFailed(u)
                    [] tasks[t].kind = "boot" /\ AwaitOf(m) = "status" -> OpenGate(u)
                    [] AwaitOf(m) = "list" -> Loaded(t, u)
                    [] OTHER -> u

(* response.status 401: handleUnauthorized locks the page and asks for the *)
(* status; the request fails when that is known.                           *)
HandleUnauthorized(m) ==
  /\ m.code = "unauthorized"
  /\ ClearCaches(net \ {m}, {Request(m.task, Plain("status"))})
  /\ tasks' = Aged(tasks)
  /\ auth' = "out"
  /\ ui' = [ShowAuth(ui, "out") EXCEPT !.loaded = FALSE]
  /\ UNCHANGED floor

(* The status that handleUnauthorized asks for; nobody reads its failure.  *)
AfterUnauthorized(m) ==
  m.answer.url.path = "status" /\ AwaitOf(m) # "status"

(* loadAuthStatus.                                                         *)
Status(valid) == IF ~AuthEnabled THEN "off" ELSE IF valid THEN "in" ELSE "out"
ReceiveStatus(m) ==
  /\ m.code = "ok" /\ m.answer.url.path = "status"
  /\ auth' = Status(m.answer.valid)
  /\ \/ AfterUnauthorized(m) /\ Fail(m, ShowAuth(ui, Status(m.answer.valid)))
     \/ /\ ~AfterUnauthorized(m)
        /\ ui' = ShowAuth(ui, Status(m.answer.valid))
        /\ net' = net \ {m}
        /\ UNCHANGED tasks
  /\ UNCHANGED <<caches, floor>>

(* fetchJson, when the data is there.                                      *)
ReceiveData(m) ==
  /\ m.code = "ok" /\ m.answer.url.path \notin Writes \union {"status"}
  /\ queryCache' = {a \in queryCache : a.url # m.answer.url} \union {m.answer}
  /\ net' = net \ {m}
  /\ tasks' = IF m.task = None THEN tasks
              ELSE [tasks EXCEPT ![m.task].got = @ \union {m.answer}]
  /\ UNCHANGED <<bundledQueryCache, auth, ui, floor>>

(* fetchJsonWithBody, fetchJsonWithMethod: the caches are cleared when the *)
(* status is known, before the body is there.  The browser has taken the   *)
(* cookie by then.                                                         *)
ReceiveWritten(m) ==
  /\ m.code = "ok" /\ m.answer.url.path \in Writes
  /\ cookie' = IF m.answer.url.path \in {"login", "logout"} THEN m.cookie ELSE cookie
  /\ ClearCaches(net \ {m}, {[m EXCEPT !.code = "body", !.cookie = 0]})
  /\ tasks' = Aged(tasks)
  /\ floor' = IF m.answer.at > floor THEN m.answer.at ELSE floor
  /\ UNCHANGED <<auth, ui>>

ReceiveBody(m) ==
  /\ m.code = "body"
  /\ net' = net \ {m}
  /\ UNCHANGED <<tasks, caches, auth, ui, floor>>

(* An error of the server, or of the network on either way.                *)
ReceiveFailure(m) ==
  /\ m.code # "unauthorized"
  /\ \/ AwaitOf(m) = "logout" /\ LogOut(m.task, net \ {m})
     \/ /\ AwaitOf(m) # "logout"
        /\ Fail(m, ui)
        /\ UNCHANGED <<caches, auth>>
  /\ UNCHANGED floor

Receive(m) ==
  /\ Quiet
  /\ \/ ReceiveWritten(m)
     \/ /\ \/ HandleUnauthorized(m) \/ ReceiveStatus(m) \/ ReceiveData(m)
           \/ ReceiveBody(m) \/ ReceiveFailure(m)
        /\ UNCHANGED cookie
  /\ UNCHANGED <<registry, version, issued, expired, recent, starts>>

-----------------------------------------------------------------------------
(* A task has all it awaits and goes on.                                   *)

(* runQuery: summary and charts go to the bundle, and the details follow.  *)
Bundle(t) ==
  LET task == tasks[t]
      b == [key |-> BundleKey(task), answers |-> task.got]
  IN  /\ task.await = "stats"
      /\ bundledQueryCache' = (bundledQueryCache \ Bundled(task)) \union {b}
      /\ Await(t, [task EXCEPT !.await = "details", !.parts = UrlsOf(task.got)],
               {DetailsUrl(task)})
      /\ UNCHANGED <<queryCache, auth, recent, ui>>

ShowQuery(t) ==
  /\ tasks[t].await = "details"
  /\ ui' = QueryShown(ui, tasks[t], tasks[t].parts)
  /\ End(t)
  /\ UNCHANGED <<caches, auth, recent>>

ShowList(t) ==
  /\ tasks[t].await = "list"
  /\ \E a \in tasks[t].got :
       \/ a.listing = {} /\ ui' = Loaded(t, ListShown(ui, {}, None))
       \/ \E first \in a.listing : ui' = Loaded(t, ListShown(ui, a.listing, first))
  /\ End(t)
  /\ UNCHANGED <<caches, auth, recent>>

(* The connection test has passed, or the scan is done.                    *)
Tested(t) ==
  /\ tasks[t].await = "test"
  /\ \/ tasks[t].kind = "scan" /\ End(t)
     \/ /\ tasks[t].kind = "save"
        /\ Await(t, [tasks[t] EXCEPT !.await = "write"], {WriteUrl("save", tasks[t].source)})
  /\ UNCHANGED <<caches, auth, recent, ui>>

(* A source has been saved or deleted.                                     *)
Written(t) ==
  LET gone == tasks[t].kind = "delete" /\ ui.source = tasks[t].source
  IN  /\ tasks[t].await = "write"
      /\ recent' = IF gone THEN None ELSE recent
      /\ LoadSources(t, "sources", IF gone THEN Blank(ui) ELSE ui)
      /\ UNCHANGED <<caches, auth>>

(* handleLogin: the caches are cleared once more.                          *)
LoggedIn(t) ==
  /\ tasks[t].await = "login"
  /\ ClearCaches(net, {Request(t, Plain("status"))})
  /\ tasks' = [Aged(tasks) EXCEPT ![t].await = "status"]
  /\ UNCHANGED <<auth, recent, ui>>

(* ensureProtectedContentLoaded; only a login forces it.                   *)
StatusKnown(t) ==
  LET nothing == auth = "out" \/ (tasks[t].kind = "boot" /\ ui.loaded)
  IN  /\ tasks[t].await = "status"
      /\ \/ nothing /\ End(t) /\ UNCHANGED ui
         \/ ~nothing /\ LoadSources(t, "boot", ui)
      /\ UNCHANGED <<caches, auth, recent>>

LoggedOut(t) ==
  /\ tasks[t].await = "logout"
  /\ LogOut(t, net)
  /\ UNCHANGED recent

Continue(t) ==
  /\ Ready(t)
  /\ \/ Bundle(t) \/ ShowQuery(t) \/ ShowList(t) \/ Tested(t)
     \/ Written(t) \/ LoggedIn(t) \/ StatusKnown(t) \/ LoggedOut(t)
  /\ UNCHANGED <<server, starts, floor>>

User(t) ==
  \/ Search(t) \/ PreviousPage(t) \/ NextPage(t)
  \/ RefreshSources(t) \/ ScanLocalConfigs(t) \/ Login(t) \/ Logout(t)
  \/ \E s \in Sources : SaveSource(t, s) \/ DeleteSource(t, s)

Next ==
  \/ \E t \in Tasks : User(t) \/ Continue(t)
  \/ \E s \in Sources : Select(s)
  \/ Reset \/ RestoreFilter
  \/ \E m \in net : Serve(m) \/ Receive(m)
  \/ Elsewhere

Spec == Init /\ [][Next]_vars

-----------------------------------------------------------------------------
(* Types.                                                                  *)
TypeOK ==
  /\ registry \subseteq Sources /\ version \in 0 .. MaxEdits
  /\ issued \in Tokens /\ expired \in 0 .. issued /\ cookie \in 0 .. issued
  /\ net \subseteq Messages
  /\ tasks \in [Tasks -> TaskTypes]
  /\ queryCache \subseteq Answers
  /\ \A b \in bundledQueryCache : b.answers \subseteq Answers
  /\ auth \in {"off", "in", "out"}
  /\ recent \in Sources \union {None}
  /\ starts \in 0 .. MaxStarts /\ floor \in 0 .. MaxEdits
  /\ ui.page \in 1 .. MaxPage /\ ui.shownPage \in 1 .. MaxPage
  /\ ui.source \in Sources \union {None}
  /\ ui.cards \in [Sources -> Nat]
  /\ {ui.summary, ui.charts, ui.details} \subseteq Urls \union {Empty, Loading}

(* The totals, the charts and the rows on the page answer one query: they  *)
(* have the same source and the same filters, whichever queries overlap,   *)
(* fail or are answered by one of the caches.                              *)
SameFilters(p, q) == p.source = q.source /\ p.filter = q.filter
PanelsAgree ==
  ui.details \in Urls =>
    /\ ui.summary \in Urls => SameFilters(ui.summary, ui.details)
    /\ ui.charts \in Urls => SameFilters(ui.charts, ui.details)

(* What the caches answer with was answered no earlier than the last write *)
(* that this client has seen acknowledged, unless it was under way at that *)
(* time: no older answer outlives the clearing.                            *)
CachesFollowWrites ==
  \A a \in queryCache \union UNION {b.answers : b \in bundledQueryCache} :
    a.late \/ a.at >= floor

(* However reloads of the list overlap, no source has two cards.           *)
OneCardEach == \A s \in Sources : ui.cards[s] =< 1

(* A locked page hides its protected part and offers the form to log in,   *)
(* whichever answers (of a start-up, a login, a logout or a request of an  *)
(* expired session) arrive late or are lost; an open page never asks for a *)
(* login.                                                                  *)
LockedIsHidden ==
  /\ auth = "out" => ~ui.visible /\ ui.gate
  /\ ui.visible => ~ui.gate

(* The charts say "loading" only while a query is under way: the last one  *)
(* to end, well or badly, leaves them with data or empty.                  *)
LoadingIsPending ==
  ui.charts = Loading => \E t \in Tasks : tasks[t].await \in {"stats", "details"}
=============================================================================
