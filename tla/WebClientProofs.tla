--------------------------- MODULE WebClientProofs --------------------------
(***************************************************************************)
(* Proofs about WebClient, for any number of handlers, sources, settings   *)
(* of the filters and pages, with and without authentication.              *)
(***************************************************************************)
EXTENDS WebClient, FiniteSetTheorems, TLAPS

-----------------------------------------------------------------------------
(* URLs.                                                                   *)

Querying(q) == q.source \in Sources /\ q.filter \in Filters /\ q.page \in 1 .. MaxPage

(* What is asked for: a plain path, the statistics of a query, a write.    *)
LEMMA UrlShape ==
  ASSUME NEW u \in Urls
  PROVE  /\ u.path \in {"sources", "test", "login", "logout", "status", "summary", "charts",
                        "details", "save", "delete"}
         /\ u.path \in {"summary", "charts", "details", "save", "delete"} => u.source \in Sources
         /\ u # Empty /\ u # Loading
<1>1. \A p : Plain(p).path = p
  BY DEF Plain, Url
<1>2. CASE u \in {Plain(p) : p \in {"sources", "test", "login", "logout", "status"}}
  BY <1>1, <1>2 DEF Empty, Loading
<1>3. ASSUME NEW q \in Queries, u \in StatsUrls(q) PROVE u.path \in {"summary", "charts"} /\ u.source \in Sources
  BY <1>3 DEF StatsUrls, Url, Queries
<1>4. ASSUME NEW q \in Queries, u = DetailsUrl(q) PROVE u.path = "details" /\ u.source \in Sources
  BY <1>4 DEF DetailsUrl, Url, Queries
<1>5. ASSUME NEW k \in {"save", "delete"}, NEW s \in Sources, u = WriteUrl(k, s)
      PROVE  u.path = k /\ u.source \in Sources
  BY <1>5 DEF WriteUrl, Url
<1>6. u.path \notin {"empty", "loading"} => u # Empty /\ u # Loading
  BY <1>1 DEF Empty, Loading
<1>. QED
  BY <1>2, <1>3, <1>4, <1>5, <1>6, <1>1 DEF Urls

(* Every URL that the handlers make is one of them.                        *)
LEMMA PlainUrls ==
  ASSUME NEW p \in {"sources", "test", "login", "logout", "status"}
  PROVE  Plain(p) \in Urls /\ Plain(p).path = p
BY DEF Urls, Plain, Url

(* So are those of the writes.                                              *)
LEMMA WriteUrls ==
  ASSUME NEW k \in {"save", "delete"}, NEW s \in Sources
  PROVE  WriteUrl(k, s) \in Urls /\ WriteUrl(k, s).path = k
BY DEF Urls, WriteUrl, Url

(* A query asks for its own source and filters only.                        *)
LEMMA QueryUrls ==
  ASSUME NEW q, Querying(q)
  PROVE  /\ StatsUrls(q) \subseteq Urls
         /\ DetailsUrl(q) \in Urls /\ DetailsUrl(q).path = "details"
         /\ SameFilters(DetailsUrl(q), q)
         /\ \A u \in StatsUrls(q) : u.path \in {"summary", "charts"} /\ SameFilters(u, q)
<1>. DEFINE p == [source |-> q.source, filter |-> q.filter, page |-> q.page]
<1>1. p \in Queries
  BY DEF Querying, Queries
<1>2. StatsUrls(q) = StatsUrls(p) /\ DetailsUrl(q) = DetailsUrl(p)
  BY DEF StatsUrls, DetailsUrl
<1>3. StatsUrls(p) \subseteq Urls /\ DetailsUrl(p) \in Urls
  BY <1>1 DEF Urls
<1>4. /\ DetailsUrl(q).path = "details" /\ SameFilters(DetailsUrl(q), q)
      /\ \A u \in StatsUrls(q) : u.path \in {"summary", "charts"} /\ SameFilters(u, q)
  BY DEF DetailsUrl, StatsUrls, Url, SameFilters
<1>. QED
  BY <1>2, <1>3, <1>4

-----------------------------------------------------------------------------
(* The page.                                                               *)

Panels == Urls \union {Empty, Loading}
UiTypes == [visible : BOOLEAN, gate : BOOLEAN, loaded : BOOLEAN,
            source : Sources \union {None},
            page : 1 .. MaxPage, shownPage : 1 .. MaxPage, pages : 1 .. MaxPage,
            cards : [Sources -> Nat],
            summary : Panels, details : Panels, charts : Panels]

Agree(u) ==
  u.details \in Urls =>
    /\ u.summary \in Urls => SameFilters(u.summary, u.details)
    /\ u.charts \in Urls => SameFilters(u.charts, u.details)
Gated(u, a) == (a = "out" => ~u.visible /\ u.gate) /\ (u.visible => ~u.gate)

(* A page whose panels agree, with one card for each source, and with the  *)
(* gate that the state a of the session calls for.                         *)
Page(u, a) ==
  /\ u \in UiTypes
  /\ Agree(u) /\ Gated(u, a)
  /\ \A s \in Sources : u.cards[s] =< 1

(* The functions that fill the page leave it so.                           *)
LEMMA BlankPage ==
  ASSUME NEW u \in UiTypes
  PROVE  /\ Blank(u) \in UiTypes
         /\ Blank(u).details = Empty /\ Blank(u).charts = Empty /\ Blank(u).cards = u.cards
         /\ Blank(u).visible = u.visible /\ Blank(u).gate = u.gate
<1>. 1 \in 1 .. MaxPage
  BY ClientAssumption
<1>. QED
  BY DEF Blank, UiTypes, Panels

(* No panel takes its state for an answer.                                  *)
LEMMA NotAUrl == Empty \notin Urls /\ Loading \notin Urls /\ Empty # Loading
<1>1. Empty # Loading
  BY DEF Empty, Loading, Plain, Url
<1>. QED
  BY <1>1, UrlShape

(* A page without data is as it should be.                                  *)
LEMMA BlankedPage ==
  ASSUME NEW a, NEW u, Page(u, a)
  PROVE  Page(Blank(u), a) /\ Blank(u).charts = Empty
BY BlankPage, NotAUrl DEF Page, Agree, Gated

(* resetProtectedView leaves the gate alone and everything else empty.      *)
LEMMA ResetPage ==
  ASSUME NEW u \in UiTypes
  PROVE  /\ ResetView(u) \in UiTypes /\ Agree(ResetView(u)) /\ ResetView(u).charts = Empty
         /\ ~ResetView(u).visible /\ ResetView(u).gate = u.gate
         /\ \A s \in Sources : ResetView(u).cards[s] = 0
<1>. DEFINE b == Blank(u)
<1>1. b \in UiTypes /\ b.details = Empty /\ b.charts = Empty /\ b.gate = u.gate
  BY BlankPage
<1>. HIDE DEF b
<1>. DEFINE r == [b EXCEPT !.visible = FALSE, !.cards = [s \in Sources |-> 0], !.source = None]
<1>2. r \in UiTypes /\ r.details = Empty /\ r.charts = Empty /\ r.gate = u.gate /\ ~r.visible
      /\ \A s \in Sources : r.cards[s] = 0
  BY <1>1 DEF UiTypes
<1>3. ResetView(u) = r
  BY DEF ResetView, b
<1>. QED
  BY <1>2, <1>3, NotAUrl DEF Agree

(* It keeps a page as it should be.                                         *)
LEMMA ResetStays ==
  ASSUME NEW a, NEW u, Page(u, a)
  PROVE  Page(ResetView(u), a)
BY ResetPage DEF Page, Gated

(* Opening the gate makes any page a locked one.                            *)
LEMMA GatePage ==
  ASSUME NEW a, NEW u \in UiTypes
  PROVE  Page(OpenGate(u), a) /\ OpenGate(u).charts = Empty
<1>. DEFINE r == ResetView(u)
<1>1. r \in UiTypes /\ Agree(r) /\ r.charts = Empty /\ ~r.visible
      /\ \A s \in Sources : r.cards[s] = 0
  BY ResetPage
<1>. HIDE DEF r
<1>2. OpenGate(u) = [r EXCEPT !.gate = TRUE]
  BY DEF OpenGate, r
<1>3. [r EXCEPT !.gate = TRUE] \in UiTypes
  BY <1>1 DEF UiTypes
<1>. QED
  BY <1>1, <1>2, <1>3 DEF Page, Agree, Gated, UiTypes

(* updateAuthUi makes the page fit the new state of the session.            *)
LEMMA AuthPage ==
  ASSUME NEW a, NEW b, NEW u, Page(u, a)
  PROVE  /\ Page(ShowAuth(u, b), b)
         /\ ShowAuth(u, b).charts = IF b = "out" THEN Empty ELSE u.charts
<1>1. CASE b = "out"
  BY <1>1, GatePage DEF ShowAuth, Page
<1>2. CASE b # "out"
  <2>. DEFINE v == [u EXCEPT !.visible = TRUE, !.gate = FALSE]
  <2>1. v \in UiTypes /\ v.visible = TRUE /\ v.gate = FALSE /\ v.cards = u.cards
        /\ v.details = u.details /\ v.summary = u.summary /\ v.charts = u.charts
    BY DEF Page, UiTypes
  <2>2. ShowAuth(u, b) = v
    BY <1>2 DEF ShowAuth
  <2>. QED
    BY <1>2, <2>1, <2>2 DEF Page, Agree, Gated
<1>. QED
  BY <1>1, <1>2

(* protectedBootstrapped is nothing that is shown.                          *)
LEMMA LoadedPage ==
  ASSUME NEW a, NEW u, Page(u, a), NEW x \in BOOLEAN
  PROVE  /\ Page([u EXCEPT !.loaded = x], a)
         /\ [u EXCEPT !.loaded = x].charts = u.charts
BY DEF Page, UiTypes, Agree, Gated

(* A query that failed leaves neither rows nor charts.                      *)
LEMMA FailedPage ==
  ASSUME NEW a, NEW u, Page(u, a)
  PROVE  Page(QueryFailed(u), a) /\ QueryFailed(u).charts = Empty
<1>. DEFINE v == [u EXCEPT !.details = Empty, !.charts = Empty]
<1>1. v \in UiTypes /\ v.visible = u.visible /\ v.gate = u.gate /\ v.cards = u.cards
      /\ v.details = Empty /\ v.charts = Empty
  BY DEF Page, UiTypes, Panels
<1>2. QueryFailed(u) = v
  BY DEF QueryFailed, FailedCharts
<1>. QED
  BY <1>1, <1>2, NotAUrl DEF Page, Agree, Gated

(* A query fills the panels with answers to itself.                        *)
LEMMA ShownPage ==
  ASSUME NEW a, NEW u, Page(u, a), NEW q, Querying(q)
  PROVE  /\ Page(QueryShown(u, q, StatsUrls(q)), a)
         /\ QueryShown(u, q, StatsUrls(q)).charts \in Urls
<1>. DEFINE shown(path) == CHOOSE part \in StatsUrls(q) : part.path = path
            v == QueryShown(u, q, StatsUrls(q))
<1>1. \A path \in {"summary", "charts"} :
        /\ Url(path, q.source, q.filter, 0) \in StatsUrls(q)
        /\ Url(path, q.source, q.filter, 0).path = path
  BY DEF StatsUrls, Url
<1>2. shown("summary") \in StatsUrls(q) /\ shown("charts") \in StatsUrls(q)
  BY <1>1
<1>3. /\ shown("summary") \in Urls /\ SameFilters(shown("summary"), q)
      /\ shown("charts") \in Urls /\ SameFilters(shown("charts"), q)
  BY <1>2, QueryUrls
<1>. HIDE DEF shown
<1>4. DetailsUrl(q) \in Urls /\ SameFilters(DetailsUrl(q), q)
  BY QueryUrls
<1>5. v = [u EXCEPT !.summary = shown("summary"), !.charts = shown("charts"),
                    !.details = DetailsUrl(q),
                    !.page = q.page, !.shownPage = q.page, !.pages = LastPage]
  BY DEF QueryShown, shown
<1>6. q.page \in 1 .. MaxPage /\ LastPage \in 1 .. MaxPage
  BY ClientAssumption DEF Querying
<1>. HIDE DEF v
<1>7. /\ v \in UiTypes /\ v.visible = u.visible /\ v.gate = u.gate /\ v.cards = u.cards
      /\ v.details = DetailsUrl(q) /\ v.charts = shown("charts") /\ v.summary = shown("summary")
  BY <1>3, <1>4, <1>5, <1>6 DEF Page, UiTypes, Panels
<1>. QED
  BY <1>3, <1>4, <1>7 DEF v, Page, Agree, Gated, SameFilters

(* The list of sources.                                                    *)
LEMMA ListPage ==
  ASSUME NEW a, NEW u, Page(u, a), NEW L \in SUBSET Sources,
         NEW first, L # {} => first \in L, recent \in Sources \union {None}
  PROVE  Page(ListShown(u, L, first), a) /\ ListShown(u, L, first).charts = u.charts
<1>. DEFINE cards == [s \in Sources |-> IF s \in L THEN 1 ELSE 0]
            source == IF L = {} THEN None ELSE Selected(L, first)
            v == [u EXCEPT !.cards = cards, !.source = source]
<1>1. source \in Sources \union {None}
  BY DEF Selected
<1>2. cards \in [Sources -> Nat] /\ \A s \in Sources : cards[s] =< 1
  OBVIOUS
<1>3. ListShown(u, L, first) = v
  <2>1. EmptiedList(u) = [s \in Sources |-> 0]
    BY DEF EmptiedList
  <2>2. cards = [s \in Sources |-> IF s \in L THEN [x \in Sources |-> 0][s] + 1
                                             ELSE [x \in Sources |-> 0][s]]
    OBVIOUS
  <2>. QED
    BY <2>1, <2>2, Zenon DEF ListShown
<1>. HIDE DEF cards, source
<1>4. /\ v \in UiTypes /\ v.visible = u.visible /\ v.gate = u.gate /\ v.cards = cards
      /\ v.details = u.details /\ v.charts = u.charts /\ v.summary = u.summary
  BY <1>1, <1>2 DEF Page, UiTypes
<1>. QED
  BY <1>2, <1>3, <1>4 DEF Page, Agree, Gated

-----------------------------------------------------------------------------
(* Messages and tasks.                                                     *)

NewEnough(a) == a.late \/ a.at >= floor

(* A message carries a token that was issued; an answer says what was the  *)
(* case once, and data is from after the last acknowledged write, unless   *)
(* it was under way at that time.                                          *)
MessageTrue(m) ==
  /\ m.cookie =< issued /\ m.answer.at =< version
  /\ m.code = "body" => m.answer.url.path \in Writes
  /\ m.code = "unauthorized" => m.answer.url.path \notin Public
  /\ m.code = "ok" /\ m.answer.url.path \notin Public => NewEnough(m.answer)

(* Somebody waits for a message, unless it is nobody's.                    *)
MessageMeets(m) ==
  m.task \in Tasks =>
    LET k == tasks[m.task]
    IN  /\ k.await # "idle"
        /\ k.await = "stats" => m.answer.url \in StatsUrls(k) \union {Plain("status")}
        /\ k.await = "logout" => m.answer.url.path = "logout"

Alone(t) == \A m, n \in net : m.task = t /\ n.task = t => m = n

(* A query has a source, filters and a page; its first answers are, or     *)
(* will be, or will be known never to be there; the others were used.      *)
TaskOwn(t) ==
  LET k == tasks[t]
      asks(u) == \E m \in net : m.task = t /\ m.answer.url = u
  IN  /\ k.await \in {"stats", "details"} => Querying(k)
      /\ k.await = "stats" =>
           /\ UrlsOf(k.got) \subseteq StatsUrls(k)
           /\ asks(Plain("status")) \/ \A u \in StatsUrls(k) \ UrlsOf(k.got) : asks(u)
      /\ k.await = "details" => k.parts = StatsUrls(k)
      /\ k.await = "logout" => Alone(t)
      /\ k.kind = "save" => k.source \in Sources

BundlesOwn ==
  \A b \in bundledQueryCache, q \in Queries :
    b.key = BundleKey(q) => UrlsOf(b.answers) = StatsUrls(q)

Owned ==
  /\ \A m \in net : MessageTrue(m) /\ MessageMeets(m)
  /\ \A t \in Tasks : TaskOwn(t)
  /\ BundlesOwn /\ floor =< version

(* How requests are counted that may issue tokens.                         *)
LoginsOf(S) == {m \in S : m.code = "none" /\ m.answer.url.path = "login"}
Logins == LoginsOf(net)
TokensCounted == IsFiniteSet(Logins) /\ issued + Cardinality(Logins) =< starts + 1

Typed == TypeOK /\ Page(ui, auth) /\ TokensCounted
NoneOf(t) == \A m \in net : m.task # t

(* What the types say, in the form in which it is used.                     *)
LEMMA Types ==
  ASSUME Typed
  PROVE  /\ net \subseteq Messages /\ tasks \in [Tasks -> TaskTypes]
         /\ queryCache \subseteq Answers
         /\ \A b \in bundledQueryCache : b.answers \subseteq Answers
         /\ issued \in Nat /\ issued =< MaxStarts + 1 /\ cookie \in 0 .. issued
         /\ expired \in 0 .. issued /\ cookie \in Tokens
         /\ version \in 0 .. MaxEdits /\ floor \in 0 .. MaxEdits
         /\ registry \subseteq Sources /\ recent \in Sources \union {None}
         /\ ui \in UiTypes /\ None \notin Tasks /\ NoTask \in TaskTypes
<1>1. NoTask \in TaskTypes
  BY ClientAssumption DEF NoTask, TaskTypes, Kinds, Awaits
<1>2. /\ net \subseteq Messages /\ tasks \in [Tasks -> TaskTypes]
      /\ queryCache \subseteq Answers
      /\ \A b \in bundledQueryCache : b.answers \subseteq Answers
      /\ version \in 0 .. MaxEdits /\ floor \in 0 .. MaxEdits
      /\ registry \subseteq Sources /\ recent \in Sources \union {None}
  BY DEF Typed, TypeOK
<1>3. /\ issued \in Nat /\ issued =< MaxStarts + 1 /\ cookie \in 0 .. issued
      /\ expired \in 0 .. issued /\ cookie \in Tokens
  BY ClientAssumption DEF Typed, TypeOK, Tokens
<1>4. ui \in UiTypes /\ None \notin Tasks
  BY ClientAssumption DEF Typed, Page
<1>. QED
  BY <1>1, <1>2, <1>3, <1>4

(* The fields of a task.                                                    *)
LEMMA TaskType ==
  ASSUME Typed, NEW t \in Tasks
  PROVE  /\ tasks[t] \in TaskTypes /\ tasks[t].got \subseteq Answers
         /\ tasks[t].kind \in Kinds /\ tasks[t].await \in Awaits
         /\ tasks[t].source \in Sources \union {None}
         /\ tasks[t].filter \in Filters \union {None}
         /\ tasks[t].page \in 0 .. MaxPage /\ tasks[t].parts \subseteq Urls
BY Types DEF TaskTypes

(* The fields of a message.                                                 *)
LEMMA MessageType ==
  ASSUME Typed, NEW m \in net
  PROVE  /\ m \in Messages /\ m.answer \in Answers /\ m.answer.url \in Urls
         /\ m.task \in Tasks \union {None} /\ m.code \in Codes /\ m.cookie \in Tokens
         /\ m.cookie \in Nat /\ m.answer.at \in 0 .. MaxEdits
         /\ m.answer.listing \subseteq Sources /\ m.answer.late \in BOOLEAN
<1>1. m \in Messages
  BY Types
<1>2. Tokens \subseteq Nat
  BY ClientAssumption DEF Tokens
<1>. QED
  BY <1>1, <1>2 DEF Messages, Answers

(* A new request carries the cookie of now.                                 *)
LEMMA RequestType ==
  ASSUME Typed, NEW t \in Tasks \union {None}, NEW u \in Urls
  PROVE  /\ Request(t, u) \in Messages
         /\ Request(t, u).task = t /\ Request(t, u).code = "none"
         /\ Request(t, u).cookie = cookie /\ Request(t, u).answer.url = u
         /\ Request(t, u).answer.at = 0
<1>. DEFINE a == [url |-> u, at |-> 0, listing |-> {}, valid |-> FALSE, late |-> FALSE]
<1>1. a \in Answers /\ a.url = u /\ a.at = 0
  BY ClientAssumption DEF Answers
<1>. HIDE DEF a
<1>2. [task |-> t, code |-> "none", cookie |-> cookie, answer |-> a] \in Messages
  BY <1>1, Types DEF Messages, Codes
<1>. QED
  BY <1>1, <1>2 DEF Request, a

(* n is m, late perhaps and perhaps nobody's any more.                     *)
Copy(n, m) ==
  /\ n \in Messages
  /\ n.task \in {m.task, None} /\ n.code = m.code /\ n.cookie = m.cookie
  /\ n.answer.url = m.answer.url /\ n.answer.at = m.answer.at
  /\ m.answer.late => n.answer.late

LateOf(m) == [m EXCEPT !.answer = [@ EXCEPT !.late = TRUE]]

(* A message made late is the same but for that.                            *)
LEMMA LateCopy ==
  ASSUME NEW m \in Messages
  PROVE  Copy(LateOf(m), m) /\ LateOf(m).answer.late /\ LateOf(m).task = m.task
<1>. DEFINE a == [m.answer EXCEPT !.late = TRUE]
<1>1. a \in Answers /\ a.url = m.answer.url /\ a.at = m.answer.at /\ a.late
  BY DEF Messages, Answers
<1>. HIDE DEF a
<1>2. [m EXCEPT !.answer = a] \in Messages
  BY <1>1 DEF Messages
<1>3. LateOf(m) = [m EXCEPT !.answer = a]
  BY DEF LateOf, a
<1>. QED
  BY <1>1, <1>2, <1>3 DEF Copy, Messages

(* So is one that nobody waits for any more.                                *)
LEMMA OrphanCopy ==
  ASSUME NEW m \in Messages
  PROVE  Copy([m EXCEPT !.task = None], m) /\ [m EXCEPT !.task = None].task = None
BY DEF Copy, Messages

(* A message is its own copy.                                               *)
LEMMA SelfCopy ==
  ASSUME NEW m \in Messages
  PROVE  Copy(m, m)
BY DEF Copy

(* Answers made late answer the same.                                       *)
LEMMA LateAnswers ==
  ASSUME NEW S \in SUBSET Answers
  PROVE  /\ Late(S) \subseteq Answers /\ UrlsOf(Late(S)) = UrlsOf(S)
         /\ \A a \in Late(S) : a.late
<1>1. \A a \in S : /\ [a EXCEPT !.late = TRUE] \in Answers
                   /\ [a EXCEPT !.late = TRUE].url = a.url
                   /\ [a EXCEPT !.late = TRUE].late
  BY DEF Answers
<1>2. Late(S) \subseteq Answers /\ \A a \in Late(S) : a.late
  BY <1>1 DEF Late
<1>3. ASSUME NEW u \in UrlsOf(S) PROVE u \in UrlsOf(Late(S))
  <2>1. PICK a \in S : u = a.url
    BY DEF UrlsOf
  <2>2. [a EXCEPT !.late = TRUE] \in Late(S)
    BY DEF Late
  <2>. QED
    BY <1>1, <2>1, <2>2 DEF UrlsOf
<1>4. ASSUME NEW u \in UrlsOf(Late(S)) PROVE u \in UrlsOf(S)
  <2>1. PICK a \in S : u = [a EXCEPT !.late = TRUE].url
    BY DEF UrlsOf, Late
  <2>. QED
    BY <1>1, <2>1 DEF UrlsOf
<1>. QED
  BY <1>2, <1>3, <1>4

(* Clearing the caches makes every task's answers late and nothing else.   *)
LEMMA AgedTasks ==
  ASSUME Typed
  PROVE  /\ Aged(tasks) \in [Tasks -> TaskTypes]
         /\ \A t \in Tasks :
              /\ Aged(tasks)[t].got = Late(tasks[t].got)
              /\ Aged(tasks)[t].kind = tasks[t].kind /\ Aged(tasks)[t].await = tasks[t].await
              /\ Aged(tasks)[t].source = tasks[t].source
              /\ Aged(tasks)[t].filter = tasks[t].filter
              /\ Aged(tasks)[t].page = tasks[t].page /\ Aged(tasks)[t].parts = tasks[t].parts
<1>1. ASSUME NEW t \in Tasks
      PROVE  LET k == [tasks[t] EXCEPT !.got = Late(@)]
             IN  /\ k \in TaskTypes /\ k.got = Late(tasks[t].got)
                 /\ k.kind = tasks[t].kind /\ k.await = tasks[t].await
                 /\ k.source = tasks[t].source /\ k.filter = tasks[t].filter
                 /\ k.page = tasks[t].page /\ k.parts = tasks[t].parts
  <2>1. PICK g : g = Late(tasks[t].got)
    OBVIOUS
  <2>2. tasks[t] \in TaskTypes /\ g \subseteq Answers
    BY <2>1, TaskType, LateAnswers
  <2>. QED
    BY <2>1, <2>2 DEF TaskTypes
<1>. QED
  BY <1>1 DEF Aged

-----------------------------------------------------------------------------
(* What a task begins, or goes on, to wait for.                            *)

(* A task that is to wait for answers from urls.                           *)
WellBegun(k, urls) ==
  /\ k.await # "idle"
  /\ k.await \in {"stats", "details"} => Querying(k)
  /\ k.await = "stats" => urls = StatsUrls(k)
  /\ k.await = "details" => k.parts = StatsUrls(k)
  /\ k.await = "logout" => urls = {Plain("logout")}
  /\ k.kind = "save" => k.source \in Sources

(* A login is counted, and asks for one thing.                             *)
LoginCounts(urls) ==
  \/ \A u \in urls : u.path # "login"
  \/ starts' = starts + 1 /\ \E u : urls = {u}

Begins(t) ==
  /\ NoneOf(t)
  /\ \E k \in TaskTypes, urls \in SUBSET Urls :
       WellBegun(k, urls) /\ LoginCounts(urls) /\ Await(t, k, urls)
Ends(t) == NoneOf(t) /\ End(t)
Rest == UNCHANGED <<net, tasks>>

(* What it gets at once is what queryCache has of that.                    *)
LEMMA Awaiting ==
  ASSUME Typed, NEW t \in Tasks, NEW k \in TaskTypes, NEW urls \in SUBSET Urls,
         Await(t, k, urls)
  PROVE  \E hits \in SUBSET queryCache, l \in TaskTypes :
           /\ UrlsOf(hits) \subseteq urls
           /\ l.got = hits /\ l.kind = k.kind /\ l.await = k.await /\ l.source = k.source
           /\ l.filter = k.filter /\ l.page = k.page /\ l.parts = k.parts
           /\ tasks' = [tasks EXCEPT ![t] = l]
           /\ net' = net \union {Request(t, u) : u \in urls \ UrlsOf(hits)}
<1>. DEFINE hits == {a \in queryCache : a.url \in urls}
<1>1. /\ tasks' = [tasks EXCEPT ![t] = [k EXCEPT !.got = hits]]
      /\ net' = net \union {Request(t, u) : u \in urls \ UrlsOf(hits)}
  BY DEF Await
<1>2. hits \subseteq queryCache /\ UrlsOf(hits) \subseteq urls
  BY DEF UrlsOf
<1>. HIDE DEF hits
<1>. DEFINE l == [k EXCEPT !.got = hits]
<1>3. hits \subseteq Answers
  BY <1>2, Types
<1>4. /\ l \in TaskTypes
      /\ l.got = hits /\ l.kind = k.kind /\ l.await = k.await /\ l.source = k.source
      /\ l.filter = k.filter /\ l.page = k.page /\ l.parts = k.parts
  BY <1>3 DEF TaskTypes
<1>. QED
  BY <1>1, <1>2, <1>4

(* A task that is being set off has no messages yet; one that is ready has *)
(* none left.                                                              *)
LEMMA StartsFree ==
  ASSUME Owned, NEW t \in Tasks, Starts(t) \/ Ready(t)
  PROVE  NoneOf(t)
BY DEF Owned, MessageMeets, Starts, Ready, NoneOf, NoTask

(* runQuery: it does nothing but turn the page, or a query begins.          *)
LEMMA QueryBegins ==
  ASSUME Typed, Owned, NEW t \in Tasks, NEW f \in Filters, NEW n \in 1 .. MaxPage,
         RunQuery(t, f, n)
  PROVE  \/ Rest /\ ui' = [ui EXCEPT !.page = n] /\ recent' = recent
         \/ /\ Begins(t) /\ tasks'[t].await \in {"stats", "details"}
            /\ ui' = [ui EXCEPT !.page = n, !.charts = Loading] /\ recent' = ui.source
<1>1. CASE auth = "out" \/ ui.source = None
  BY <1>1 DEF RunQuery, Rest
<1>2. CASE ~(auth = "out" \/ ui.source = None)
  <2>. DEFINE q == [source |-> ui.source, filter |-> f, page |-> n]
              task == [NoTask EXCEPT !.kind = "query", !.source = q.source,
                                     !.filter = q.filter, !.page = n]
              k1 == [task EXCEPT !.await = "stats"]
              k2(b) == [task EXCEPT !.await = "details", !.parts = UrlsOf(b.answers)]
  <2>0. ui.source \in Sources
    BY <1>2, Types DEF UiTypes
  <2>1. q \in Queries /\ Querying(q)
    BY <2>0 DEF Queries, Querying
  <2>a. /\ task \in TaskTypes /\ task.kind = "query"
        /\ task.source = q.source /\ task.filter = q.filter /\ task.page = q.page
    <3>1. NoTask \in TaskTypes /\ n \in 0 .. MaxPage /\ "query" \in Kinds
      BY Types, ClientAssumption DEF Kinds
    <3>. QED
      BY <2>0, <3>1 DEF TaskTypes
  <2>2. NoneOf(t)
    BY StartsFree DEF RunQuery
  <2>3. /\ ui' = [ui EXCEPT !.page = n, !.charts = Loading] /\ recent' = ui.source
        /\ \/ Await(t, k1, StatsUrls(q))
           \/ \E b \in Bundled(q) : Await(t, k2(b), {DetailsUrl(q)})
    BY <1>2 DEF RunQuery
  <2>4. /\ k1 \in TaskTypes /\ k1.await = "stats" /\ k1.kind = "query"
        /\ k1.source = q.source /\ k1.filter = q.filter /\ k1.page = q.page
    <3>1. "stats" \in Awaits
      BY DEF Awaits
    <3>. HIDE DEF task
    <3>. QED
      BY <2>a, <3>1 DEF TaskTypes
  <2>5. CASE Await(t, k1, StatsUrls(q))
    <3>1. WellBegun(k1, StatsUrls(q))
      BY <2>1, <2>4 DEF WellBegun, Querying, StatsUrls
    <3>2. StatsUrls(q) \subseteq Urls /\ LoginCounts(StatsUrls(q))
      BY <2>1, QueryUrls DEF LoginCounts
    <3>. HIDE DEF k1, q
    <3>3. Begins(t)
      BY <2>2, <2>4, <2>5, <3>1, <3>2 DEF Begins
    <3>4. tasks'[t].await = "stats"
      BY <2>4, <2>5, <3>2, Awaiting, Types
    <3>. QED
      BY <2>3, <3>3, <3>4
  <2>6. ASSUME NEW b \in Bundled(q), Await(t, k2(b), {DetailsUrl(q)})
        PROVE  Begins(t) /\ tasks'[t].await = "details"
    <3>1. UrlsOf(b.answers) = StatsUrls(q)
      BY <2>1 DEF Bundled, Owned, BundlesOwn
    <3>2. StatsUrls(q) \subseteq Urls /\ DetailsUrl(q) \in Urls /\ LoginCounts({DetailsUrl(q)})
      BY <2>1, QueryUrls DEF LoginCounts
    <3>3. /\ k2(b) \in TaskTypes /\ k2(b).await = "details" /\ k2(b).kind = "query"
          /\ k2(b).source = q.source /\ k2(b).filter = q.filter /\ k2(b).page = q.page
          /\ k2(b).parts = StatsUrls(q)
      <4>1. "details" \in Awaits
        BY DEF Awaits
      <4>. HIDE DEF task
      <4>2. UrlsOf(b.answers) \in SUBSET Urls
        BY <3>1, <3>2
      <4>. QED
        BY <2>a, <3>1, <4>1, <4>2 DEF TaskTypes
    <3>4. WellBegun(k2(b), {DetailsUrl(q)})
      BY <2>1, <3>3 DEF WellBegun, Querying, StatsUrls
    <3>. HIDE DEF k2, q
    <3>5. Begins(t)
      BY <2>2, <2>6, <3>2, <3>3, <3>4 DEF Begins
    <3>6. tasks'[t].await = "details"
      BY <2>6, <3>2, <3>3, Awaiting, Types
    <3>. QED
      BY <3>5, <3>6
  <2>. QED
    BY <2>3, <2>5, <2>6
<1>. QED
  BY <1>1, <1>2

(* loadSources: it begins, or the page is locked and the handler ends.      *)
LEMMA ListBegins ==
  ASSUME Typed, NEW t \in Tasks, NoneOf(t), NEW kind \in {"sources", "boot"}, NEW u,
         LoadSources(t, kind, u)
  PROVE  /\ Ends(t) \/ Begins(t)
         /\ ui' = u \/ ui' = ResetView(u)
<1>1. CASE auth = "out"
  BY <1>1 DEF LoadSources, Ends
<1>2. CASE auth # "out"
  <2>. DEFINE k == [NoTask EXCEPT !.kind = kind, !.await = "list"]
  <2>1. Await(t, k, {Plain("sources")}) /\ ui' = u
    BY <1>2 DEF LoadSources
  <2>2. k \in TaskTypes /\ k.await = "list" /\ k.kind # "save"
    BY Types DEF NoTask, TaskTypes, Kinds, Awaits
  <2>3. /\ WellBegun(k, {Plain("sources")}) /\ {Plain("sources")} \subseteq Urls
        /\ LoginCounts({Plain("sources")})
    BY <2>2, PlainUrls DEF WellBegun, LoginCounts
  <2>. QED
    BY <2>1, <2>2, <2>3 DEF Begins
<1>. QED
  BY <1>1, <1>2

(* The handlers that begin with a write.                                    *)
LEMMA WriteBegins ==
  ASSUME Typed, Owned, NEW t \in Tasks,
         NEW kind \in {"scan", "save", "delete", "login", "logout"}, NEW s \in Sources \union {None},
         kind \in {"save", "delete"} => s \in Sources, Write(t, kind, s)
  PROVE  Begins(t) /\ UNCHANGED <<ui, recent>>
<1>. DEFINE k == [NoTask EXCEPT !.kind = kind, !.await = FirstAwait(kind), !.source = s]
            url == IF kind = "delete" THEN WriteUrl(kind, s) ELSE Plain(FirstWrite(kind))
<1>1. Await(t, k, {url}) /\ NoneOf(t) /\ ui' = ui /\ recent' = recent
  BY StartsFree DEF Write
<1>a. /\ FirstAwait(kind) \in {"test", "write", "login", "logout"}
      /\ FirstAwait(kind) = "logout" => kind = "logout"
  BY DEF FirstAwait, FirstWrite
<1>b. kind \in Kinds /\ FirstAwait(kind) \in Awaits
  BY <1>a DEF Kinds, Awaits
<1>2. k \in TaskTypes /\ k.kind = kind /\ k.await = FirstAwait(kind) /\ k.source = s
  <2>1. PICK await : await = FirstAwait(kind)
    OBVIOUS
  <2>2. NoTask \in TaskTypes
    BY Types
  <2>. QED
    BY <1>b, <2>1, <2>2 DEF TaskTypes
<1>3. url \in Urls /\ (kind = "logout" => url = Plain("logout"))
  BY WriteUrls, PlainUrls DEF FirstWrite
<1>. HIDE DEF k, url
<1>4. WellBegun(k, {url}) /\ LoginCounts({url})
  BY <1>a, <1>2, <1>3 DEF WellBegun, LoginCounts, Write, Counted
<1>. QED
  BY <1>1, <1>2, <1>3, <1>4 DEF Begins

(* What the user sets off either begins, or ends at once, or does nothing.  *)
LEMMA UserDoes ==
  ASSUME Typed, Owned, NEW t \in Tasks, User(t)
  PROVE  floor' = floor /\ (Rest \/ Begins(t) \/ Ends(t))
<1>00. floor' = floor
  BY DEF User, Search, PreviousPage, NextPage, RunQuery, RefreshSources, ScanLocalConfigs,
     SaveSource, DeleteSource, Login, Logout, Write
<1>0. /\ 1 \in 1 .. MaxPage /\ ui.page \in 1 .. MaxPage
      /\ ui.page > 1 => ui.page - 1 \in 1 .. MaxPage
      /\ ui.page < MaxPage => ui.page + 1 \in 1 .. MaxPage
  <2>1. ui.page \in 1 .. MaxPage
    BY Types DEF UiTypes
  <2>. QED
    BY <2>1, ClientAssumption
<1>1. ASSUME Search(t) \/ PreviousPage(t) \/ NextPage(t) PROVE Rest \/ Begins(t)
  BY <1>0, <1>1, QueryBegins DEF Search, PreviousPage, NextPage
<1>2. ASSUME RefreshSources(t) PROVE Begins(t) \/ Ends(t)
  BY <1>2, ListBegins, StartsFree DEF RefreshSources
<1>3. ASSUME ScanLocalConfigs(t) \/ Login(t) \/ Logout(t) PROVE Begins(t)
  BY <1>3, WriteBegins DEF ScanLocalConfigs, Login, Logout
<1>4. ASSUME NEW s \in Sources, SaveSource(t, s) \/ DeleteSource(t, s) PROVE Begins(t)
  BY <1>4, WriteBegins DEF SaveSource, DeleteSource
<1>. QED
  BY <1>00, <1>1, <1>2, <1>3, <1>4 DEF User

(* When the first answers are there, they are what was asked for.          *)
LEMMA GotAll ==
  ASSUME Owned, NEW t \in Tasks, Ready(t), tasks[t].await = "stats"
  PROVE  Querying(tasks[t]) /\ UrlsOf(tasks[t].got) = StatsUrls(tasks[t])
<1>1. TaskOwn(t) /\ NoneOf(t)
  BY StartsFree DEF Owned
<1>2. ~\E u : \E m \in net : m.task = t /\ m.answer.url = u
  BY <1>1 DEF NoneOf
<1>. QED
  BY <1>1, <1>2 DEF TaskOwn

(* runQuery goes on to ask for the details of the same query.               *)
LEMMA BundleBegins ==
  ASSUME Typed, Owned, NEW t \in Tasks, Ready(t), Bundle(t)
  PROVE  Begins(t)
<1>. DEFINE k == [tasks[t] EXCEPT !.await = "details", !.parts = UrlsOf(tasks[t].got)]
<1>1. tasks[t].await = "stats" /\ Await(t, k, {DetailsUrl(tasks[t])})
  BY DEF Bundle
<1>2. Querying(tasks[t]) /\ UrlsOf(tasks[t].got) = StatsUrls(tasks[t])
  BY <1>1, GotAll
<1>3. UrlsOf(tasks[t].got) \in SUBSET Urls /\ DetailsUrl(tasks[t]) \in Urls
  BY <1>2, QueryUrls
<1>4. /\ k \in TaskTypes /\ k.kind = tasks[t].kind /\ k.await = "details"
      /\ k.source = tasks[t].source /\ k.filter = tasks[t].filter /\ k.page = tasks[t].page
      /\ k.parts = UrlsOf(tasks[t].got)
  <2>1. "details" \in Awaits
    BY DEF Awaits
  <2>2. tasks[t] \in TaskTypes
    BY TaskType
  <2>. QED
    BY <1>3, <2>1, <2>2 DEF TaskTypes
<1>5. k.kind = "save" => k.source \in Sources
  BY <1>4 DEF Owned, TaskOwn
<1>. HIDE DEF k
<1>6. WellBegun(k, {DetailsUrl(tasks[t])}) /\ LoginCounts({DetailsUrl(tasks[t])})
  <2>1. DetailsUrl(tasks[t]).path = "details"
    BY <1>2, QueryUrls
  <2>. QED
    BY <1>2, <1>4, <1>5, <2>1 DEF WellBegun, Querying, StatsUrls, LoginCounts
<1>. QED
  BY <1>1, <1>3, <1>4, <1>6, StartsFree DEF Begins

(* A save goes on with a source that it has.                                *)
LEMMA TestedBegins ==
  ASSUME Typed, Owned, NEW t \in Tasks, Ready(t), Tested(t)
  PROVE  Begins(t) \/ Ends(t)
<1>1. NoneOf(t)
  BY StartsFree
<1>2. CASE tasks[t].kind = "scan" /\ End(t)
  BY <1>1, <1>2 DEF Ends
<1>3. CASE tasks[t].kind = "save" /\ ~Ends(t)
  <2>. DEFINE k == [tasks[t] EXCEPT !.await = "write"]
  <2>1. Await(t, k, {WriteUrl("save", tasks[t].source)})
    BY <1>1, <1>3 DEF Tested, Ends
  <2>2. tasks[t].source \in Sources
    BY <1>3 DEF Owned, TaskOwn
  <2>3. "write" \in Awaits /\ tasks[t] \in TaskTypes
    BY TaskType DEF Awaits
  <2>4. k \in TaskTypes /\ k.await = "write" /\ k.source = tasks[t].source
    BY <2>3 DEF TaskTypes
  <2>5. /\ WellBegun(k, {WriteUrl("save", tasks[t].source)})
        /\ LoginCounts({WriteUrl("save", tasks[t].source)})
    BY <2>2, <2>4, WriteUrls DEF WellBegun, LoginCounts
  <2>. QED
    BY <1>1, <2>1, <2>2, <2>4, <2>5, WriteUrls DEF Begins
<1>. QED
  BY <1>2, <1>3 DEF Tested, Ends

(* A handler that goes on waits for more, ends, or logs in or out.          *)
LEMMA ContinueDoes ==
  ASSUME Typed, Owned, NEW t \in Tasks, Continue(t)
  PROVE  Begins(t) \/ Ends(t) \/ (NoneOf(t) /\ (LoggedIn(t) \/ LoggedOut(t)))
<1>1. Ready(t) /\ NoneOf(t)
  BY StartsFree DEF Continue
<1>2. CASE ShowQuery(t) \/ ShowList(t)
  BY <1>1, <1>2 DEF ShowQuery, ShowList, Ends
<1>3. CASE Written(t)
  BY <1>1, <1>3, ListBegins DEF Written
<1>4. CASE StatusKnown(t)
  BY <1>1, <1>4, ListBegins DEF StatusKnown, Ends
<1>. QED
  BY <1>1, <1>2, <1>3, <1>4, BundleBegins, TestedBegins DEF Continue

(* Every step, by what it does to messages and tasks.                      *)
LEMMA Moves ==
  ASSUME Typed, Owned, [Next]_vars
  PROVE  \/ /\ floor' = floor
            /\ \/ Rest
               \/ \E t \in Tasks :
                    Begins(t) \/ Ends(t) \/ (NoneOf(t) /\ (LoggedIn(t) \/ LoggedOut(t)))
         \/ \E m \in net : Serve(m) \/ Receive(m)
<1>1. ASSUME NEW t \in Tasks, Continue(t)
      PROVE  /\ floor' = floor
             /\ Begins(t) \/ Ends(t) \/ (NoneOf(t) /\ (LoggedIn(t) \/ LoggedOut(t)))
  BY <1>1, ContinueDoes DEF Continue
<1>2. \/ \E t \in Tasks : User(t) \/ Continue(t)
      \/ Rest /\ floor' = floor
      \/ \E m \in net : Serve(m) \/ Receive(m)
  BY DEF Next, vars, Rest, Select, Reset, RestoreFilter, Elsewhere
<1>. QED
  BY <1>1, <1>2, UserDoes

(* What else a step may change that messages and tasks depend on.          *)
LEMMA Frame ==
  ASSUME [Next]_vars
  PROVE  \/ /\ UNCHANGED <<issued, version, floor>>
            /\ starts' = starts \/ \E t \in Tasks : User(t)
         \/ Elsewhere \/ \E m \in net : Serve(m) \/ Receive(m)
<1>1. ASSUME NEW t \in Tasks, User(t) PROVE UNCHANGED <<server, floor>>
  <2>1. CASE Search(t) \/ PreviousPage(t) \/ NextPage(t)
    BY <2>1 DEF Search, PreviousPage, NextPage, RunQuery
  <2>2. CASE RefreshSources(t)
    BY <2>2 DEF RefreshSources
  <2>3. CASE ~(Search(t) \/ PreviousPage(t) \/ NextPage(t) \/ RefreshSources(t))
    BY <1>1, <2>3 DEF User, ScanLocalConfigs, SaveSource, DeleteSource, Login, Logout, Write
  <2>. QED
    BY <2>1, <2>2, <2>3
<1>2. ASSUME NEW t \in Tasks, Continue(t) PROVE UNCHANGED <<server, floor, starts>>
  BY <1>2 DEF Continue
<1>3. CASE UNCHANGED vars \/ Reset \/ RestoreFilter \/ \E s \in Sources : Select(s)
  <2>1. UNCHANGED <<server, floor, starts>>
    BY <1>3 DEF vars, Reset, RestoreFilter, Select
  <2>. QED
    BY <2>1 DEF server, sessions
<1>4. UNCHANGED <<server, floor>> => UNCHANGED <<issued, version, floor>>
  BY DEF server, sessions
<1>. QED
  BY <1>1, <1>2, <1>3, <1>4 DEF Next

-----------------------------------------------------------------------------
(* What becomes of the messages.                                           *)

(* Time goes on: tokens, versions and the last acknowledged write.         *)
LEMMA Later ==
  ASSUME Typed, [Next]_vars
  PROVE  /\ issued' = issued \/ issued' = issued + 1
         /\ version' \in 0 .. MaxEdits /\ version =< version'
         /\ floor' = floor \/ \E m \in net : ReceiveWritten(m)
<1>1. version \in 0 .. MaxEdits /\ MaxEdits \in Nat
  BY Types, ClientAssumption
<1>2. ASSUME NEW m \in net, Serve(m)
      PROVE  /\ issued' = issued \/ issued' = issued + 1
             /\ version' \in 0 .. MaxEdits /\ version =< version' /\ floor' = floor
  BY <1>1, <1>2 DEF Serve, Effect, IssueToken, server, sessions
<1>3. CASE Elsewhere
  BY <1>1, <1>3 DEF Elsewhere, sessions
<1>4. ASSUME NEW m \in net, Receive(m)
      PROVE  /\ issued' = issued /\ version' = version
             /\ floor' = floor \/ ReceiveWritten(m)
  BY <1>4 DEF Receive, HandleUnauthorized, ReceiveStatus, ReceiveData, ReceiveBody, ReceiveFailure
<1>. QED
  BY <1>1, <1>2, <1>3, <1>4, Frame

(* ClearCaches: what is under way becomes late.                            *)
LEMMA Clears ==
  ASSUME Typed, NEW rest, rest \subseteq net, NEW new, ClearCaches(rest, new)
  PROVE  /\ queryCache' = {} /\ bundledQueryCache' = {}
         /\ \A n \in net' : \/ n \in new
                            \/ \E x \in rest : /\ Copy(n, x) /\ n.answer.late
                                               /\ n.task = x.task /\ n = LateOf(x)
         /\ new \subseteq net'
         /\ \A x \in rest : LateOf(x) \in net' /\ Copy(LateOf(x), x) /\ LateOf(x).task = x.task
<1>1. \A m \in rest : /\ Copy(LateOf(m), m) /\ LateOf(m).answer.late /\ LateOf(m).task = m.task
  BY LateCopy, MessageType
<1>2. /\ net' = {LateOf(m) : m \in rest} \union new
      /\ queryCache' = {} /\ bundledQueryCache' = {}
  BY DEF ClearCaches, Cleared, LateOf
<1>. QED
  BY <1>1, <1>2

(* A request that fails ends its handler and leaves the others theirs.      *)
LEMMA Fails ==
  ASSUME Typed, NEW m \in net, NEW u, Fail(m, u)
  PROVE  \/ m.task = None /\ net' = net \ {m} /\ tasks' = tasks
         \/ /\ m.task \in Tasks /\ tasks' = [tasks EXCEPT ![m.task] = NoTask]
            /\ \A n \in net' : n.task # m.task /\ \E x \in net \ {m} : Copy(n, x)
            /\ \A n \in net' : n.task # None => n \in net
            /\ \A x \in net \ {m} : x.task # m.task => x \in net'
<1>1. m.task \in Tasks \union {None} /\ None \notin Tasks
  BY MessageType, Types
<1>2. CASE m.task = None
  BY <1>2 DEF Fail
<1>3. CASE m.task # None
  <2>1. /\ tasks' = [tasks EXCEPT ![m.task] = NoTask]
        /\ net' = {IF x.task = m.task THEN [x EXCEPT !.task = None] ELSE x : x \in net \ {m}}
    BY <1>3 DEF Fail, Orphaned
  <2>2. \A x \in net : /\ Copy([x EXCEPT !.task = None], x)
                       /\ [x EXCEPT !.task = None].task = None /\ Copy(x, x)
    BY MessageType, OrphanCopy, SelfCopy
  <2>3. ASSUME NEW n \in net'
        PROVE  /\ n.task # m.task /\ \E x \in net \ {m} : Copy(n, x)
               /\ n.task # None => n \in net
    <3>1. PICK x \in net \ {m} : n = IF x.task = m.task THEN [x EXCEPT !.task = None] ELSE x
      BY <2>1
    <3>2. CASE x.task = m.task
      BY <1>3, <2>2, <3>1, <3>2
    <3>3. CASE x.task # m.task
      BY <2>2, <3>1, <3>3
    <3>. QED
      BY <3>2, <3>3
  <2>4. \A x \in net \ {m} : x.task # m.task => x \in net'
    BY <2>1
  <2>. QED
    BY <1>1, <1>3, <2>1, <2>3, <2>4
<1>. QED
  BY <1>2, <1>3

(* The server's answer.                                                    *)
LEMMA Serves ==
  ASSUME Typed, Owned, NEW m \in net, Serve(m)
  PROVE  /\ m.code = "none" /\ tasks' = tasks
         /\ \E a \in Messages :
              /\ net' = (net \ {m}) \union {a}
              /\ a.task = m.task /\ a.answer.url = m.answer.url
              /\ a.code \in {"ok", "unauthorized"}
              /\ a.cookie =< issued' /\ a.answer.at =< version'
              /\ a.code = "unauthorized" => m.answer.url.path \notin Public
              /\ a.code = "ok" /\ m.answer.url.path \notin Public => a.answer.at = version'
<1>. DEFINE u == m.answer.url
<1>0. /\ m.code = "none" /\ tasks' = tasks
      /\ version' \in Nat /\ version' \in 0 .. MaxEdits
      /\ issued \in Nat /\ issued' \in Nat /\ issued =< issued'
      /\ IF AuthEnabled /\ u.path = "login" THEN issued' =< MaxStarts + 1 ELSE TRUE
  <2>1. [Next]_vars
    BY DEF Next
  <2>2. (AuthEnabled /\ u.path = "login") => issued + 1 =< MaxStarts + 1
    <3>1. SUFFICES ASSUME u.path = "login" PROVE issued + 1 =< MaxStarts + 1
      OBVIOUS
    <3>2. m \in Logins /\ IsFiniteSet(Logins) /\ issued + Cardinality(Logins) =< starts + 1
      BY <3>1 DEF Typed, TokensCounted, Logins, LoginsOf, Serve
    <3>3. Cardinality(Logins) \in Nat /\ Cardinality(Logins) # 0
      BY <3>2, FS_CardinalityType, FS_EmptySet
    <3>4. issued \in Nat /\ starts \in 0 .. MaxStarts /\ MaxStarts \in Nat
      BY Types, ClientAssumption DEF Typed, TypeOK
    <3>. QED
      BY <3>2, <3>3, <3>4
  <2>3. m.code = "none" /\ tasks' = tasks
    BY DEF Serve
  <2>4. /\ version' \in Nat /\ version' \in 0 .. MaxEdits
        /\ issued \in Nat /\ issued' \in Nat /\ issued =< issued'
        /\ issued' = issued \/ issued' = issued + 1
    BY <2>1, Later, Types, ClientAssumption
  <2>. QED
    BY <2>2, <2>3, <2>4, Types
<1>1. CASE /\ Guarded(m)
           /\ net' = (net \ {m}) \union {[m EXCEPT !.code = "unauthorized", !.cookie = 0]}
           /\ UNCHANGED server
  <2>. DEFINE a == [m EXCEPT !.code = "unauthorized", !.cookie = 0]
  <2>1. /\ a \in Messages /\ a.task = m.task /\ a.answer = m.answer
        /\ a.code = "unauthorized" /\ a.cookie = 0
    <3>1. 0 \in Tokens /\ "unauthorized" \in Codes /\ m \in Messages
      BY MessageType, ClientAssumption DEF Codes, Tokens
    <3>. QED
      BY <3>1 DEF Messages
  <2>2. m.answer.at =< version' /\ 0 =< issued'
    <3>1. m.answer.at =< version /\ version' = version /\ issued' = issued
      BY <1>1 DEF server, sessions, Owned, MessageTrue
    <3>. QED
      BY <1>0, <3>1
  <2>3. m.answer.url.path \notin Public
    BY <1>1 DEF Guarded
  <2>4. net' = (net \ {m}) \union {a}
    BY <1>1
  <2>. HIDE DEF a
  <2>. QED
    BY <1>0, <2>1, <2>2, <2>3, <2>4
<1>2. CASE /\ Effect(u)
           /\ net' = (net \ {m}) \union
                {[m EXCEPT !.code = "ok", !.cookie = SetCookie(u),
                           !.answer = [@ EXCEPT
                             !.at = IF u.path \in Public THEN 0 ELSE version',
                             !.listing = ListedNow(u), !.valid = SignedIn(u, m.cookie)]]}
  <2>. DEFINE at == IF u.path \in Public THEN 0 ELSE version'
              listing == ListedNow(u)
              valid == SignedIn(u, m.cookie)
              x == [m.answer EXCEPT !.at = at, !.listing = listing, !.valid = valid]
              a == [m EXCEPT !.code = "ok", !.cookie = SetCookie(u), !.answer = x]
  <2>1. at \in 0 .. MaxEdits /\ at =< version' /\ listing \in SUBSET Sources /\ valid \in BOOLEAN
    BY <1>0, Types, ClientAssumption DEF ListedNow, SignedIn, Authenticated
  <2>2. u.path \notin Public => at = version'
    OBVIOUS
  <2>3. SetCookie(u) \in Tokens /\ SetCookie(u) =< issued'
    BY <1>0, ClientAssumption DEF SetCookie, Tokens
  <2>. HIDE DEF at, listing, valid
  <2>4. x \in Answers /\ x.url = u /\ x.at = at
    BY <2>1, MessageType DEF Answers
  <2>. HIDE DEF x
  <2>5. /\ a \in Messages /\ a.task = m.task /\ a.code = "ok"
        /\ a.cookie = SetCookie(u) /\ a.answer = x
    BY <2>3, <2>4, MessageType DEF Messages, Codes
  <2>6. net' = (net \ {m}) \union {a}
    BY <1>2, Zenon DEF a, x, at, listing, valid
  <2>. QED
    BY <1>0, <2>1, <2>2, <2>3, <2>4, <2>5, <2>6
<1>. QED
  BY <1>0, <1>1, <1>2 DEF Serve

(* A message that is carried over stays true.                               *)
LEMMA CopyTrue ==
  ASSUME Typed, Owned, [Next]_vars, NEW m \in net, NEW n, Copy(n, m),
         floor' = floor \/ n.answer.late
  PROVE  n \in Messages /\ MessageTrue(n)'
<1>1. MessageTrue(m) /\ m.cookie \in Nat /\ m.answer.at \in Nat
  BY MessageType, ClientAssumption DEF Owned
<1>2. /\ issued \in Nat /\ version \in Nat /\ version' \in Nat /\ version =< version'
      /\ issued' = issued \/ issued' = issued + 1
  BY Types, Later, ClientAssumption
<1>3. n.cookie =< issued' /\ n.answer.at =< version'
  BY <1>1, <1>2 DEF Copy, MessageTrue
<1>4. n.code = "ok" /\ n.answer.url.path \notin Public => NewEnough(n.answer)'
  <2>1. CASE n.answer.late
    BY <2>1 DEF NewEnough
  <2>2. CASE floor' = floor
    BY <1>1, <2>2 DEF Copy, MessageTrue, NewEnough
  <2>. QED
    BY <2>1, <2>2
<1>. QED
  BY <1>1, <1>3, <1>4 DEF Copy, MessageTrue

(* A new request is true.                                                   *)
LEMMA RequestTrue ==
  ASSUME Typed, [Next]_vars, NEW t \in Tasks \union {None}, NEW u \in Urls,
         NEW n, n = Request(t, u)
  PROVE  n \in Messages /\ MessageTrue(n)'
<1>1. n \in Messages /\ n.code = "none" /\ n.cookie = cookie /\ n.answer.at = 0
  BY RequestType
<1>2. issued \in Nat /\ cookie \in 0 .. issued /\ version' \in Nat
      /\ (issued' = issued \/ issued' = issued + 1)
  BY Types, Later, ClientAssumption
<1>3. n.cookie =< issued' /\ n.answer.at =< version'
  BY <1>1, <1>2
<1>. QED
  BY <1>1, <1>3 DEF MessageTrue

(* So every message is, after every step.                                   *)
LEMMA NewMessages ==
  ASSUME Typed, Owned, [Next]_vars, NEW n \in net'
  PROVE  n \in Messages /\ MessageTrue(n)'
<1>0. Plain("status") \in Urls /\ \A m \in net : Copy(m, m) /\ m.task \in Tasks \union {None}
  BY PlainUrls, MessageType, SelfCopy
<1>. DEFINE Old == \E m \in net : Copy(n, m) /\ (floor' = floor \/ n.answer.late)
            Asked == \E t \in Tasks \union {None}, u \in Urls : n = Request(t, u)
            True == n \in Messages /\ MessageTrue(n)'
<1>a. Old \/ Asked => True
  BY CopyTrue, RequestTrue
<1>. HIDE DEF True
<1>1. ASSUME Rest, floor' = floor PROVE True
  <2>1. n \in net
    BY <1>1 DEF Rest
  <2>. QED
    BY <1>0, <1>1, <1>a, <2>1
<1>2. ASSUME NEW t \in Tasks, Begins(t), floor' = floor PROVE True
  <2>1. PICK k \in TaskTypes, urls \in SUBSET Urls : Await(t, k, urls)
    BY <1>2 DEF Begins
  <2>2. n \in net \/ \E u \in urls : n = Request(t, u)
    BY <2>1, Awaiting
  <2>. QED
    BY <1>0, <1>2, <1>a, <2>2
<1>3. ASSUME NEW t \in Tasks, Ends(t), floor' = floor PROVE True
  BY <1>0, <1>3, <1>a DEF Ends, End
<1>4. ASSUME NEW t \in Tasks, LoggedIn(t) PROVE True
  <2>1. ClearCaches(net, {Request(t, Plain("status"))})
    BY <1>4 DEF LoggedIn
  <2>2. \/ n = Request(t, Plain("status"))
        \/ \E x \in net : Copy(n, x) /\ n.answer.late
    BY <2>1, Clears
  <2>. QED
    BY <1>0, <1>a, <2>2
<1>5. ASSUME NEW t \in Tasks, LoggedOut(t) PROVE True
  <2>1. ClearCaches(net, {})
    BY <1>5 DEF LoggedOut, LogOut
  <2>2. \E x \in net : Copy(n, x) /\ n.answer.late
    BY <2>1, Clears
  <2>. QED
    BY <1>a, <2>2
<1>6. ASSUME NEW m \in net, Serve(m) PROVE True
  <2>1. PICK a \in Messages :
          /\ net' = (net \ {m}) \union {a}
          /\ a.answer.url = m.answer.url
          /\ a.code \in {"ok", "unauthorized"}
          /\ a.cookie =< issued' /\ a.answer.at =< version'
          /\ a.code = "unauthorized" => m.answer.url.path \notin Public
          /\ a.code = "ok" /\ m.answer.url.path \notin Public => a.answer.at = version'
    BY <1>6, Serves
  <2>2. floor' = floor /\ floor =< version'
    <3>1. floor' = floor /\ floor \in Nat /\ version \in Nat /\ version' \in Nat /\ version =< version'
      BY <1>6, Later, Types, ClientAssumption DEF Serve
    <3>. QED
      BY <3>1 DEF Owned
  <2>3. MessageTrue(a)'
    BY <2>1, <2>2 DEF MessageTrue, NewEnough
  <2>. QED
    BY <1>0, <1>a, <2>1, <2>2, <2>3 DEF True
<1>7. ASSUME NEW m \in net, Receive(m), ReceiveWritten(m) PROVE True
  <2>. DEFINE b == [m EXCEPT !.code = "body", !.cookie = 0]
  <2>1. ClearCaches(net \ {m}, {b}) /\ m.answer.url.path \in Writes /\ UNCHANGED <<issued, version>>
    BY <1>7 DEF ReceiveWritten, Receive
  <2>2. b \in Messages /\ b.code = "body" /\ b.cookie = 0 /\ b.answer = m.answer
    <3>1. 0 \in Tokens /\ "body" \in Codes /\ m \in Messages
      BY MessageType, ClientAssumption DEF Codes, Tokens
    <3>. QED
      BY <3>1 DEF Messages
  <2>. HIDE DEF b
  <2>3. 0 =< issued' /\ b.answer.at =< version'
    <3>1. m.answer.at =< version
      BY DEF Owned, MessageTrue
    <3>. QED
      BY <2>1, <2>2, <3>1, Types
  <2>4. MessageTrue(b)'
    BY <2>1, <2>2, <2>3 DEF MessageTrue
  <2>5. n = b \/ \E x \in net : Copy(n, x) /\ n.answer.late
    <3>1. net \ {m} \subseteq net
      OBVIOUS
    <3>. QED
      BY <2>1, <3>1, Clears
  <2>. QED
    BY <1>a, <2>2, <2>4, <2>5 DEF True
<1>8. ASSUME NEW m \in net, HandleUnauthorized(m) PROVE True
  <2>1. PICK a : a = Request(m.task, Plain("status"))
    OBVIOUS
  <2>2. PICK rest : rest = net \ {m}
    OBVIOUS
  <2>3. ClearCaches(rest, {a})
    BY <1>8, <2>1, <2>2, Zenon DEF HandleUnauthorized
  <2>4. rest \subseteq net
    BY <2>2
  <2>5. n \in {a} \/ \E x \in rest : Copy(n, x) /\ n.answer.late
    BY <2>3, <2>4, Clears
  <2>6. n = a \/ \E x \in net : Copy(n, x) /\ n.answer.late
    BY <2>4, <2>5
  <2>. QED
    BY <1>0, <1>a, <2>1, <2>6
<1>9. ASSUME NEW m \in net, NEW u, Fail(m, u), floor' = floor PROVE True
  BY <1>0, <1>9, <1>a, Fails
<1>10. ASSUME NEW m \in net, ReceiveStatus(m) \/ ReceiveData(m) \/ ReceiveBody(m) PROVE True
  <2>1. floor' = floor /\ (net' = net \ {m} \/ \E u : Fail(m, u))
    BY <1>10 DEF ReceiveStatus, ReceiveData, ReceiveBody
  <2>. QED
    BY <1>0, <1>9, <1>a, <2>1
<1>11. ASSUME NEW m \in net, ReceiveFailure(m) PROVE True
  <2>1. CASE ClearCaches(net \ {m}, {})
    <3>1. net \ {m} \subseteq net
      OBVIOUS
    <3>. QED
      BY <1>a, <2>1, <3>1, Clears
  <2>2. CASE Fail(m, ui) /\ floor' = floor
    BY <1>9, <2>2
  <2>. QED
    BY <1>11, <2>1, <2>2 DEF ReceiveFailure, LogOut
<1>12. ASSUME NEW m \in net, Receive(m) PROVE True
  BY <1>7, <1>8, <1>10, <1>11, <1>12 DEF Receive
<1>13. True
  BY <1>1, <1>2, <1>3, <1>4, <1>5, <1>6, <1>12, Moves
<1>. QED
  BY <1>13 DEF True

-----------------------------------------------------------------------------
(* What becomes of the tasks.                                              *)

(* n stands for m: it is about the same request, or asks for the status    *)
(* because m was refused.                                                  *)
Stands(n, m) ==
  \/ n.answer.url = m.answer.url
  \/ n.answer.url = Plain("status") /\ m.answer.url.path \notin Public

Same(t) ==
  LET k == tasks[t]
      l == tasks'[t]
  IN  /\ l.kind = k.kind /\ l.await = k.await /\ l.source = k.source
      /\ l.filter = k.filter /\ l.page = k.page /\ l.parts = k.parts

(* What was got is kept; what is new answers one of the task's requests.   *)
GotFrom(t) ==
  /\ UrlsOf(tasks[t].got) \subseteq UrlsOf(tasks'[t].got)
  /\ \A u \in UrlsOf(tasks'[t].got) \ UrlsOf(tasks[t].got) :
       u.path # "status" /\ \E m \in net : m.task = t /\ m.answer.url = u

(* A task goes on waiting: a message of it gives way to what stands for it *)
(* or to its data; only a write or the status goes without either.         *)
Goes(t) ==
  /\ Same(t) /\ GotFrom(t)
  /\ \A n \in net' : n.task = t => \E m \in net : m.task = t /\ Stands(n, m)
  /\ \A m \in net :
       m.task = t =>
         \/ \E n \in net' : n.task = t /\ Stands(n, m)
         \/ m.answer.url \in UrlsOf(tasks'[t].got)
         \/ m.answer.url.path \in Writes \/ tasks[t].await = "status"
  /\ Alone(t) => Alone(t)'

Over(t) == tasks'[t] = NoTask /\ \A n \in net' : n.task # t

(* What is not carried over is not the task's, or one message of it gives  *)
(* way to another.                                                         *)
Exchanged(rest, new, t) ==
  \/ (\A x \in net \ rest : x.task # t) /\ (\A n \in new : n.task # t)
  \/ \E m \in net, b \in new :
       rest = net \ {m} /\ new = {b} /\ m.task = t /\ b.task = t /\ Stands(b, m)

(* Messages are carried over, perhaps changed, and one of them is replaced *)
(* or taken away.                                                          *)
LEMMA Carried ==
  ASSUME NEW rest, rest \subseteq net, NEW new, NEW f,
         net' = {f[x] : x \in rest} \union new,
         \A x \in rest : f[x].task = x.task /\ f[x].answer.url = x.answer.url,
         NEW t \in Tasks, Same(t), GotFrom(t),
         \/ Exchanged(rest, new, t)
         \/ \E m \in net :
              /\ rest = net \ {m} /\ new = {} /\ m.task = t
              /\ \/ m.answer.url \in UrlsOf(tasks'[t].got)
                 \/ m.answer.url.path \in Writes \/ tasks[t].await = "status"
  PROVE  Goes(t)
<1>1. \A x \in rest : f[x] \in net' /\ Stands(f[x], x) /\ f[x].task = x.task
  BY DEF Stands
<1>2. CASE (\A x \in net \ rest : x.task # t) /\ (\A n \in new : n.task # t)
  <2>1. \A n \in net' : n.task = t => \E x \in rest : x.task = t /\ n = f[x]
    BY <1>2
  <2>2. \A m \in net : m.task = t => m \in rest
    BY <1>2
  <2>3. Alone(t) => Alone(t)'
    BY <2>1 DEF Alone
  <2>. QED
    BY <1>1, <2>1, <2>2, <2>3 DEF Goes
<1>3. ASSUME NEW m \in net, NEW b \in new,
             rest = net \ {m}, new = {b}, m.task = t, b.task = t, Stands(b, m)
      PROVE  Goes(t)
  <2>1. \A n \in net' : n.task = t => n = b \/ \E x \in rest : x.task = t /\ n = f[x]
    BY <1>3
  <2>2. b \in net' /\ \A x \in net : x = m \/ x \in rest
    BY <1>3
  <2>3. Alone(t) => Alone(t)'
    BY <1>3, <2>1 DEF Alone
  <2>. QED
    BY <1>1, <1>3, <2>1, <2>2, <2>3 DEF Goes
<1>4. ASSUME NEW m \in net, rest = net \ {m}, new = {}, m.task = t,
             \/ m.answer.url \in UrlsOf(tasks'[t].got)
             \/ m.answer.url.path \in Writes \/ tasks[t].await = "status"
      PROVE  Goes(t)
  <2>1. \A n \in net' : n.task = t => \E x \in rest : x.task = t /\ n = f[x]
    BY <1>4
  <2>2. \A x \in net : x = m \/ x \in rest
    BY <1>4
  <2>3. Alone(t) => Alone(t)'
    BY <2>1 DEF Alone
  <2>. QED
    BY <1>1, <1>4, <2>1, <2>2, <2>3 DEF Goes
<1>. QED
  BY <1>2, <1>3, <1>4 DEF Exchanged

(* A task that keeps what it has, or has it made late, is the same.        *)
LEMMA KeptSame ==
  ASSUME NEW t \in Tasks, tasks'[t] = tasks[t]
  PROVE  Same(t) /\ GotFrom(t)
BY DEF Same, GotFrom

(* A handler whose answers become late is the same.                         *)
LEMMA AgedSame ==
  ASSUME Typed, NEW t \in Tasks, tasks'[t] = Aged(tasks)[t]
  PROVE  Same(t) /\ GotFrom(t)
<1>1. UrlsOf(tasks'[t].got) = UrlsOf(tasks[t].got)
  BY AgedTasks, LateAnswers, TaskType
<1>2. Same(t)
  BY AgedTasks DEF Same
<1>. QED
  BY <1>1, <1>2 DEF GotFrom

(* A task whose messages stay as they are.                                 *)
LEMMA Stays ==
  ASSUME NEW t \in Tasks, tasks'[t] = tasks[t], \A n : n.task = t => (n \in net' <=> n \in net)
  PROVE  Goes(t)
<1>1. Alone(t) => Alone(t)'
  BY DEF Alone
<1>. QED
  BY <1>1, KeptSame DEF Goes, Stands

(* A task whose messages become late, when the caches are cleared.         *)
LEMMA Ages ==
  ASSUME Typed, NEW rest, rest \subseteq net, NEW new, ClearCaches(rest, new),
         NEW t \in Tasks, tasks'[t] = Aged(tasks)[t],
         Exchanged(rest, new, t)
  PROVE  Goes(t)
<1>. DEFINE f == [x \in rest |-> LateOf(x)]
<1>1. net' = {LateOf(x) : x \in rest} \union new
  BY DEF ClearCaches, LateOf
<1>2. \A x \in rest : f[x] = LateOf(x)
  OBVIOUS
<1>3. net' = {f[x] : x \in rest} \union new
  BY <1>1, <1>2
<1>4. \A x \in rest : f[x].task = x.task /\ f[x].answer.url = x.answer.url
  BY <1>2, Clears DEF Copy
<1>. HIDE DEF f
<1>5. Same(t) /\ GotFrom(t)
  BY AgedSame
<1>. QED
  BY <1>3, <1>4, <1>5, Carried

(* A task begins to wait, or goes on to wait for something else.           *)
Begun(t) ==
  \E urls \in SUBSET Urls :
    /\ WellBegun(tasks'[t], urls)
    /\ UrlsOf(tasks'[t].got) \subseteq urls
    /\ \A n \in net' : n.task = t => n.answer.url \in urls
    /\ \A u \in urls \ UrlsOf(tasks'[t].got) : \E n \in net' : n.task = t /\ n.answer.url = u
    /\ tasks'[t].await = "logout" => Alone(t)'

(* A login asks for the status.                                            *)
AsksStatus(t) ==
  /\ tasks'[t].await = "status" /\ tasks'[t].kind = tasks[t].kind
  /\ tasks'[t].source = tasks[t].source

Moved(t) == Goes(t) \/ Begun(t) \/ AsksStatus(t) \/ Over(t)
AllMoved == tasks' \in [Tasks -> TaskTypes] /\ \A t \in Tasks : Moved(t)

(* Step by step: a handler begins to wait.                                  *)
LEMMA BeginsMoves ==
  ASSUME Typed, NEW t \in Tasks, Begins(t)
  PROVE  AllMoved
<1>1. PICK k \in TaskTypes, urls \in SUBSET Urls : WellBegun(k, urls) /\ Await(t, k, urls)
  BY DEF Begins
<1>2. PICK hits \in SUBSET queryCache, l \in TaskTypes :
           /\ UrlsOf(hits) \subseteq urls
           /\ l.got = hits /\ l.kind = k.kind /\ l.await = k.await /\ l.source = k.source
           /\ l.filter = k.filter /\ l.page = k.page /\ l.parts = k.parts
           /\ tasks' = [tasks EXCEPT ![t] = l]
           /\ net' = net \union {Request(t, u) : u \in urls \ UrlsOf(hits)}
  BY <1>1, Awaiting
<1>3. /\ tasks' \in [Tasks -> TaskTypes] /\ tasks'[t] = l
      /\ \A x \in Tasks \ {t} : tasks'[x] = tasks[x]
  BY <1>2, Types
<1>4. \A u \in Urls : Request(t, u).task = t /\ Request(t, u).answer.url = u
  BY RequestType
<1>5. \A n : n.task # t => (n \in net' <=> n \in net)
  BY <1>2, <1>4
<1>6. \A n \in net' : n.task = t => \E u \in urls \ UrlsOf(hits) : n = Request(t, u)
  BY <1>2 DEF Begins, NoneOf
<1>7. Begun(t)
  <2>1. WellBegun(l, urls)
    BY <1>1, <1>2 DEF WellBegun, Querying, StatsUrls
  <2>2. \A n \in net' : n.task = t => n.answer.url \in urls
    BY <1>4, <1>6
  <2>3. \A u \in urls \ UrlsOf(hits) : \E n \in net' : n.task = t /\ n.answer.url = u
    BY <1>2, <1>4
  <2>4. ASSUME l.await = "logout" PROVE Alone(t)'
    <3>1. urls = {Plain("logout")}
      BY <2>1, <2>4 DEF WellBegun
    <3>. QED
      BY <1>6, <3>1 DEF Alone
  <2>. QED
    BY <1>2, <1>3, <2>1, <2>2, <2>3, <2>4 DEF Begun
<1>8. ASSUME NEW x \in Tasks \ {t} PROVE Goes(x)
  <2>1. \A n : n.task = x => (n \in net' <=> n \in net)
    BY <1>5
  <2>. QED
    BY <1>3, <2>1, Stays
<1>. QED
  BY <1>3, <1>7, <1>8 DEF AllMoved, Moved

(* A handler ends.                                                          *)
LEMMA EndsMoves ==
  ASSUME Typed, NEW t \in Tasks, Ends(t)
  PROVE  AllMoved
<1>1. net' = net /\ tasks' = [tasks EXCEPT ![t] = NoTask]
  BY DEF Ends, End
<1>2. /\ tasks' \in [Tasks -> TaskTypes] /\ tasks'[t] = NoTask
      /\ \A x \in Tasks \ {t} : tasks'[x] = tasks[x]
  BY <1>1, Types
<1>3. Over(t)
  BY <1>1, <1>2 DEF Ends, NoneOf, Over
<1>4. ASSUME NEW x \in Tasks \ {t} PROVE Goes(x)
  BY <1>1, <1>2, Stays
<1>. QED
  BY <1>2, <1>3, <1>4 DEF AllMoved, Moved

(* The caches are cleared; one task may be over or ask for the status.     *)
LEMMA ClearsMoves ==
  ASSUME Typed, NEW rest, rest \subseteq net, NEW new, ClearCaches(rest, new),
         NEW t \in Tasks, NEW k \in TaskTypes, tasks' = [Aged(tasks) EXCEPT ![t] = k],
         \A x \in Tasks \ {t} : Exchanged(rest, new, x),
         (tasks'[t] = k /\ \A n \in net' : n.task = t => n \in new) => Moved(t),
         \A x \in rest : x.task # t
  PROVE  AllMoved
<1>1. /\ tasks' \in [Tasks -> TaskTypes] /\ tasks'[t] = k
      /\ \A x \in Tasks \ {t} : tasks'[x] = Aged(tasks)[x]
  BY AgedTasks
<1>2. \A n \in net' : n.task = t => n \in new
  BY Clears
<1>3. ASSUME NEW x \in Tasks \ {t} PROVE Goes(x)
  <2>1. Exchanged(rest, new, x)
    BY <1>3
  <2>. QED
    BY <1>1, <2>1, Ages
<1>. QED
  BY <1>1, <1>2, <1>3 DEF AllMoved, Moved

(* handleLogin goes on.                                                     *)
LEMMA LoginMoves ==
  ASSUME Typed, NEW t \in Tasks, NoneOf(t), LoggedIn(t)
  PROVE  AllMoved
<1>. DEFINE k == [Aged(tasks)[t] EXCEPT !.await = "status"]
<1>1. PICK a : a = Request(t, Plain("status"))
  OBVIOUS
<1>2. ClearCaches(net, {a}) /\ tasks' = [Aged(tasks) EXCEPT ![t] = k]
  BY <1>1 DEF LoggedIn
<1>3. /\ Aged(tasks)[t] \in TaskTypes
      /\ Aged(tasks)[t].kind = tasks[t].kind /\ Aged(tasks)[t].source = tasks[t].source
  BY AgedTasks
<1>4. k \in TaskTypes /\ k.await = "status" /\ k.kind = tasks[t].kind /\ k.source = tasks[t].source
  BY <1>3 DEF TaskTypes, Awaits
<1>. HIDE DEF k
<1>5. a.task = t
  BY <1>1, RequestType, PlainUrls
<1>6. \A x \in Tasks \ {t} : Exchanged(net, {a}, x)
  BY <1>5 DEF Exchanged
<1>7. tasks'[t] = k => Moved(t)
  BY <1>4 DEF Moved, AsksStatus
<1>8. \A x \in net : x.task # t
  BY DEF NoneOf
<1>. QED
  BY <1>2, <1>4, <1>6, <1>7, <1>8, ClearsMoves

(* handleLogout ends.                                                       *)
LEMMA LogOutMoves ==
  ASSUME Typed, NEW t \in Tasks, NEW rest, rest \subseteq net, \A x \in rest : x.task # t,
         \A x \in net \ rest : x.task = t, LogOut(t, rest)
  PROVE  AllMoved
<1>1. ClearCaches(rest, {}) /\ tasks' = [Aged(tasks) EXCEPT ![t] = NoTask]
  BY DEF LogOut
<1>2. \A x \in Tasks \ {t} : Exchanged(rest, {}, x)
  BY DEF Exchanged
<1>3. (tasks'[t] = NoTask /\ \A n \in net' : n.task = t => n \in {}) => Moved(t)
  BY DEF Moved, Over
<1>4. NoTask \in TaskTypes
  BY Types
<1>. QED
  BY <1>1, <1>2, <1>3, <1>4, ClearsMoves

(* The server answers.                                                      *)
LEMMA ServeMoves ==
  ASSUME Typed, Owned, NEW m \in net, Serve(m)
  PROVE  AllMoved
<1>1. PICK a \in Messages :
        /\ net' = (net \ {m}) \union {a}
        /\ a.task = m.task /\ a.answer.url = m.answer.url
  BY Serves
<1>2. tasks' = tasks /\ tasks \in [Tasks -> TaskTypes]
  BY Serves, Types
<1>3. ASSUME NEW t \in Tasks PROVE Goes(t)
  <2>. DEFINE f == [x \in net \ {m} |-> x]
  <2>1. net' = {f[x] : x \in net \ {m}} \union {a} /\ \A x \in net \ {m} : f[x] = x
    BY <1>1
  <2>. HIDE DEF f
  <2>2. Same(t) /\ GotFrom(t)
    BY <1>2, KeptSame
  <2>3. Exchanged(net \ {m}, {a}, t)
    BY <1>1 DEF Exchanged, Stands
  <2>. QED
    BY <2>1, <2>2, <2>3, Carried
<1>. QED
  BY <1>2, <1>3 DEF AllMoved, Moved

(* A request fails.                                                         *)
LEMMA FailMoves ==
  ASSUME Typed, NEW m \in net, NEW u, Fail(m, u)
  PROVE  AllMoved
<1>1. tasks \in [Tasks -> TaskTypes] /\ NoTask \in TaskTypes /\ None \notin Tasks
  BY Types
<1>2. CASE m.task = None /\ net' = net \ {m} /\ tasks' = tasks
  <2>1. ASSUME NEW t \in Tasks PROVE Goes(t)
    <3>1. \A n : n.task = t => (n \in net' <=> n \in net)
      BY <1>1, <1>2
    <3>. QED
      BY <1>2, <3>1, Stays
  <2>. QED
    BY <1>1, <1>2, <2>1 DEF AllMoved, Moved
<1>3. CASE /\ m.task \in Tasks /\ tasks' = [tasks EXCEPT ![m.task] = NoTask]
           /\ \A n \in net' : n.task # m.task /\ \E x \in net \ {m} : Copy(n, x)
           /\ \A n \in net' : n.task # None => n \in net
           /\ \A x \in net \ {m} : x.task # m.task => x \in net'
  <2>1. /\ tasks' \in [Tasks -> TaskTypes] /\ tasks'[m.task] = NoTask
        /\ \A x \in Tasks \ {m.task} : tasks'[x] = tasks[x]
    BY <1>1, <1>3
  <2>2. Over(m.task)
    BY <1>3, <2>1 DEF Over
  <2>3. ASSUME NEW t \in Tasks \ {m.task} PROVE Goes(t)
    <3>1. \A n : n.task = t => (n \in net' <=> n \in net)
      BY <1>1, <1>3
    <3>. QED
      BY <2>1, <3>1, Stays
  <2>. QED
    BY <2>1, <2>2, <2>3 DEF AllMoved, Moved
<1>. QED
  BY <1>2, <1>3, Fails

(* A message is taken away: nobody waits for it, or its task goes on       *)
(* waiting for the body of a write, or to be told that the status is known. *)
LEMMA TakenMoves ==
  ASSUME Typed, NEW m \in net, net' = net \ {m}, tasks' = tasks,
         m.task \in Tasks =>
           m.answer.url.path \in Writes \/ tasks[m.task].await = "status"
  PROVE  AllMoved
<1>1. tasks \in [Tasks -> TaskTypes]
  BY Types
<1>2. ASSUME NEW t \in Tasks PROVE Goes(t)
  <2>1. Same(t) /\ GotFrom(t)
    BY KeptSame
  <2>2. CASE m.task # t
    <3>1. \A n : n.task = t => (n \in net' <=> n \in net)
      BY <2>2
    <3>. QED
      BY <3>1, Stays
  <2>3. CASE m.task = t
    <3>. DEFINE f == [x \in net \ {m} |-> x]
    <3>1. net' = {f[x] : x \in net \ {m}} \union {} /\ \A x \in net \ {m} : f[x] = x
      OBVIOUS
    <3>. HIDE DEF f
    <3>2. m.answer.url.path \in Writes \/ tasks[t].await = "status"
      BY <2>3
    <3>. QED
      BY <2>1, <2>3, <3>1, <3>2, Carried
  <2>. QED
    BY <2>2, <2>3
<1>. QED
  BY <1>1, <1>2 DEF AllMoved, Moved

(* fetchJson has its data.                                                  *)
LEMMA DataMoves ==
  ASSUME Typed, NEW m \in net, ReceiveData(m)
  PROVE  AllMoved
<1>1. /\ net' = net \ {m} /\ m.answer.url.path \notin Writes \union {"status"}
      /\ tasks' = IF m.task = None THEN tasks
                  ELSE [tasks EXCEPT ![m.task].got = @ \union {m.answer}]
      /\ tasks \in [Tasks -> TaskTypes] /\ None \notin Tasks
      /\ m.task \in Tasks \union {None} /\ m.answer \in Answers
  BY Types, MessageType DEF ReceiveData
<1>2. CASE m.task = None
  BY <1>1, <1>2, TakenMoves
<1>3. CASE m.task \in Tasks
  <2>. DEFINE t == m.task
              l == [tasks[t] EXCEPT !.got = tasks[t].got \union {m.answer}]
  <2>1. tasks' = [tasks EXCEPT ![t] = l]
    BY <1>1, <1>3
  <2>2. l \in TaskTypes /\ l.got = tasks[t].got \union {m.answer}
        /\ l.kind = tasks[t].kind /\ l.await = tasks[t].await /\ l.source = tasks[t].source
        /\ l.filter = tasks[t].filter /\ l.page = tasks[t].page /\ l.parts = tasks[t].parts
    <3>1. tasks[t] \in TaskTypes /\ tasks[t].got \union {m.answer} \subseteq Answers
      BY <1>1, <1>3, TaskType
    <3>. QED
      BY <3>1 DEF TaskTypes
  <2>. HIDE DEF l
  <2>3. /\ tasks' \in [Tasks -> TaskTypes] /\ tasks'[t] = l
        /\ \A x \in Tasks \ {t} : tasks'[x] = tasks[x]
    BY <1>1, <1>3, <2>1, <2>2
  <2>4. ASSUME NEW x \in Tasks \ {t} PROVE Goes(x)
    <3>1. \A n : n.task = x => (n \in net' <=> n \in net)
      BY <1>1
    <3>. QED
      BY <2>3, <3>1, Stays
  <2>5. Goes(t)
    <3>. DEFINE f == [x \in net \ {m} |-> x]
    <3>1. net' = {f[x] : x \in net \ {m}} \union {} /\ \A x \in net \ {m} : f[x] = x
      BY <1>1
    <3>. HIDE DEF f
    <3>2. Same(t)
      BY <2>2, <2>3 DEF Same
    <3>3. GotFrom(t) /\ m.answer.url \in UrlsOf(tasks'[t].got)
      BY <1>1, <2>2, <2>3 DEF GotFrom, UrlsOf
    <3>. QED
      BY <1>3, <3>1, <3>2, <3>3, Carried
  <2>. QED
    BY <1>3, <2>3, <2>4, <2>5 DEF AllMoved, Moved
<1>. QED
  BY <1>1, <1>2, <1>3

(* A write is acknowledged, or a session is refused.                        *)
LEMMA WrittenMoves ==
  ASSUME Typed, NEW m \in net, NEW b, ClearCaches(net \ {m}, {b}), tasks' = Aged(tasks),
         b.task = m.task, Stands(b, m)
  PROVE  AllMoved
<1>1. tasks' \in [Tasks -> TaskTypes]
  BY AgedTasks
<1>2. ASSUME NEW t \in Tasks PROVE Goes(t)
  <2>1. Exchanged(net \ {m}, {b}, t)
    BY DEF Exchanged
  <2>2. PICK rest : rest = net \ {m}
    OBVIOUS
  <2>3. ClearCaches(rest, {b}) /\ Exchanged(rest, {b}, t)
    BY <2>1, <2>2, Zenon
  <2>4. rest \subseteq net /\ tasks'[t] = Aged(tasks)[t]
    BY <2>2
  <2>. QED
    BY <2>3, <2>4, Ages
<1>. QED
  BY <1>1, <1>2 DEF AllMoved, Moved

(* Whatever arrives.                                                        *)
LEMMA ReceiveMoves ==
  ASSUME Typed, Owned, NEW m \in net, Receive(m)
  PROVE  AllMoved
<1>1. CASE ReceiveWritten(m)
  <2>. DEFINE b == [m EXCEPT !.code = "body", !.cookie = 0]
  <2>1. ClearCaches(net \ {m}, {b}) /\ tasks' = Aged(tasks)
    BY <1>1 DEF ReceiveWritten
  <2>2. b.task = m.task /\ b.answer = m.answer
    BY MessageType DEF Messages
  <2>. HIDE DEF b
  <2>. QED
    BY <2>1, <2>2, WrittenMoves DEF Stands
<1>2. CASE HandleUnauthorized(m)
  <2>1. PICK b : b = Request(m.task, Plain("status"))
    OBVIOUS
  <2>2. ClearCaches(net \ {m}, {b}) /\ tasks' = Aged(tasks) /\ m.code = "unauthorized"
    BY <1>2, <2>1 DEF HandleUnauthorized
  <2>3. b.task = m.task /\ b.answer.url = Plain("status")
    BY <2>1, RequestType, PlainUrls, MessageType
  <2>4. m.answer.url.path \notin Public
    BY <2>2 DEF Owned, MessageTrue
  <2>. QED
    BY <2>2, <2>3, <2>4, WrittenMoves DEF Stands
<1>3. CASE ReceiveStatus(m)
  <2>1. CASE \E u : Fail(m, u)
    BY <2>1, FailMoves
  <2>2. CASE ~AfterUnauthorized(m) /\ net' = net \ {m} /\ UNCHANGED tasks
    <3>1. m.task \in Tasks => tasks[m.task].await = "status"
      BY <1>3, <2>2, Types DEF ReceiveStatus, AfterUnauthorized, AwaitOf
    <3>. QED
      BY <2>2, <3>1, TakenMoves
  <2>. QED
    BY <1>3, <2>1, <2>2 DEF ReceiveStatus
<1>4. CASE ReceiveData(m)
  BY <1>4, DataMoves
<1>5. CASE ReceiveBody(m)
  <2>1. net' = net \ {m} /\ tasks' = tasks /\ m.answer.url.path \in Writes
    BY <1>5 DEF ReceiveBody, Owned, MessageTrue
  <2>. QED
    BY <2>1, TakenMoves
<1>6. CASE ReceiveFailure(m)
  <2>1. CASE AwaitOf(m) = "logout" /\ LogOut(m.task, net \ {m})
    <3>1. m.task \in Tasks /\ tasks[m.task].await = "logout"
      BY <2>1, MessageType DEF AwaitOf
    <3>2. Alone(m.task)
      BY <3>1 DEF Owned, TaskOwn
    <3>3. PICK rest : rest = net \ {m}
      OBVIOUS
    <3>4. LogOut(m.task, rest)
      BY <2>1, <3>3, Zenon
    <3>5. /\ rest \subseteq net /\ (\A x \in rest : x.task # m.task)
          /\ \A x \in net \ rest : x.task = m.task
      BY <3>2, <3>3 DEF Alone
    <3>. QED
      BY <3>1, <3>4, <3>5, LogOutMoves
  <2>2. CASE Fail(m, ui)
    BY <2>2, FailMoves
  <2>. QED
    BY <1>6, <2>1, <2>2 DEF ReceiveFailure
<1>. QED
  BY <1>1, <1>2, <1>3, <1>4, <1>5, <1>6 DEF Receive

(* So every step moves every handler in one of these ways.                  *)
LEMMA TasksMove ==
  ASSUME Typed, Owned, [Next]_vars
  PROVE  AllMoved
<1>1. CASE Rest
  <2>1. \A t \in Tasks : Goes(t)
    BY <1>1, Stays DEF Rest
  <2>. QED
    BY <1>1, <2>1, Types DEF Rest, AllMoved, Moved
<1>2. ASSUME NEW t \in Tasks, NoneOf(t), LoggedOut(t) PROVE AllMoved
  BY <1>2, LogOutMoves DEF LoggedOut, NoneOf
<1>. QED
  BY <1>1, <1>2, Moves, BeginsMoves, EndsMoves, LoginMoves, ServeMoves, ReceiveMoves

(* So the messages and the tasks stay matched.                             *)
LEMMA MeetsStay ==
  ASSUME Owned, AllMoved, NEW n \in net'
  PROVE  MessageMeets(n)'
<1>. SUFFICES ASSUME n.task \in Tasks
     PROVE  LET k == tasks'[n.task]
            IN  /\ k.await # "idle"
                /\ k.await = "stats" => n.answer.url \in StatsUrls(k) \union {Plain("status")}
                /\ k.await = "logout" => n.answer.url.path = "logout"
  BY DEF MessageMeets
<1>. DEFINE t == n.task
<1>1. CASE Goes(t)
  <2>1. PICK m \in net : m.task = t /\ Stands(n, m)
    BY <1>1 DEF Goes
  <2>2. MessageMeets(m)
    BY DEF Owned
  <2>3. /\ tasks'[t].await = tasks[t].await
        /\ StatsUrls(tasks'[t]) = StatsUrls(tasks[t])
    BY <1>1 DEF Goes, Same, StatsUrls
  <2>4. "logout" \in Public
    BY DEF Public
  <2>. QED
    BY <2>1, <2>2, <2>3, <2>4 DEF MessageMeets, Stands
<1>2. CASE Begun(t)
  BY <1>2 DEF Begun, WellBegun, Plain, Url
<1>3. CASE AsksStatus(t)
  BY <1>3 DEF AsksStatus
<1>4. CASE Over(t)
  BY <1>4 DEF Over
<1>. QED
  BY <1>1, <1>2, <1>3, <1>4 DEF AllMoved, Moved

(* A handler keeps what it needs to go on.                                  *)
LEMMA TasksStay ==
  ASSUME Typed, Owned, AllMoved, NEW t \in Tasks
  PROVE  TaskOwn(t)'
<1>. DEFINE k == tasks[t]
            l == tasks'[t]
<1>. SUFFICES /\ l.await \in {"stats", "details"} => Querying(l)
              /\ l.await = "stats" =>
                   /\ UrlsOf(l.got) \subseteq StatsUrls(l)
                   /\ \/ \E n \in net' : n.task = t /\ n.answer.url = Plain("status")
                      \/ \A u \in StatsUrls(l) \ UrlsOf(l.got) :
                           \E n \in net' : n.task = t /\ n.answer.url = u
              /\ l.await = "details" => l.parts = StatsUrls(l)
              /\ l.await = "logout" => Alone(t)'
              /\ l.kind = "save" => l.source \in Sources
  BY DEF TaskOwn
<1>0. TaskOwn(t)
  BY DEF Owned
<1>1. CASE Goes(t)
  <2>1. /\ l.await = k.await /\ l.kind = k.kind /\ l.source = k.source /\ l.parts = k.parts
        /\ StatsUrls(l) = StatsUrls(k) /\ (Querying(l) <=> Querying(k))
    BY <1>1 DEF Goes, Same, StatsUrls, Querying
  <2>2. l.await = "logout" => Alone(t)'
    BY <1>0, <1>1, <2>1 DEF TaskOwn, Goes
  <2>3. ASSUME l.await = "stats"
        PROVE  /\ UrlsOf(l.got) \subseteq StatsUrls(l)
               /\ \/ \E n \in net' : n.task = t /\ n.answer.url = Plain("status")
                  \/ \A u \in StatsUrls(l) \ UrlsOf(l.got) :
                       \E n \in net' : n.task = t /\ n.answer.url = u
    <3>0. /\ k.await = "stats" /\ Querying(k) /\ UrlsOf(k.got) \subseteq StatsUrls(k)
          /\ \/ \E m \in net : m.task = t /\ m.answer.url = Plain("status")
             \/ \A u \in StatsUrls(k) \ UrlsOf(k.got) : \E m \in net : m.task = t /\ m.answer.url = u
      BY <1>0, <2>1, <2>3 DEF TaskOwn
    <3>1. /\ \A m \in net : m.task = t => m.answer.url \in StatsUrls(k) \union {Plain("status")}
          /\ Plain("status").path = "status"
          /\ \A u \in StatsUrls(k) : u.path \in {"summary", "charts"}
      BY <3>0, PlainUrls, QueryUrls DEF Owned, MessageMeets
    <3>2. UrlsOf(l.got) \subseteq StatsUrls(l)
      BY <1>1, <2>1, <3>0, <3>1 DEF Goes, GotFrom
    <3>3. \A m \in net : m.task = t =>
            \/ \E n \in net' : n.task = t /\ Stands(n, m)
            \/ m.answer.url \in UrlsOf(l.got)
      <4>1. \A m \in net : m.task = t => m.answer.url.path \notin Writes
        BY <3>1 DEF Writes
      <4>. QED
        BY <1>1, <3>0, <4>1 DEF Goes
    <3>4. CASE \E m \in net : m.task = t /\ m.answer.url = Plain("status")
      <4>1. Plain("status") \notin UrlsOf(l.got)
        BY <2>1, <3>1, <3>2
      <4>. QED
        BY <3>2, <3>3, <3>4, <4>1 DEF Stands
    <3>5. CASE \A u \in StatsUrls(k) \ UrlsOf(k.got) : \E m \in net : m.task = t /\ m.answer.url = u
      <4>1. UrlsOf(k.got) \subseteq UrlsOf(l.got)
        BY <1>1 DEF Goes, GotFrom
      <4>. QED
        BY <2>1, <3>2, <3>3, <3>5, <4>1 DEF Stands
    <3>. QED
      BY <3>0, <3>4, <3>5
  <2>. QED
    BY <1>0, <2>1, <2>2, <2>3 DEF TaskOwn
<1>2. CASE Begun(t)
  <2>1. PICK urls \in SUBSET Urls :
          /\ WellBegun(l, urls) /\ UrlsOf(l.got) \subseteq urls
          /\ \A u \in urls \ UrlsOf(l.got) : \E n \in net' : n.task = t /\ n.answer.url = u
          /\ l.await = "logout" => Alone(t)'
    BY <1>2 DEF Begun
  <2>. QED
    BY <2>1 DEF WellBegun
<1>3. CASE AsksStatus(t)
  BY <1>0, <1>3 DEF AsksStatus, TaskOwn
<1>4. CASE Over(t)
  BY <1>4 DEF Over, NoTask
<1>. QED
  BY <1>1, <1>2, <1>3, <1>4 DEF AllMoved, Moved

-----------------------------------------------------------------------------
(* What becomes of the caches.                                             *)

LEMMA CachesChange ==
  ASSUME [Next]_vars
  PROVE  /\ \/ bundledQueryCache' \in {bundledQueryCache, {}}
            \/ \E t \in Tasks : Ready(t) /\ Bundle(t)
         /\ \/ queryCache' \in {queryCache, {}}
            \/ \E m \in net : ReceiveData(m)
<1>1. ASSUME NEW t \in Tasks, User(t)
      PROVE  bundledQueryCache' = bundledQueryCache /\ queryCache' = queryCache
  BY <1>1 DEF User, Search, PreviousPage, NextPage, RunQuery, RefreshSources, ScanLocalConfigs,
     SaveSource, DeleteSource, Login, Logout, Write, caches
<1>2. ASSUME NEW t \in Tasks, Continue(t)
      PROVE  /\ bundledQueryCache' \in {bundledQueryCache, {}} \/ (Ready(t) /\ Bundle(t))
             /\ queryCache' \in {queryCache, {}}
  BY <1>2 DEF Continue, Bundle, ShowQuery, ShowList, Tested, Written, LoggedIn, StatusKnown,
     LoggedOut, LogOut, ClearCaches, Cleared, caches
<1>3. ASSUME NEW m \in net, Serve(m) \/ Receive(m)
      PROVE  /\ bundledQueryCache' \in {bundledQueryCache, {}}
             /\ queryCache' \in {queryCache, {}} \/ ReceiveData(m)
  BY <1>3 DEF Serve, Receive, ReceiveWritten, HandleUnauthorized, ReceiveStatus, ReceiveData,
     ReceiveBody, ReceiveFailure, LogOut, ClearCaches, Cleared, caches
<1>4. CASE Reset \/ RestoreFilter \/ Elsewhere \/ UNCHANGED vars \/ \E s \in Sources : Select(s)
  BY <1>4 DEF Reset, RestoreFilter, Elsewhere, Select, caches, vars
<1>. QED
  BY <1>1, <1>2, <1>3, <1>4 DEF Next

(* A bundle holds the answers to the queries that its key stands for.       *)
LEMMA BundlesStay ==
  ASSUME Owned, [Next]_vars
  PROVE  BundlesOwn'
<1>. SUFFICES ASSUME NEW b \in bundledQueryCache', NEW q \in Queries, b.key = BundleKey(q)
     PROVE  UrlsOf(b.answers) = StatsUrls(q)
  BY DEF BundlesOwn
<1>1. CASE b \in bundledQueryCache
  BY <1>1 DEF Owned, BundlesOwn
<1>2. ASSUME NEW t \in Tasks, Ready(t), Bundle(t), b \notin bundledQueryCache
      PROVE  UrlsOf(b.answers) = StatsUrls(q)
  <2>1. b = [key |-> BundleKey(tasks[t]), answers |-> tasks[t].got] /\ tasks[t].await = "stats"
    BY <1>2 DEF Bundle
  <2>2. UrlsOf(tasks[t].got) = StatsUrls(tasks[t])
    BY <1>2, <2>1, GotAll
  <2>3. tasks[t].source = q.source /\ tasks[t].filter = q.filter
    BY <2>1 DEF BundleKey
  <2>. QED
    BY <2>1, <2>2, <2>3 DEF StatsUrls
<1>. QED
  BY <1>1, <1>2, CachesChange

(* Messages, handlers and bundles stay matched.                             *)
LEMMA OwnedStep ==
  ASSUME Typed, Owned, [Next]_vars
  PROVE  Owned'
<1>1. AllMoved
  BY TasksMove
<1>2. \A n \in net' : MessageTrue(n)' /\ MessageMeets(n)'
  BY <1>1, NewMessages, MeetsStay
<1>3. \A t \in Tasks : TaskOwn(t)'
  BY <1>1, TasksStay
<1>4. (floor =< version)'
  <2>1. /\ version \in Nat /\ version' \in Nat /\ version =< version' /\ floor \in Nat
        /\ floor' = floor \/ \E m \in net : ReceiveWritten(m)
    BY Later, Types, ClientAssumption
  <2>2. CASE floor' = floor
    BY <2>1, <2>2 DEF Owned
  <2>3. ASSUME NEW m \in net, ReceiveWritten(m) PROVE floor' =< version'
    <3>1. m.answer.at \in Nat /\ m.answer.at =< version
      BY MessageType, ClientAssumption DEF Owned, MessageTrue
    <3>2. floor' \in {m.answer.at, floor} /\ floor =< version
      BY <2>3 DEF ReceiveWritten, Owned
    <3>. QED
      BY <2>1, <3>1, <3>2
  <2>. QED
    BY <2>1, <2>2, <2>3
<1>. QED
  BY <1>2, <1>3, <1>4, BundlesStay DEF Owned

(* Answers in the caches, and those that tasks hold, are new enough.       *)
FollowWrites ==
  CachesFollowWrites /\ \A t \in Tasks : \A a \in tasks[t].got : NewEnough(a)

(* Where a new answer comes from.                                          *)
Fresh(a) ==
  \/ a \in queryCache
  \/ \E m \in net : a = m.answer /\ m.code = "ok" /\ m.answer.url.path \notin Public

(* What a handler has got anew is late, or was in queryCache, or arrived.   *)
LEMMA NewAnswers ==
  ASSUME Typed, Owned, [Next]_vars, NEW t \in Tasks, NEW a \in tasks'[t].got
  PROVE  a.late \/ (floor' = floor /\ (a \in tasks[t].got \/ Fresh(a)))
<1>. DEFINE Ok == a.late \/ (floor' = floor /\ (a \in tasks[t].got \/ Fresh(a)))
<1>0. /\ \A x \in Tasks : Aged(tasks)[x].got = Late(tasks[x].got)
      /\ \A x \in Tasks : \A y \in Late(tasks[x].got) : y.late
      /\ Aged(tasks) \in [Tasks -> TaskTypes] /\ tasks \in [Tasks -> TaskTypes]
      /\ NoTask.got = {}
  BY AgedTasks, LateAnswers, TaskType, Types DEF NoTask
<1>1. ASSUME Rest, floor' = floor PROVE Ok
  BY <1>1 DEF Rest
<1>2. ASSUME NEW u \in Tasks, Begins(u), floor' = floor PROVE Ok
  <2>1. PICK k \in TaskTypes, urls \in SUBSET Urls : Await(u, k, urls)
    BY <1>2 DEF Begins
  <2>2. PICK hits \in SUBSET queryCache, l \in TaskTypes :
          l.got = hits /\ tasks' = [tasks EXCEPT ![u] = l]
    BY <2>1, Awaiting
  <2>. QED
    BY <1>0, <1>2, <2>2 DEF Fresh
<1>3. ASSUME NEW u \in Tasks, Ends(u), floor' = floor PROVE Ok
  BY <1>0, <1>3 DEF Ends, End
<1>4. ASSUME tasks' = Aged(tasks) PROVE Ok
  BY <1>0, <1>4
<1>5. ASSUME NEW u \in Tasks, NEW rest, LoggedIn(u) \/ LogOut(u, rest) PROVE Ok
  <2>1. CASE LoggedIn(u)
    <3>1. tasks' = [Aged(tasks) EXCEPT ![u].await = "status"]
      BY <2>1 DEF LoggedIn
    <3>2. tasks'[t].got = Aged(tasks)[t].got
      BY <1>0, <3>1 DEF TaskTypes
    <3>. QED
      BY <1>0, <3>2
  <2>2. CASE LogOut(u, rest)
    <3>1. tasks' = [Aged(tasks) EXCEPT ![u] = NoTask]
      BY <2>2 DEF LogOut
    <3>2. tasks'[t].got \in {Aged(tasks)[t].got, {}}
      BY <1>0, <3>1
    <3>. QED
      BY <1>0, <3>2
  <2>. QED
    BY <1>5, <2>1, <2>2
<1>6. ASSUME NEW m \in net, NEW u, Fail(m, u), floor' = floor PROVE Ok
  <2>1. tasks' = tasks \/ tasks' = [tasks EXCEPT ![m.task] = NoTask]
    BY <1>6 DEF Fail
  <2>. QED
    BY <1>0, <1>6, <2>1
<1>7. ASSUME NEW m \in net, ReceiveData(m) PROVE Ok
  <2>1. /\ tasks' = IF m.task = None THEN tasks
                    ELSE [tasks EXCEPT ![m.task].got = @ \union {m.answer}]
        /\ m.code = "ok" /\ m.answer.url.path \notin Public /\ floor' = floor
    BY <1>7 DEF ReceiveData, Writes, Public
  <2>2. tasks'[t].got \subseteq tasks[t].got \union {m.answer}
    BY <1>0, <2>1 DEF TaskTypes
  <2>. QED
    BY <2>1, <2>2 DEF Fresh
<1>8. ASSUME NEW m \in net, Receive(m) PROVE Ok
  <2>1. CASE ReceiveWritten(m) \/ HandleUnauthorized(m)
    BY <1>4, <2>1 DEF ReceiveWritten, HandleUnauthorized
  <2>2. CASE ReceiveStatus(m)
    BY <1>6, <2>2 DEF ReceiveStatus
  <2>3. CASE ReceiveBody(m)
    BY <2>3 DEF ReceiveBody
  <2>4. CASE ReceiveFailure(m)
    <3>1. AwaitOf(m) = "logout" => m.task \in Tasks
      BY MessageType DEF AwaitOf
    <3>. QED
      BY <1>5, <1>6, <2>4, <3>1 DEF ReceiveFailure
  <2>. QED
    BY <1>7, <1>8, <2>1, <2>2, <2>3, <2>4 DEF Receive
<1>9. ASSUME NEW m \in net, Serve(m) PROVE Ok
  BY <1>9 DEF Serve
<1>10. Ok
  BY <1>1, <1>2, <1>3, <1>5, <1>8, <1>9, Moves DEF LoggedOut
<1>. QED
  BY <1>10

(* No step makes an old answer pass for a new one.                          *)
LEMMA FollowsStep ==
  ASSUME Typed, Owned, FollowWrites, [Next]_vars
  PROVE  FollowWrites'
<1>1. ASSUME NEW a, Fresh(a) PROVE NewEnough(a)
  <2>1. CASE a \in queryCache
    BY <2>1 DEF FollowWrites, CachesFollowWrites, NewEnough
  <2>2. ASSUME NEW m \in net, a = m.answer, m.code = "ok", m.answer.url.path \notin Public
        PROVE  NewEnough(a)
    BY <2>2 DEF Owned, MessageTrue
  <2>. QED
    BY <1>1, <2>1, <2>2 DEF Fresh
<1>2. ASSUME NEW t \in Tasks, NEW a \in tasks'[t].got PROVE NewEnough(a)'
  <2>1. CASE a.late
    BY <2>1 DEF NewEnough
  <2>2. CASE floor' = floor /\ (a \in tasks[t].got \/ Fresh(a))
    <3>1. NewEnough(a)
      BY <1>1, <2>2 DEF FollowWrites
    <3>. QED
      BY <2>2, <3>1 DEF NewEnough
  <2>. QED
    BY <2>1, <2>2, NewAnswers
<1>3. CASE floor' = floor
  <2>1. ASSUME NEW a \in queryCache' PROVE NewEnough(a)
    <3>1. a \in queryCache \/ \E m \in net : ReceiveData(m) /\ a = m.answer
      BY CachesChange DEF ReceiveData
    <3>2. ASSUME NEW m \in net, ReceiveData(m), a = m.answer PROVE Fresh(a)
      BY <3>2 DEF ReceiveData, Fresh, Writes, Public
    <3>. QED
      BY <1>1, <3>1, <3>2 DEF Fresh
  <2>2. ASSUME NEW b \in bundledQueryCache', NEW a \in b.answers PROVE NewEnough(a)
    <3>1. CASE b \in bundledQueryCache
      BY <3>1 DEF FollowWrites, CachesFollowWrites, NewEnough
    <3>2. ASSUME NEW t \in Tasks, Bundle(t), b \notin bundledQueryCache PROVE NewEnough(a)
      <4>1. b.answers = tasks[t].got
        BY <3>2 DEF Bundle
      <4>. QED
        BY <4>1 DEF FollowWrites
    <3>. QED
      BY <3>1, <3>2, CachesChange
  <2>3. \A a \in queryCache' \union UNION {b.answers : b \in bundledQueryCache'} : NewEnough(a)
    BY <2>1, <2>2
  <2>. QED
    BY <1>2, <1>3, <2>3 DEF FollowWrites, CachesFollowWrites, NewEnough
<1>4. ASSUME NEW m \in net, ReceiveWritten(m) PROVE FollowWrites'
  <2>1. queryCache' = {} /\ bundledQueryCache' = {}
    BY <1>4 DEF ReceiveWritten, ClearCaches, Cleared
  <2>2. CachesFollowWrites'
    BY <2>1 DEF CachesFollowWrites
  <2>. QED
    BY <1>2, <2>2 DEF FollowWrites
<1>. QED
  BY <1>3, <1>4, Later

-----------------------------------------------------------------------------
(* Tokens.                                                                 *)

(* Requests that are carried over are no more than there were.             *)
LEMMA CarriedLogins ==
  ASSUME NEW S, IsFiniteSet(LoginsOf(S)), NEW R, NEW f,
         \A n \in LoginsOf(R) : \E x \in LoginsOf(S) : n = f[x]
  PROVE  IsFiniteSet(LoginsOf(R)) /\ Cardinality(LoginsOf(R)) =< Cardinality(LoginsOf(S))
<1>. DEFINE P == LoginsOf(S)
            Q == LoginsOf(R)
            back == {x \in P : f[x] \in Q}
            g == [x \in back |-> f[x]]
<1>1. IsFiniteSet(back) /\ Cardinality(back) =< Cardinality(P)
  BY FS_Subset
<1>2. g \in Surjection(back, Q)
  BY DEF Surjection
<1>3. IsFiniteSet(Q) /\ Cardinality(Q) =< Cardinality(back)
  BY <1>1, <1>2, FS_Surjection
<1>. QED
  BY <1>1, <1>3, FS_CardinalityType, FS_Subset

(* Handlers are counted up to their bound.                                 *)
LEMMA StartsCounted ==
  ASSUME Typed, [Next]_vars
  PROVE  /\ starts \in Nat /\ starts' \in 0 .. MaxStarts /\ starts =< starts'
<1>1. starts \in 0 .. MaxStarts /\ MaxStarts \in Nat
  BY ClientAssumption DEF Typed, TypeOK
<1>2. starts' = starts \/ (starts < MaxStarts /\ starts' = starts + 1)
  <2>1. ASSUME NEW t \in Tasks, User(t) PROVE starts' = starts \/ Counted
    BY <2>1 DEF User, Search, PreviousPage, NextPage, RefreshSources, ScanLocalConfigs,
       SaveSource, DeleteSource, Login, Logout, Write
  <2>2. \A t \in Tasks : Continue(t) => starts' = starts
    BY DEF Continue
  <2>3. \A m \in net : Serve(m) \/ Receive(m) => starts' = starts
    BY DEF Serve, Receive
  <2>. QED
    BY <2>1, <2>2, <2>3 DEF Next, vars, Select, Reset, RestoreFilter, Elsewhere, Counted
<1>. QED
  BY <1>1, <1>2

(* The requests under way are the old ones, carried over by f.             *)
CarriedBy(f) == \A n \in LoginsOf(net') : \E x \in net : n = f[x] /\ Copy(n, x)

(* If no login is added, none is missing from the count.                    *)
LEMMA NoLoginAdded ==
  ASSUME Typed, [Next]_vars, issued' = issued, NEW f, CarriedBy(f)
  PROVE  TokensCounted'
<1>1. \A n \in LoginsOf(net') : \E x \in LoginsOf(net) : n = f[x]
  BY DEF CarriedBy, Copy, LoginsOf
<1>2. IsFiniteSet(LoginsOf(net)) /\ issued + Cardinality(LoginsOf(net)) =< starts + 1
  BY DEF Typed, TokensCounted, Logins
<1>3. IsFiniteSet(LoginsOf(net')) /\ Cardinality(LoginsOf(net')) =< Cardinality(LoginsOf(net))
  BY <1>1, <1>2, CarriedLogins
<1>4. Cardinality(LoginsOf(net)) \in Nat /\ Cardinality(LoginsOf(net')) \in Nat
  BY <1>2, <1>3, FS_CardinalityType
<1>5. issued \in Nat /\ starts \in Nat /\ starts' \in Nat /\ starts =< starts'
  BY StartsCounted, Types, ClientAssumption
<1>6. issued' + Cardinality(LoginsOf(net')) =< starts' + 1
  BY <1>2, <1>3, <1>4, <1>5
<1>. QED
  BY <1>3, <1>6 DEF TokensCounted, Logins

(* A login that is set off is counted.                                      *)
LEMMA BeginsTokens ==
  ASSUME Typed, [Next]_vars, issued' = issued, NEW t \in Tasks, Begins(t)
  PROVE  TokensCounted'
<1>1. PICK k \in TaskTypes, urls \in SUBSET Urls : LoginCounts(urls) /\ Await(t, k, urls)
  BY DEF Begins
<1>2. \A n \in net' : n \in net \/ \E u \in urls : n = Request(t, u)
  BY <1>1, Awaiting
<1>3. CASE \A u \in urls : u.path # "login"
  <2>. DEFINE f == [x \in net |-> x]
  <2>1. \A n \in LoginsOf(net') : n \in net
    <3>1. \A u \in urls : Request(t, u).answer.url = u
      BY RequestType
    <3>. QED
      BY <1>2, <1>3, <3>1 DEF LoginsOf
  <2>2. \A x \in net : f[x] = x /\ Copy(x, x)
    BY MessageType, SelfCopy
  <2>. HIDE DEF f
  <2>3. CarriedBy(f)
    BY <2>1, <2>2 DEF CarriedBy
  <2>. QED
    BY <2>3, NoLoginAdded
<1>4. ASSUME NEW u, urls = {u}, starts' = starts + 1 PROVE TokensCounted'
  <2>. DEFINE P == LoginsOf(net)
              r == Request(t, u)
  <2>1. LoginsOf(net') \subseteq P \union {r}
    BY <1>2, <1>4 DEF LoginsOf
  <2>2. IsFiniteSet(P) /\ issued + Cardinality(P) =< starts + 1
    BY DEF Typed, TokensCounted, Logins
  <2>. HIDE DEF P, r
  <2>3. /\ IsFiniteSet(P \union {r})
        /\ Cardinality(P \union {r}) = IF r \in P THEN Cardinality(P) ELSE Cardinality(P) + 1
    BY <2>2, FS_AddElement
  <2>4. /\ IsFiniteSet(LoginsOf(net')) /\ Cardinality(LoginsOf(net')) =< Cardinality(P \union {r})
    BY <2>1, <2>3, FS_Subset
  <2>5. /\ Cardinality(P) \in Nat /\ Cardinality(LoginsOf(net')) \in Nat
        /\ Cardinality(P \union {r}) \in Nat
        /\ issued \in Nat /\ starts \in Nat
    BY <2>2, <2>3, <2>4, FS_CardinalityType, StartsCounted, Types
  <2>6. issued' + Cardinality(LoginsOf(net')) =< starts' + 1
    BY <1>4, <2>2, <2>3, <2>4, <2>5
  <2>. QED
    BY <2>4, <2>6 DEF TokensCounted, Logins
<1>. QED
  BY <1>1, <1>3, <1>4 DEF LoginCounts

(* A login that is served turns from a request into a token.                *)
LEMMA ServeTokens ==
  ASSUME Typed, Owned, [Next]_vars, NEW m \in net, Serve(m)
  PROVE  TokensCounted'
<1>. DEFINE P == LoginsOf(net)
<1>1. PICK a \in Messages : net' = (net \ {m}) \union {a} /\ a.code \in {"ok", "unauthorized"}
  BY Serves
<1>2. LoginsOf(net') \subseteq P \ {m}
  BY <1>1 DEF LoginsOf
<1>3. IsFiniteSet(P) /\ issued + Cardinality(P) =< starts + 1
  BY DEF Typed, TokensCounted, Logins
<1>4. issued' = issued \/ (m \in P /\ issued' = issued + 1)
  BY DEF Serve, Effect, IssueToken, server, sessions, LoginsOf
<1>. HIDE DEF P
<1>5. /\ IsFiniteSet(P \ {m})
      /\ Cardinality(P \ {m}) = IF m \in P THEN Cardinality(P) - 1 ELSE Cardinality(P)
  BY <1>3, FS_RemoveElement
<1>6. IsFiniteSet(LoginsOf(net')) /\ Cardinality(LoginsOf(net')) =< Cardinality(P \ {m})
  BY <1>2, <1>5, FS_Subset
<1>7. /\ Cardinality(P) \in Nat /\ Cardinality(P \ {m}) \in Nat
      /\ Cardinality(LoginsOf(net')) \in Nat
      /\ issued \in Nat /\ starts \in Nat /\ starts' \in Nat /\ starts =< starts'
  BY <1>3, <1>5, <1>6, FS_CardinalityType, StartsCounted, Types, ClientAssumption
<1>8. issued' + Cardinality(LoginsOf(net')) =< starts' + 1
  BY <1>3, <1>4, <1>5, <1>6, <1>7
<1>. QED
  BY <1>6, <1>8 DEF TokensCounted, Logins

(* Clearing the caches adds no login, if what is new is none.              *)
LEMMA ClearsTokens ==
  ASSUME Typed, [Next]_vars, issued' = issued, NEW rest, rest \subseteq net, NEW new,
         ClearCaches(rest, new), LoginsOf(new) = {}
  PROVE  TokensCounted'
<1>. DEFINE f == [x \in net |-> LateOf(x)]
<1>1. \A x \in rest : f[x] = LateOf(x)
  OBVIOUS
<1>. HIDE DEF f
<1>2. \A n \in LoginsOf(net') : n \in net' /\ n \notin new
  BY DEF LoginsOf
<1>3. CarriedBy(f)
  BY <1>1, <1>2, Clears DEF CarriedBy
<1>. QED
  BY <1>3, NoLoginAdded

(* Messages that are gone do not count.                                     *)
LEMMA LostTokens ==
  ASSUME Typed, [Next]_vars, issued' = issued, net' \subseteq net
  PROVE  TokensCounted'
<1>. DEFINE f == [x \in net |-> x]
<1>1. \A x \in net : f[x] = x /\ Copy(x, x)
  BY MessageType, SelfCopy
<1>. HIDE DEF f
<1>2. CarriedBy(f)
  BY <1>1 DEF CarriedBy, LoginsOf
<1>. QED
  BY <1>2, NoLoginAdded

(* Messages that become nobody's are no more than before.                   *)
LEMMA FailTokens ==
  ASSUME Typed, [Next]_vars, issued' = issued, NEW m \in net, NEW u, Fail(m, u)
  PROVE  TokensCounted'
<1>1. CASE net' = net \ {m}
  BY <1>1, LostTokens
<1>2. CASE net' = Orphaned(net \ {m}, m.task)
  <2>. DEFINE f == [x \in net |-> IF x.task = m.task THEN [x EXCEPT !.task = None] ELSE x]
  <2>1. \A n \in net' : \E x \in net : n = f[x]
    BY <1>2 DEF Orphaned
  <2>2. \A x \in net : Copy(f[x], x)
    BY MessageType, OrphanCopy, SelfCopy
  <2>. HIDE DEF f
  <2>3. CarriedBy(f)
    BY <2>1, <2>2 DEF CarriedBy, LoginsOf
  <2>. QED
    BY <2>3, NoLoginAdded
<1>. QED
  BY <1>1, <1>2 DEF Fail

(* So there are never more tokens than logins.                              *)
LEMMA TokensStep ==
  ASSUME Typed, Owned, [Next]_vars
  PROVE  TokensCounted'
<1>1. CASE \E m \in net : Serve(m)
  BY <1>1, ServeTokens
<1>2. ASSUME issued' = issued, NEW m \in net, Receive(m) PROVE TokensCounted'
  <2>1. CASE ReceiveWritten(m)
    <3>. DEFINE b == [m EXCEPT !.code = "body", !.cookie = 0]
    <3>1. PICK rest : rest = net \ {m} /\ ClearCaches(rest, {b})
      BY <2>1 DEF ReceiveWritten
    <3>2. b.code = "body"
      BY MessageType DEF Messages
    <3>. HIDE DEF b
    <3>3. LoginsOf({b}) = {} /\ rest \subseteq net
      BY <3>1, <3>2 DEF LoginsOf
    <3>. QED
      BY <1>2, <3>1, <3>3, ClearsTokens
  <2>2. CASE HandleUnauthorized(m)
    <3>1. PICK rest, b : rest = net \ {m} /\ b = Request(m.task, Plain("status"))
      OBVIOUS
    <3>2. ClearCaches(rest, {b})
      BY <2>2, <3>1, Zenon DEF HandleUnauthorized
    <3>3. b.answer.url.path = "status"
      BY <3>1, RequestType, PlainUrls, MessageType
    <3>4. LoginsOf({b}) = {} /\ rest \subseteq net
      BY <3>1, <3>3 DEF LoginsOf
    <3>. QED
      BY <1>2, <3>2, <3>4, ClearsTokens
  <2>3. CASE ReceiveStatus(m) \/ ReceiveData(m) \/ ReceiveBody(m)
    <3>1. net' = net \ {m} \/ \E u : Fail(m, u)
      BY <2>3 DEF ReceiveStatus, ReceiveData, ReceiveBody
    <3>. QED
      BY <1>2, <3>1, LostTokens, FailTokens
  <2>4. CASE ReceiveFailure(m)
    <3>1. CASE Fail(m, ui)
      BY <1>2, <3>1, FailTokens
    <3>2. CASE LogOut(m.task, net \ {m})
      <4>1. PICK rest : rest = net \ {m}
        OBVIOUS
      <4>2. ClearCaches(rest, {}) /\ rest \subseteq net /\ LoginsOf({}) = {}
        BY <3>2, <4>1 DEF LogOut, LoginsOf
      <4>. QED
        BY <1>2, <4>2, ClearsTokens
    <3>. QED
      BY <2>4, <3>1, <3>2 DEF ReceiveFailure
  <2>. QED
    BY <1>2, <2>1, <2>2, <2>3, <2>4 DEF Receive
<1>3. CASE issued' = issued /\ Rest
  BY <1>3, LostTokens DEF Rest
<1>4. ASSUME issued' = issued, NEW t \in Tasks,
             Begins(t) \/ Ends(t) \/ LoggedIn(t) \/ LoggedOut(t)
      PROVE  TokensCounted'
  <2>1. CASE Begins(t)
    BY <1>4, <2>1, BeginsTokens
  <2>2. CASE Ends(t)
    BY <1>4, <2>2, LostTokens DEF Ends, End
  <2>3. CASE LoggedIn(t)
    <3>1. PICK b : b = Request(t, Plain("status"))
      OBVIOUS
    <3>2. ClearCaches(net, {b})
      BY <2>3, <3>1, Zenon DEF LoggedIn
    <3>3. b.answer.url.path = "status"
      BY <3>1, RequestType, PlainUrls
    <3>4. LoginsOf({b}) = {}
      BY <3>3 DEF LoginsOf
    <3>. QED
      BY <1>4, <3>2, <3>4, ClearsTokens
  <2>4. CASE LoggedOut(t)
    <3>1. ClearCaches(net, {}) /\ LoginsOf({}) = {}
      BY <2>4 DEF LoggedOut, LogOut, LoginsOf
    <3>. QED
      BY <1>4, <3>1, ClearsTokens
  <2>. QED
    BY <1>4, <2>1, <2>2, <2>3, <2>4
<1>5. issued' = issued \/ \E m \in net : Serve(m)
  BY Frame DEF Elsewhere, sessions, Receive
<1>. QED
  BY <1>1, <1>2, <1>3, <1>4, <1>5, Moves

-----------------------------------------------------------------------------
(* What becomes of the page.                                               *)

Pending(k) == k.await \in {"stats", "details"}

(* The page is as it should be, and the charts do not begin to load unless *)
(* a query does.                                                           *)
PageStep ==
  /\ Page(ui', auth')
  /\ ui'.charts = Loading => ui.charts = Loading \/ \E t \in Tasks : Pending(tasks'[t])

(* The page number, and charts that load, disturb nothing.                  *)
LEMMA PagedPage ==
  ASSUME NEW a, NEW u, Page(u, a), NEW n \in 1 .. MaxPage
  PROVE  /\ Page([u EXCEPT !.page = n], a) /\ [u EXCEPT !.page = n].charts = u.charts
         /\ Page([u EXCEPT !.page = n, !.charts = Loading], a)
<1>. DEFINE v == [u EXCEPT !.page = n]
            w == [u EXCEPT !.page = n, !.charts = Loading]
<1>1. /\ v \in UiTypes /\ v.visible = u.visible /\ v.gate = u.gate /\ v.cards = u.cards
      /\ v.details = u.details /\ v.charts = u.charts /\ v.summary = u.summary
  BY DEF Page, UiTypes
<1>2. /\ w \in UiTypes /\ w.visible = u.visible /\ w.gate = u.gate /\ w.cards = u.cards
      /\ w.details = u.details /\ w.charts = Loading /\ w.summary = u.summary
  BY DEF Page, UiTypes, Panels
<1>. HIDE DEF v, w
<1>3. Page(v, a)
  BY <1>1 DEF Page, Agree, Gated
<1>4. Page(w, a)
  BY <1>2, NotAUrl DEF Page, Agree, Gated
<1>. QED
  BY <1>1, <1>3, <1>4 DEF v, w

(* Nor does the selected source.                                            *)
LEMMA SourcedPage ==
  ASSUME NEW a, NEW u, Page(u, a), NEW s \in Sources \union {None}
  PROVE  Page([u EXCEPT !.source = s], a) /\ [u EXCEPT !.source = s].charts = u.charts
<1>. DEFINE v == [u EXCEPT !.source = s]
<1>1. /\ v \in UiTypes /\ v.visible = u.visible /\ v.gate = u.gate /\ v.cards = u.cards
      /\ v.details = u.details /\ v.charts = u.charts /\ v.summary = u.summary
  BY DEF Page, UiTypes
<1>. HIDE DEF v
<1>2. Page(v, a)
  BY <1>1 DEF Page, Agree, Gated
<1>. QED
  BY <1>1, <1>2 DEF v

(* What the user does to the page.                                          *)
LEMMA UserPage ==
  ASSUME Typed, Owned, NEW t \in Tasks, User(t)
  PROVE  PageStep
<1>0. Page(ui, auth) /\ ui.page \in 1 .. MaxPage
  BY DEF Typed, Page, UiTypes
<1>1. auth' = auth
  BY DEF User, Search, PreviousPage, NextPage, RunQuery, RefreshSources, ScanLocalConfigs,
     SaveSource, DeleteSource, Login, Logout, Write
<1>2. ASSUME NEW f \in Filters, NEW n \in 1 .. MaxPage, RunQuery(t, f, n) PROVE PageStep
  <2>1. \/ ui' = [ui EXCEPT !.page = n]
        \/ Pending(tasks'[t]) /\ ui' = [ui EXCEPT !.page = n, !.charts = Loading]
    BY <1>2, QueryBegins DEF Pending
  <2>2. CASE ui' = [ui EXCEPT !.page = n]
    <3>1. PICK v : v = [ui EXCEPT !.page = n] /\ Page(v, auth) /\ v.charts = ui.charts
      BY <1>0, PagedPage
    <3>. QED
      BY <1>1, <2>2, <3>1 DEF PageStep
  <2>3. CASE Pending(tasks'[t]) /\ ui' = [ui EXCEPT !.page = n, !.charts = Loading]
    <3>1. PICK v : v = [ui EXCEPT !.page = n, !.charts = Loading] /\ Page(v, auth)
      BY <1>0, PagedPage
    <3>. QED
      BY <1>1, <2>3, <3>1 DEF PageStep
  <2>. QED
    BY <2>1, <2>2, <2>3
<1>3. CASE Search(t) \/ PreviousPage(t) \/ NextPage(t)
  <2>1. /\ 1 \in 1 .. MaxPage /\ (ui.page > 1 => ui.page - 1 \in 1 .. MaxPage)
        /\ ui.page < MaxPage => ui.page + 1 \in 1 .. MaxPage
    BY <1>0, ClientAssumption
  <2>. QED
    BY <1>2, <1>3, <2>1 DEF Search, PreviousPage, NextPage
<1>4. CASE RefreshSources(t)
  <2>1. ui' = ui \/ ui' = ResetView(ui)
    BY <1>4, ListBegins, StartsFree DEF RefreshSources
  <2>. QED
    BY <1>0, <1>1, <2>1, ResetStays, ResetPage, NotAUrl DEF PageStep, Page
<1>5. ASSUME ui' = ui PROVE PageStep
  BY <1>0, <1>1, <1>5 DEF PageStep
<1>6. CASE ScanLocalConfigs(t) \/ Login(t) \/ Logout(t)
  BY <1>5, <1>6, WriteBegins DEF ScanLocalConfigs, Login, Logout
<1>7. ASSUME NEW s \in Sources, SaveSource(t, s) \/ DeleteSource(t, s) PROVE PageStep
  BY <1>5, <1>7, WriteBegins DEF SaveSource, DeleteSource
<1>. QED
  BY <1>3, <1>4, <1>6, <1>7 DEF User

(* What a handler that goes on does to the page.                            *)
LEMMA ContinuePage ==
  ASSUME Typed, Owned, NEW t \in Tasks, Continue(t)
  PROVE  PageStep
<1>0. Page(ui, auth) /\ Ready(t) /\ NoneOf(t) /\ ui \in UiTypes
  BY StartsFree DEF Typed, Continue, Page
<1>1. ASSUME auth' = auth, ui' = ui PROVE PageStep
  BY <1>0, <1>1 DEF PageStep
<1>2. CASE ShowQuery(t)
  <2>1. Querying(tasks[t]) /\ tasks[t].parts = StatsUrls(tasks[t])
    BY <1>2 DEF ShowQuery, Owned, TaskOwn
  <2>2. auth' = auth /\ ui' = QueryShown(ui, tasks[t], StatsUrls(tasks[t]))
    BY <1>2, <2>1 DEF ShowQuery
  <2>. QED
    BY <1>0, <2>1, <2>2, ShownPage, NotAUrl DEF PageStep
<1>3. CASE ShowList(t)
  <2>1. PICK a \in tasks[t].got :
          \E first : /\ a.listing # {} => first \in a.listing
                     /\ ui' = Loaded(t, ListShown(ui, a.listing, first)) /\ auth' = auth
    BY <1>3 DEF ShowList
  <2>a. PICK first :
          /\ a.listing # {} => first \in a.listing
          /\ ui' = Loaded(t, ListShown(ui, a.listing, first)) /\ auth' = auth
    BY <2>1
  <2>2. a.listing \in SUBSET Sources
    BY TaskType DEF Answers
  <2>3. recent \in Sources \union {None}
    BY Types
  <2>4. PICK v : v = ListShown(ui, a.listing, first)
    OBVIOUS
  <2>5. Page(v, auth) /\ v.charts = ui.charts
    BY <1>0, <2>a, <2>2, <2>3, <2>4, ListPage
  <2>6. PICK x \in BOOLEAN : ui' = [v EXCEPT !.loaded = x]
    BY <2>a, <2>4, <2>5 DEF Loaded, Page, UiTypes
  <2>. QED
    BY <2>a, <2>5, <2>6, LoadedPage DEF PageStep
<1>4. ASSUME NEW kind \in {"sources", "boot"}, NEW u \in {ui, Blank(ui)},
             LoadSources(t, kind, u), auth' = auth
      PROVE  PageStep
  <2>1. Page(u, auth) /\ (u.charts = Loading => ui.charts = Loading)
    BY <1>0, BlankedPage, NotAUrl
  <2>2. ui' = u \/ ui' = ResetView(u)
    BY <1>0, <1>4, ListBegins
  <2>3. ResetView(u).charts = Empty
    BY <2>1, ResetPage DEF Page
  <2>. QED
    BY <1>4, <2>1, <2>2, <2>3, ResetStays, NotAUrl DEF PageStep
<1>5. CASE Written(t)
  BY <1>4, <1>5 DEF Written
<1>6. CASE StatusKnown(t)
  BY <1>1, <1>4, <1>6 DEF StatusKnown
<1>7. CASE LoggedOut(t)
  <2>1. PICK v : v = ShowAuth(ui, "out")
    OBVIOUS
  <2>2. auth' = "out" /\ ui' = [v EXCEPT !.loaded = FALSE]
    BY <1>7, <2>1 DEF LoggedOut, LogOut
  <2>3. Page(v, "out") /\ v.charts = Empty
    BY <1>0, <2>1, AuthPage
  <2>. QED
    BY <2>2, <2>3, LoadedPage, NotAUrl DEF PageStep
<1>. QED
  BY <1>1, <1>2, <1>3, <1>5, <1>6, <1>7 DEF Continue, Bundle, Tested, LoggedIn

(* What a request that fails does to the page.                              *)
LEMMA FailPage ==
  ASSUME NEW m \in net, NEW a, NEW u, Page(u, a), Fail(m, u)
  PROVE  Page(ui', a) /\ (ui'.charts = Loading => u.charts = Loading)
<1>1. CASE ui' = u
  BY <1>1
<1>2. CASE ui' = QueryFailed(u)
  BY <1>2, FailedPage, NotAUrl
<1>3. CASE ui' = OpenGate(u)
  BY <1>3, GatePage, NotAUrl DEF Page
<1>4. CASE ui' = Loaded(m.task, u)
  <2>1. PICK x \in BOOLEAN : ui' = [u EXCEPT !.loaded = x]
    BY <1>4 DEF Loaded, Page, UiTypes
  <2>. QED
    BY <2>1, LoadedPage
<1>. QED
  BY <1>1, <1>2, <1>3, <1>4 DEF Fail

(* What an arriving answer does to the page.                                *)
LEMMA ReceivePage ==
  ASSUME Typed, NEW m \in net, Receive(m)
  PROVE  PageStep
<1>0. Page(ui, auth) /\ ui \in UiTypes
  BY DEF Typed, Page
<1>1. ASSUME auth' = auth, ui' = ui PROVE PageStep
  BY <1>0, <1>1 DEF PageStep
<1>2. ASSUME auth' = "out", ui' = [ShowAuth(ui, "out") EXCEPT !.loaded = FALSE] PROVE PageStep
  <2>1. PICK v : v = ShowAuth(ui, "out")
    OBVIOUS
  <2>2. Page(v, "out") /\ v.charts = Empty
    BY <1>0, <2>1, AuthPage
  <2>. QED
    BY <1>2, <2>1, <2>2, LoadedPage, NotAUrl DEF PageStep
<1>3. CASE ReceiveStatus(m)
  <2>1. PICK a, v : a = Status(m.answer.valid) /\ v = ShowAuth(ui, a)
    OBVIOUS
  <2>2. Page(v, a) /\ (v.charts = Loading => ui.charts = Loading)
    BY <1>0, <2>1, AuthPage, NotAUrl
  <2>3. auth' = a /\ (ui' = v \/ Fail(m, v))
    BY <1>3, <2>1 DEF ReceiveStatus
  <2>. QED
    BY <2>2, <2>3, FailPage DEF PageStep
<1>4. CASE ReceiveFailure(m)
  <2>1. CASE Fail(m, ui) /\ auth' = auth
    BY <1>0, <2>1, FailPage DEF PageStep
  <2>. QED
    BY <1>2, <1>4, <2>1 DEF ReceiveFailure, LogOut
<1>. QED
  BY <1>1, <1>2, <1>3, <1>4 DEF Receive, ReceiveWritten, HandleUnauthorized, ReceiveData, ReceiveBody

(* So the page stays as it should be.                                       *)
LEMMA PageSteps ==
  ASSUME Typed, Owned, [Next]_vars
  PROVE  PageStep
<1>0. Page(ui, auth) /\ ui \in UiTypes /\ ui.source \in Sources \union {None}
  BY DEF Typed, Page, UiTypes
<1>1. ASSUME auth' = auth, ui' = ui PROVE PageStep
  BY <1>0, <1>1 DEF PageStep
<1>2. CASE Reset
  BY <1>0, <1>2, BlankedPage, NotAUrl DEF Reset, PageStep
<1>3. ASSUME NEW s \in Sources, Select(s) PROVE PageStep
  BY <1>0, <1>3, SourcedPage DEF Select, PageStep
<1>4. CASE RestoreFilter
  <2>1. PICK s \in Sources \union {None} : ui' = [ui EXCEPT !.source = s] /\ auth' = auth
    BY <1>0, <1>4 DEF RestoreFilter, Restored
  <2>. QED
    BY <1>0, <2>1, SourcedPage DEF PageStep
<1>5. CASE Elsewhere \/ UNCHANGED vars \/ \E m \in net : Serve(m)
  BY <1>1, <1>5 DEF Elsewhere, vars, Serve
<1>. QED
  BY <1>2, <1>3, <1>4, <1>5, UserPage, ContinuePage, ReceivePage DEF Next

(* A query that is under way stays so, unless the charts stop loading.     *)
LEMMA FailPending ==
  ASSUME Typed, NEW m \in net, NEW u \in UiTypes, Fail(m, u),
         ui'.charts = Loading, NEW t \in Tasks, Pending(tasks[t])
  PROVE  tasks'[t] = tasks[t]
<1>1. tasks \in [Tasks -> TaskTypes] /\ None \notin Tasks
  BY Types
<1>2. CASE m.task = t
  <2>1. ui' = QueryFailed(u)
    BY <1>1, <1>2 DEF Fail, AwaitOf, Pending
  <2>2. ui'.charts = Empty
    BY <2>1 DEF QueryFailed, FailedCharts, UiTypes
  <2>. QED
    BY <2>2, NotAUrl
<1>3. CASE m.task # t
  BY <1>1, <1>3 DEF Fail
<1>. QED
  BY <1>2, <1>3

(* So does one during any other step.                                       *)
LEMMA PendingStays ==
  ASSUME Typed, Owned, [Next]_vars, ui'.charts = Loading, NEW t \in Tasks, Pending(tasks[t])
  PROVE  Pending(tasks'[t])
<1>0. tasks \in [Tasks -> TaskTypes] /\ ui \in UiTypes
  BY Types
<1>1. ASSUME tasks'[t] = tasks[t] PROVE Pending(tasks'[t])
  BY <1>1
<1>2. ASSUME tasks'[t] = Aged(tasks)[t] PROVE Pending(tasks'[t])
  BY <1>2, AgedTasks DEF Pending
<1>3. ASSUME NEW x \in Tasks, NEW k, NEW urls, Await(x, k, urls) \/ End(x), x # t
      PROVE  tasks'[t] = tasks[t]
  BY <1>0, <1>3 DEF Await, End
<1>4. ASSUME NEW x \in Tasks, User(x) PROVE tasks'[t] = tasks[t]
  <2>1. tasks' = tasks \/ (Starts(x) /\ \E k, urls : Await(x, k, urls) \/ End(x))
    BY <1>4 DEF User, Search, PreviousPage, NextPage, RunQuery, RefreshSources, LoadSources,
       ScanLocalConfigs, SaveSource, DeleteSource, Login, Logout, Write
  <2>2. Starts(x) => x # t
    BY DEF Starts, NoTask, Pending
  <2>. QED
    BY <1>3, <2>1, <2>2
<1>5. ASSUME NEW x \in Tasks, Continue(x) PROVE Pending(tasks'[t])
  <2>1. CASE Bundle(x)
    <3>1. PICK k, urls : Await(x, k, urls) /\ k = [tasks[x] EXCEPT !.await = "details",
                                                    !.parts = UrlsOf(tasks[x].got)]
      BY <2>1 DEF Bundle
    <3>2. x = t => tasks'[t].await = "details"
      BY <1>0, <3>1 DEF Await, TaskTypes
    <3>. QED
      BY <1>1, <1>3, <3>1, <3>2 DEF Pending
  <2>2. CASE ShowQuery(x)
    <3>1. Querying(tasks[x]) /\ tasks[x].parts = StatsUrls(tasks[x])
      BY <2>2 DEF ShowQuery, Owned, TaskOwn
    <3>2. ui' = QueryShown(ui, tasks[x], StatsUrls(tasks[x])) /\ Page(ui, auth)
      BY <2>2, <3>1 DEF ShowQuery, Typed
    <3>. QED
      BY <3>1, <3>2, ShownPage, NotAUrl
  <2>3. CASE ShowList(x) \/ Tested(x) \/ Written(x) \/ StatusKnown(x)
    <3>1. x # t
      BY <2>3 DEF ShowList, Tested, Written, StatusKnown, Pending
    <3>2. \E k, urls : Await(x, k, urls) \/ End(x)
      BY <2>3 DEF ShowList, Tested, Written, StatusKnown, LoadSources
    <3>. QED
      BY <1>1, <1>3, <3>1, <3>2
  <2>4. CASE LoggedIn(x)
    <3>1. tasks' = [Aged(tasks) EXCEPT ![x].await = "status"] /\ x # t
      BY <2>4 DEF LoggedIn, Pending
    <3>2. tasks'[t] = Aged(tasks)[t]
      BY <3>1, AgedTasks
    <3>. QED
      BY <1>2, <3>2
  <2>5. CASE LoggedOut(x)
    <3>1. tasks' = [Aged(tasks) EXCEPT ![x] = NoTask] /\ x # t
      BY <2>5 DEF LoggedOut, LogOut, Pending
    <3>2. tasks'[t] = Aged(tasks)[t]
      BY <3>1, AgedTasks
    <3>. QED
      BY <1>2, <3>2
  <2>. QED
    BY <1>5, <2>1, <2>2, <2>3, <2>4, <2>5 DEF Continue
<1>6. ASSUME NEW m \in net, Receive(m) PROVE Pending(tasks'[t])
  <2>1. CASE ReceiveWritten(m) \/ HandleUnauthorized(m)
    BY <1>2, <2>1 DEF ReceiveWritten, HandleUnauthorized
  <2>2. CASE ReceiveStatus(m)
    <3>1. PICK a, v : a = Status(m.answer.valid) /\ v = ShowAuth(ui, a)
      OBVIOUS
    <3>2. Page(v, a)
      BY <3>1, AuthPage DEF Typed
    <3>3. tasks' = tasks \/ Fail(m, v)
      BY <2>2, <3>1 DEF ReceiveStatus
    <3>. QED
      BY <1>1, <3>2, <3>3, FailPending DEF Page
  <2>3. CASE ReceiveData(m)
    <3>1. \/ tasks' = tasks
          \/ tasks' = [tasks EXCEPT ![m.task].got = @ \union {m.answer}]
      BY <2>3 DEF ReceiveData
    <3>2. tasks'[t].await = tasks[t].await
      BY <1>0, <3>1 DEF TaskTypes
    <3>. QED
      BY <3>2 DEF Pending
  <2>4. CASE ReceiveBody(m)
    BY <1>1, <2>4 DEF ReceiveBody
  <2>5. CASE ReceiveFailure(m)
    <3>1. CASE Fail(m, ui)
      BY <1>0, <1>1, <3>1, FailPending
    <3>2. CASE AwaitOf(m) = "logout" /\ LogOut(m.task, net \ {m})
      <4>1. tasks' = [Aged(tasks) EXCEPT ![m.task] = NoTask] /\ m.task # t
        BY <3>2, Types DEF LogOut, AwaitOf, Pending
      <4>2. tasks'[t] = Aged(tasks)[t]
        BY <4>1, AgedTasks
      <4>. QED
        BY <1>2, <4>2
    <3>. QED
      BY <2>5, <3>1, <3>2 DEF ReceiveFailure
  <2>. QED
    BY <1>6, <2>1, <2>2, <2>3, <2>4, <2>5 DEF Receive
<1>7. CASE UNCHANGED tasks
  BY <1>1, <1>7
<1>. QED
  BY <1>1, <1>4, <1>5, <1>6, <1>7 DEF Next, vars, Select, Reset, RestoreFilter, Elsewhere, Serve

(* Charts that load are those of a query under way.                         *)
LEMMA PendingStep ==
  ASSUME Typed, Owned, [Next]_vars, LoadingIsPending
  PROVE  LoadingIsPending'
<1>1. ASSUME ui'.charts = Loading PROVE \E t \in Tasks : Pending(tasks'[t])
  <2>1. CASE ui.charts = Loading
    <3>1. PICK t \in Tasks : Pending(tasks[t])
      BY <2>1 DEF LoadingIsPending, Pending
    <3>. QED
      BY <1>1, <3>1, PendingStays
  <2>. QED
    BY <1>1, <2>1, PageSteps DEF PageStep
<1>. QED
  BY <1>1 DEF LoadingIsPending, Pending

-----------------------------------------------------------------------------
(* The invariant.                                                          *)

LEMMA SessionStep ==
  ASSUME Typed, Owned, [Next]_vars
  PROVE  /\ registry' \subseteq Sources
         /\ expired' \in 0 .. issued' /\ cookie' \in 0 .. issued'
         /\ floor' \in 0 .. MaxEdits
<1>0. /\ registry \subseteq Sources /\ issued \in Nat /\ expired \in 0 .. issued
      /\ cookie \in 0 .. issued /\ floor \in 0 .. MaxEdits
  BY Types
<1>1. ASSUME UNCHANGED <<server, floor>>
      PROVE  /\ registry' \subseteq Sources
             /\ expired' \in 0 .. issued' /\ cookie' \in 0 .. issued' /\ floor' \in 0 .. MaxEdits
  BY <1>0, <1>1 DEF server, sessions
<1>2. CASE Elsewhere
  BY <1>0, <1>2 DEF Elsewhere, sessions
<1>3. ASSUME NEW m \in net, Serve(m), ~UNCHANGED server
      PROVE  /\ registry' \subseteq Sources
             /\ expired' \in 0 .. issued' /\ cookie' \in 0 .. issued' /\ floor' \in 0 .. MaxEdits
  <2>1. Effect(m.answer.url) /\ floor' = floor
    BY <1>3 DEF Serve
  <2>2. m.answer.url.path = "save" => m.answer.url.source \in Sources
    BY MessageType, UrlShape
  <2>3. registry' \subseteq Sources
    BY <1>0, <2>1, <2>2 DEF Effect
  <2>4. (issued' = issued \/ issued' = issued + 1) /\ expired' = expired /\ cookie' = cookie
    BY <2>1 DEF Effect, IssueToken
  <2>. QED
    BY <1>0, <2>1, <2>3, <2>4
<1>4. ASSUME NEW m \in net, Receive(m)
      PROVE  /\ registry' \subseteq Sources
             /\ expired' \in 0 .. issued' /\ cookie' \in 0 .. issued' /\ floor' \in 0 .. MaxEdits
  <2>1. /\ registry' = registry /\ issued' = issued /\ expired' = expired
        /\ cookie' \in {cookie, m.cookie}
    BY <1>4 DEF Receive, ReceiveWritten
  <2>2. floor' \in {floor, m.answer.at}
    BY <1>4 DEF Receive, ReceiveWritten, HandleUnauthorized, ReceiveStatus, ReceiveData,
       ReceiveBody, ReceiveFailure
  <2>3. m.cookie \in Nat /\ m.cookie =< issued /\ m.answer.at \in 0 .. MaxEdits
    BY MessageType DEF Owned, MessageTrue
  <2>. QED
    BY <1>0, <2>1, <2>2, <2>3
<1>5. ASSUME NEW t \in Tasks, User(t) \/ Continue(t) PROVE UNCHANGED <<server, floor>>
  BY <1>5 DEF User, Search, PreviousPage, NextPage, RunQuery, RefreshSources, ScanLocalConfigs,
     SaveSource, DeleteSource, Login, Logout, Write, Continue
<1>6. CASE UNCHANGED vars \/ Reset \/ RestoreFilter \/ \E s \in Sources : Select(s)
  BY <1>1, <1>6 DEF vars, Reset, RestoreFilter, Select
<1>7. ASSUME NEW m \in net, Serve(m), UNCHANGED server PROVE UNCHANGED <<server, floor>>
  BY <1>7 DEF Serve
<1>. QED
  BY <1>1, <1>2, <1>3, <1>4, <1>5, <1>6, <1>7 DEF Next

(* The caches hold answers.                                                 *)
LEMMA CachesTyped ==
  ASSUME Typed, [Next]_vars
  PROVE  queryCache' \subseteq Answers /\ \A b \in bundledQueryCache' : b.answers \subseteq Answers
<1>1. queryCache \subseteq Answers /\ \A b \in bundledQueryCache : b.answers \subseteq Answers
  BY Types
<1>2. ASSUME NEW m \in net, ReceiveData(m) PROVE queryCache' \subseteq Answers
  BY <1>1, <1>2, MessageType DEF ReceiveData
<1>3. ASSUME NEW t \in Tasks, Bundle(t), NEW b \in bundledQueryCache' PROVE b.answers \subseteq Answers
  <2>1. b \in bundledQueryCache \/ b.answers = tasks[t].got
    BY <1>3 DEF Bundle
  <2>. QED
    BY <1>1, <2>1, TaskType
<1>. QED
  BY <1>1, <1>2, <1>3, CachesChange

(* localStorage holds a source, and the session has one of its states.      *)
LEMMA RecentTyped ==
  ASSUME Typed, [Next]_vars
  PROVE  recent' \in Sources \union {None} /\ auth' \in {"off", "in", "out"}
<1>0. /\ recent \in Sources \union {None} /\ auth \in {"off", "in", "out"}
      /\ ui.source \in Sources \union {None}
  BY DEF Typed, TypeOK
<1>1. ASSUME NEW t \in Tasks, User(t)
      PROVE  recent' \in {recent, ui.source} /\ auth' = auth
  BY <1>1 DEF User, Search, PreviousPage, NextPage, RunQuery, RefreshSources, ScanLocalConfigs,
     SaveSource, DeleteSource, Login, Logout, Write
<1>2. ASSUME NEW t \in Tasks, Continue(t)
      PROVE  recent' \in {recent, None} /\ auth' \in {auth, "out"}
  BY <1>2 DEF Continue, Bundle, ShowQuery, ShowList, Tested, Written, LoggedIn, StatusKnown,
     LoggedOut, LogOut
<1>3. ASSUME NEW m \in net, Serve(m) \/ Receive(m)
      PROVE  recent' = recent /\ auth' \in {auth, "off", "in", "out"}
  BY <1>3 DEF Serve, Receive, ReceiveWritten, HandleUnauthorized, ReceiveStatus, ReceiveData,
     ReceiveBody, ReceiveFailure, LogOut, Status
<1>. QED
  BY <1>0, <1>1, <1>2, <1>3 DEF Next, vars, Select, Reset, RestoreFilter, Elsewhere

(* Types, page and tokens together.                                         *)
LEMMA TypedStep ==
  ASSUME Typed, Owned, [Next]_vars
  PROVE  Typed'
<1>1. net' \subseteq Messages
  BY NewMessages
<1>2. tasks' \in [Tasks -> TaskTypes]
  BY TasksMove DEF AllMoved
<1>3. issued' \in Tokens
  <2>1. /\ IsFiniteSet(Logins') /\ issued' + Cardinality(Logins') =< starts' + 1
    BY TokensStep DEF TokensCounted
  <2>2. Cardinality(Logins') \in Nat /\ starts' \in 0 .. MaxStarts /\ MaxStarts \in Nat
    BY <2>1, FS_CardinalityType, StartsCounted, ClientAssumption
  <2>3. issued' \in Nat
    BY Later, Types
  <2>. QED
    BY <2>1, <2>2, <2>3 DEF Tokens
<1>4. Page(ui, auth)'
  BY PageSteps DEF PageStep
<1>5. /\ ui'.page \in 1 .. MaxPage /\ ui'.shownPage \in 1 .. MaxPage
      /\ ui'.source \in Sources \union {None} /\ ui'.cards \in [Sources -> Nat]
      /\ {ui'.summary, ui'.charts, ui'.details} \subseteq Urls \union {Empty, Loading}
  BY <1>4 DEF Page, UiTypes, Panels
<1>6. TypeOK'
  BY <1>1, <1>2, <1>3, <1>5, SessionStep, Later, CachesTyped, RecentTyped, StartsCounted
  DEF TypeOK
<1>. QED
  BY <1>4, <1>6, TokensStep DEF Typed

(* What the theorems below rest on.                                        *)
IInv == Typed /\ Owned /\ FollowWrites /\ LoadingIsPending

(* The start: nothing is cached or shown, and one task asks for the status. *)
LEMMA Begin == Init => IInv
<1>. SUFFICES ASSUME Init PROVE IInv
  OBVIOUS
<1>1. PICK t \in Tasks :
        /\ tasks = [[u \in Tasks |-> NoTask] EXCEPT
                      ![t] = [NoTask EXCEPT !.kind = "boot", !.await = "status"]]
        /\ net = {Request(t, Plain("status"))}
  BY DEF Init
<1>2. /\ registry \subseteq Sources /\ version = 0 /\ floor = 0 /\ starts = 0
      /\ issued \in {0, 1} /\ cookie = issued /\ expired = 0
      /\ queryCache = {} /\ bundledQueryCache = {} /\ auth = "off"
      /\ recent \in Sources \union {None}
  BY DEF Init
<1>3. /\ MaxStarts \in Nat /\ MaxEdits \in Nat /\ 0 \in 0 .. MaxEdits /\ 0 \in 0 .. MaxPage
      /\ 1 \in 1 .. MaxPage /\ None \notin Tasks
  BY ClientAssumption
<1>4. /\ ui \in UiTypes /\ ui.visible = FALSE /\ ui.gate = FALSE /\ ui.details = Empty
      /\ ui.charts = Empty /\ \A s \in Sources : ui.cards[s] = 0
  BY <1>3 DEF Init, UiTypes, Panels
<1>5. Page(ui, auth)
  BY <1>2, <1>4, NotAUrl DEF Page, Agree, Gated
<1>6. PICK r : r = Request(t, Plain("status"))
  OBVIOUS
<1>7. /\ r \in Messages /\ r.task = t /\ r.code = "none" /\ r.cookie = cookie
      /\ r.answer.url = Plain("status") /\ r.answer.at = 0
  <2>. DEFINE a == [url |-> Plain("status"), at |-> 0, listing |-> {}, valid |-> FALSE,
                    late |-> FALSE]
  <2>1. a \in Answers /\ a.url = Plain("status") /\ a.at = 0
    BY <1>3, PlainUrls DEF Answers
  <2>2. r = [task |-> t, code |-> "none", cookie |-> cookie, answer |-> a]
    BY <1>6 DEF Request
  <2>3. cookie \in Tokens
    BY <1>2, <1>3 DEF Tokens
  <2>. HIDE DEF a
  <2>. QED
    BY <2>1, <2>2, <2>3 DEF Messages, Codes
<1>8. net = {r}
  BY <1>1, <1>6
<1>. DEFINE k == [NoTask EXCEPT !.kind = "boot", !.await = "status"]
<1>9. /\ k \in TaskTypes /\ NoTask \in TaskTypes
      /\ k.kind = "boot" /\ k.await = "status" /\ k.got = {}
      /\ NoTask.kind = "none" /\ NoTask.await = "idle" /\ NoTask.got = {}
  BY <1>3 DEF NoTask, TaskTypes, Kinds, Awaits
<1>10. tasks = [[u \in Tasks |-> NoTask] EXCEPT ![t] = k]
  BY <1>1
<1>. HIDE DEF k
<1>11. /\ tasks \in [Tasks -> TaskTypes] /\ tasks[t] = k
       /\ \A x \in Tasks : tasks[x] \in {k, NoTask}
  BY <1>9, <1>10
<1>12. TokensCounted
  <2>1. Logins = {}
    BY <1>7, <1>8, PlainUrls DEF Logins, LoginsOf
  <2>. QED
    BY <1>2, <2>1, FS_EmptySet DEF TokensCounted
<1>13. TypeOK
  <2>1. issued \in Tokens /\ expired \in 0 .. issued /\ cookie \in 0 .. issued
    BY <1>2, <1>3 DEF Tokens
  <2>2. /\ ui.page \in 1 .. MaxPage /\ ui.shownPage \in 1 .. MaxPage
        /\ ui.source \in Sources \union {None} /\ ui.cards \in [Sources -> Nat]
        /\ {ui.summary, ui.charts, ui.details} \subseteq Urls \union {Empty, Loading}
    BY <1>4 DEF UiTypes, Panels
  <2>3. net \subseteq Messages
    BY <1>7, <1>8
  <2>. QED
    BY <1>2, <1>3, <1>11, <2>1, <2>2, <2>3 DEF TypeOK
<1>14. Owned
  <2>1. MessageTrue(r)
    BY <1>2, <1>7 DEF MessageTrue
  <2>2. MessageMeets(r)
    BY <1>7, <1>9, <1>11 DEF MessageMeets
  <2>3. \A x \in Tasks : TaskOwn(x)
    BY <1>9, <1>11 DEF TaskOwn
  <2>. QED
    BY <1>2, <1>8, <2>1, <2>2, <2>3 DEF Owned, BundlesOwn
<1>15. FollowWrites
  BY <1>2, <1>9, <1>11 DEF FollowWrites, CachesFollowWrites
<1>16. LoadingIsPending
  BY <1>4, NotAUrl DEF LoadingIsPending
<1>. QED
  BY <1>5, <1>12, <1>13, <1>14, <1>15, <1>16 DEF IInv, Typed

(* A page is open or locked, requests, answers and handlers keep to each   *)
(* other, and the caches follow the writes: in every state.                *)
THEOREM Invariant == Spec => []IInv
<1>1. IInv /\ [Next]_vars => IInv'
  BY TypedStep, OwnedStep, FollowsStep, PendingStep DEF IInv
<1>. QED
  BY <1>1, Begin, PTL DEF Spec

(* The variables keep their types; no more tokens are issued than logins   *)
(* were set off.                                                           *)
THEOREM TypeCorrect == Spec => []TypeOK
<1>1. IInv => TypeOK
  BY DEF IInv, Typed
<1>. QED
  BY <1>1, Invariant, PTL

(* The totals, the charts and the rows answer one query, whichever queries *)
(* overlap, fail or are answered by a cache.                               *)
THEOREM OneQueryShown == Spec => []PanelsAgree
<1>1. IInv => PanelsAgree
  BY DEF IInv, Typed, Page, Agree, PanelsAgree
<1>. QED
  BY <1>1, Invariant, PTL

(* The charts do not say "loading" for ever after the last query has ended. *)
THEOREM LoadingEnds == Spec => []LoadingIsPending
<1>1. IInv => LoadingIsPending
  BY DEF IInv
<1>. QED
  BY <1>1, Invariant, PTL

(* No reload of the list doubles a card.                                   *)
THEOREM CardsOnce == Spec => []OneCardEach
<1>1. IInv => OneCardEach
  BY DEF IInv, Typed, Page, OneCardEach
<1>. QED
  BY <1>1, Invariant, PTL

(* A locked page shows the form to log in and nothing else, an open one    *)
(* never asks for a login.                                                 *)
THEOREM LockHides == Spec => []LockedIsHidden
<1>1. IInv => LockedIsHidden
  BY DEF IInv, Typed, Page, Gated, LockedIsHidden
<1>. QED
  BY <1>1, Invariant, PTL

(* The caches answer with nothing from before the last acknowledged write, *)
(* but for what was under way at that time.                                *)
THEOREM CachesAreFresh == Spec => []CachesFollowWrites
<1>1. IInv => CachesFollowWrites
  BY DEF IInv, FollowWrites
<1>. QED
  BY <1>1, Invariant, PTL

=============================================================================
