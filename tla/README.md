# A TLA+ development of new-api-log-statistics

`new-api-log-statistics` is a dashboard over the log databases of `new-api`
gateways: a FastAPI process answers statistics queries about several database
*sources* (MySQL, MariaDB or PostgreSQL), keeps its sources in a YAML or JSON
file, caches answers in Redis or in memory, pools database connections, and can
keep a table of daily aggregates in a source; a browser client shows the results.

The process is one `uvicorn` worker (`deploy/Dockerfile`). Its handlers are plain
`def` functions, so FastAPI runs them on a pool of threads: every module-level
object (the registry's cache, the query cache, the connection pools) is shared by
threads that may interleave anywhere a file, a database or Redis is waited for. The
refresh of the daily aggregates is a process of its own. There are no tests in the
repository. This is where the models look.

## 1. Inventory

| Component | State | Operations | What is hard | What makes it correct |
|---|---|---|---|---|
| Source registry (`services/source_registry.py`, `schemas/source.py`) | the file of sources; the `lru_cache` of `get_source_registry` | load, list, get, save, delete, clear the cache | read–modify–write of a whole file without a lock; `write_text` truncates before it writes; the cache is cleared after the file is replaced while a miss may be loading the old one; crash in between | no request takes a password away; nothing disappears that nobody deleted; edits that do not overlap are exact |
| Query cache (`services/query_cache.py`) | `_store`, `_redis_client`, `_backend_name`; the keys in Redis | `get_or_set` | two backends, Redis coming and going between any two statements, a client published before it is pinged, several loaders for one key, answers stored out of order | an answer is never older than the time to live allows; every call is answered or fails |
| Connection pool (`db/source_client.py`, `db/mysql.py`, `db/postgres.py`) | a deque and a lock for each (type, source id) | `acquire`, `release`, the `with` statement `source_connection` | pings and connects under the lock; room checked before a ping and used after it; every exception path must close or pool the connection once | the pool is bounded, no connection is shared or leaked, the lock is given back |
| Daily aggregates (`services/preaggregation.py`, `scripts/refresh_daily_aggregates.py`, `get_token_cost_trend`) | the table `log_daily_aggregates` | create, refresh (delete, then insert), read the trend | autocommit: the delete and the insert are two transactions; refreshes overlap, collide on the primary key, die half-way; days against seconds, host time zone against database time zone; the trend silently changes its source | nothing is counted twice; a refresh repairs what it covers; both ways to compute a trend agree, but for the options that costs are priced with |
| Statistics service (`api/routes/stats.py`, `meta.py`, `repositories/`) | none of its own | nine read-only endpoints: registry → cache → pool → SQL | a source is updated, deleted or recreated while requests, cached answers and pooled connections of its old definition are about | an answer comes from the source it was asked of, and from its current definition but for the cache's delay |
| Statistics queries (`repositories/*`, `db/sql_dialect.py`) | none: the logs and options are the gateway's | summary, details by page, trend, breakdown in four dimensions, charts, token names, options | several statements on one autocommit connection, with rows logged and options changed between them; pages read one after another, some from the cache; top-N with a tail, granularity by length of range; floors and defaults of the cost formulas | every part of an answer counts every row once; a page holds what its total promises; a walk through the pages misses as little as the code allows |
| Web client (`web/js/app.js`) | `queryCache`, `bundledQueryCache`, filters, page, sorting, session flags | load sources, query, page, sort, save, delete, log in and out | overlapping asynchronous queries, answers applied out of order, answers that arrive after the caches were cleared, sessions that expire under way | the panels show one query; caches follow acknowledged writes; a locked page is closed and can be opened |
| Authentication (`services/auth.py`, `main.py`, `routes/auth.py`) | none on the server: a signed cookie with a time limit, or HTTP Basic; the browser keeps the cookie | guard, log in, log out, status | tokens expire while requests carry them; answers that set or remove the cookie overtake each other or are lost | nothing protected is answered without a valid token; a client that is refused offers the login |
| Source probes (`source_registry.ping_source_definition`, `db/mysql.py`, `db/postgres.py`) | none | ping, inspect | two connections, up to seven statements, any of which may fail; a table that was listed may be gone when it is queried; servers label and read things differently | no connection is left open; the verdict is right |
| Local import (`services/local_import.py`) | none | bounded scan of roots, reading of env and compose files, a probe for each candidate | files found first are read later, while they are edited; one bad file; equal directory names; servers that come and go during the probes | the scan ends; it finds every complete configuration in reach and invents none |
| Exports (`api/routes/export.py`) | none | one query, written as CSV or XLSX | as the statistics queries | every row that passes the filter is written |
| Health, logging, audit, settings, deployment | none that outlives a request, or append-only | | | |

How they interact. A statistics request reads a definition from the *registry*
(`_require_source`), calls the *query cache* with a key that starts with the source
id, and on a miss runs its SQL inside `source_connection` of the *pool*, which is keyed
by database type and source id. An edit of a source rewrites the *registry's* file and
clears the registry's cache; it tells neither the query cache nor the pools. The
trend asks the source whether it has the table of *daily aggregates*, which a script
maintains from outside. The *web client* has two more caches in front of everything. A *probe* opens its own
connections, past the pools; health checks, tests, URI imports, the startup
validation and the *local import* use it.

The hazards of each, at their lines and with the properties that cover them, are
listed under `hazards` in `PROJECT.json`.

## 2. Modules

| Module | What it is |
|---|---|
| `SourceRegistry` | the registry with its file, its cache and two or more requests that load, truncate, write and clear in any order |
| `SourceRegistryProofs` | its theorems |
| `CachePromise` | what a caller of `get_or_set` may count on, whatever the backend |
| `QueryCache` | `get_or_set` and `_get_redis_client`, statement by statement; refines `CachePromise` |
| `QueryCacheProofs` | its theorems, with the refinement |
| `PoolPromise` | what a user of `source_connection` may count on |
| `ConnectionPool` | `acquire`, `release`, `source_connection`; refines `PoolPromise` |
| `ConnectionPoolProofs` | its theorems, with the refinement |
| `DailyAggregates` | refreshes, the table, the logs, and the trend that reads them |
| `DailyAggregatesProofs` | its theorems |
| `StatsService` | registry, cache and pool composed: `QueryCache` and `PoolPromise` are instantiated, their actions conjoined with where each value comes from |
| `StatsServiceProofs` | its theorems |
| `TokenCost` | the cost expressions of one row of `logs`, as functions of the row and the options |
| `LogQueries` | the statements of both repositories and of the exports, one at a time, while rows are logged and options change; a reader who walks through pages |
| `LogQueriesProofs` | its theorems, and two about `TokenCost` |
| `SourceProbe` | ping and inspect, call by call, with servers and tables that come and go and logs that are added |
| `LocalImport` | the scan for local configurations, which extends `SourceProbe` for the probes on its way |
| `LocalImportProofs` | the theorems about probes and about scans |
| `WebClient` | the browser's handlers, their awaits, both client caches and the session, with a server that answers in any order |
| `WebClientProofs` | its theorems |
| `MC*` | the instances that TLC checks; a `.cfg` of another name beside an `MC*` module is the run of a finding |

Operators whose names end in `Mutant` (and `StoredEntryLateNow`, `StoredEntryInMillis`)
are part of no specification. Each is the operator that follows it with a plausible
fault in it; put in that operator's place it must make the property that
`PROJECT.json` names with it fail, which shows that the property is sensitive to the code.

### SourceRegistry

`file` is what is on disk, `cache` the `lru_cache`, and each thread's request has
a program counter. `BeginRead`, `BeginSave` and `BeginDelete` are the routes; `LoadFile`
reads the file (an empty one raises, `Readable`), `InsertIntoCache` is the end of
the `lru_cache` miss, `Answer` the use of the registry, `OpenFile`/`WriteText` the two
halves of `write_text` — two writers may have the file open at once, so `WriteText`
admits a text that splices one into the other, and `WriteFails` is a write that raises after the
truncation (a full disk) — `ClearCache` the `cache_clear()`, and
`Restart` a crash anywhere. A saved definition keeps the old password when the form's is
blank (`ToSourceDefinition`), and a new source without a password is refused (`Rejected`).
The first file is written by hand (`FirstFiles`): the password is not among the fields that
`_normalize_source_items` requires, so a source of it may have an empty one, which an edit with a blank
password then keeps. A save with a blank required field, on the other hand, is not refused: the entry it writes is
skipped by the next load, and the save after that drops it (`Edited`, `Removes`).

A text is taken to be written whole or not at all, which holds for one that fits a block of the file system; a longer one that a full
disk cuts could still parse and have lost its last sources.

- `PasswordsStay`: no request, whatever it overlaps, takes a source's password away or adds a source
  without one. Without a password are at most the sources that had none in the first file, and
  those that two overlapping writers' texts have mixed with such a source (`unprotected`).
- `OnlyDeletesRemove`: a source that no request deletes, or saves with a blank required field, is in every readable file
  and every registry in use, whatever interleaves, fails or crashes.
- `SerialEditsExact`: edits that overlap nothing are applied exactly, and the requests see them.
- `SavedMeansPersisted` **fails** (run `lost_edit`): of two overlapping edits, each
  answered "Source saved", the later write drops the earlier.

### QueryCache and CachePromise

A value is abstracted to the time at which its loader read the database: staleness is
what a cache can get wrong. Each step is one statement of `_get_redis_client` or `get_or_set`;
the two critical sections hold one dictionary operation each and are single steps. Redis
is an external server that stops, starts, and may forget (`RedisChanges`); `redisUrl` is
unset, malformed or good, chosen initially.

- `AnswerFresh`: an answer is less than `TTL` older than its call in memory, where the time to
  live starts before the load, and less than `TTL + MaxLoad` on Redis, where it starts
  after it.
- `KeepsPromise`: `QueryCache` implements `CachePromise`, which says the same of answers
  without saying how, and that every call ends.

### ConnectionPool and PoolPromise

`pool`, `lock` and `job` are the deques, the locks and the threads' places in
`source_connection`; `status` says what each connection really is (live, broken, closed).
Connections break at any time (`Break`), databases refuse connections (`Toggle`), and
a driver of `Reconnecting` (MySQL: `ping(reconnect=True)`) revives a broken connection when
it validates it, while psycopg's does not. Two keys share nothing but threads.

- `PoolBounded`, `NotShared`, `NoLeak` (open connections are exactly those that a pool
  or a thread has), `LockIsReleased` (liveness).
- `KeepsPromise`: the pool implements `PoolPromise`, in which taking, opening, giving
  back and dropping a connection are single steps. A connection that `acquire` pings counts
  as idle until it passes. That is what lets `StatsService` use `PoolPromise` in the pool's place.

### DailyAggregates

Time is a number of slots, `PerDay` to a day of the database. A refresher computes its
range from days of its own host (`to_timestamp`), shifted by `HostShift`; either end may be missing. `Delete` works on
whole days (`InDays`), `Insert` on seconds (`InRange`); each is a transaction, because
every connection is in autocommit mode and `conn.commit()` comes too late to join them. `Insert`
is not enabled when it would violate the primary key (`Collides`); `Fail` covers that, lost
connections and a killed script. One grouping column (the token) stands for
the six. Of the summed columns there are two: the number of requests (`agg`), which stands for those
that the logs determine, and a cost (`costs`), which stands for those that are also priced. `rate` is what the options table
makes of the `cost_factor` now (`ChangeOptions`); `Insert` prices with the rate of its time (`Priced`), the query on the logs
with the present one (`RawPoint`). A log is `blank` if its `user_group_ratio` is an empty text: the insert casts that to 0
(`r_group`), the query takes the group ratio for it. `pricedAt` remembers, for a day that a refresh has just made exact, at which rate.

- `NoDoubleCount`: no row ever counts more than the logs there are.
- `RefreshedExact`: a day that a refresh covers whole, with no other refresh running
  meanwhile, has the counts of the logs afterwards, and their costs at the rate of that refresh with the blank ones at nothing,
  whatever was there before.
- `TrendExact`: for such days the daily and weekly trends from the table have the counts of those from the logs,
  for every filter but the address and the request id. Their costs agree if the options are still the ones that the days were priced with, and no log of
  them is blank; otherwise they need not, and do not.
- `TrendHonoursIp` **fails** (run `ignored_ip`): the table has no column for the address, and
  the trend uses it anyway. (With a request id it answers no points at all.)

What is *not* promised, and the model shows why: a trend read between the delete and
the insert, or after a failed insert, misses the days; the first and last day of a
range are partial when host and database are in different time zones; logs that
arrive after a refresh are missing until the next one; costs stay at the prices of the refresh when the options change.

### StatsService

A request reads a definition (`Ask`), goes through `QueryCache` (`Seek`, `LookUp`, `Store`, `Reply`) and,
on a miss, through the pool (`Reuse`, `Discard`, `Connect`, `GiveBack`) around its query
(`Query`, `LoadFails`). `defs` holds every definition ever saved with the time until which it was
current; `server` says which definition each open connection was opened for; `got` and `stored`
say where each value came from. A loader may use several connections, one after another, as those of the charts do
(`GiveBack` before `Query`); `got` speaks of its last query, and each query of a loader is the last of one that has fewer.

- `OwnDatabase`: an answer about a source was read from a database that this source
  was defined with, of the type whose SQL was sent, even when the id was deleted and created again.
- `StaleOnlyByPool`: if the loader opened its connection for the definition it read, the
  answer comes from a definition that was current, or replaced for less than `TTL`, when the
  request was made.
- `UpdatesTakeEffect` **fails** (run `stale_target`): idle connections to the old host are used, and
  given back, for the updated source as long as they live. The connection test of the source page
  opens its own connection and so reports the new host.

### TokenCost and LogQueries

`TokenCost` has an operator for each column of the `cost` CTE (`_build_filtered_cost_cte`): what is
left of the prompt when the cached tokens are taken out, the tokens written for five minutes and an hour
in place of the plain total, the ratio of the user's group unless it is absent or -1, the fixed price, and
the costs and the saving. Ratios are parts of `One`, and costs integers in a small unit; rounding is left out. An option is absent or a
number: one that is there and empty is 0 for MySQL and an error for PostgreSQL, which the model leaves out.

`LogQueries` gives the requests their statements (`Statements`): one for most, two for the details (the count, then the
page), one for each dimension of a breakdown, five for the charts. `Ask` and `AskPage` begin a request, `Execute` runs its
next statement on the logs and options of that moment (`Answers`), `Fail` is a statement that raises, `Answer` the
end. `AddLog` and `ChangeOptions` are the gateway, at any time. The filter is `Passes`, the order of the
details `Before` with `Rank`, by the time, the id, the quota or a cost (`CostOrders`), a page `PageRows`; `Granularity` and `Bucket` cut the trend, `TopN` is `_top_n_with_other` with ties in any
order, `TokenNames` the suggestions. MySQL refuses the weekly trend (`RefusesTrend`), which groups by the alias of an aggregate
(`sql_dialect.py:95`, `stats_repository.py:508`). A reader goes through the pages as the pager of the client lets him go on (`Reachable`; turning back is not modelled):
each page is asked for or still in the server's cache (`kept`), from which it may expire at any time; `QueryCache` says when.
`walk` is what he has been shown. `seenBy` is auxiliary: how many rows, and which options, each statement saw.

- `EveryLogCounted`: the buckets of a trend, the bars of a top list with its tail, and the sums
  of a summary add up to the rows that passed the filter when their statement ran, each counted once and priced at the rate of
  that moment. So the parts of a chart differ by what happened between their statements and by nothing else.
- `PageWithinTotal`: a page has the rows that its total promises, although rows are logged between the two. Counting
  after reading would break it.
- `WalkMissesFew`: who has walked to the last page has been shown every row there was at the start, but for at most as many as
  were logged where the walk looks back: between the count and the rows of the last page, or
  between a page from the cache and a newer one before it. If nothing was logged there, nothing is missed. (Rows may be shown twice.)

### SourceProbe and LocalImport

A probe (`ping_source_definition`) goes from call to call (`Steps`): connect, `SELECT 1`, close, connect again, list the tables,
query those that were found (`IfFound`), close. Each call succeeds if the server is up and what it needs
is there, or raises (`Raise`), which the `finally` turns into a close; it may also time out for no reason. Two things can be read on some servers only.
MySQL 8 labels the columns of its information schema in upper case, and `row["table_name"]` (`mysql.py:88`) raises
there as soon as one of the four tables exists (`upperCase`, `Labelled`). A latest log whose `other` is no JSON makes the sample
raise on MySQL and PostgreSQL (`garbled`, `Legible`); MariaDB answers NULL. `Toggle`, `Migrate` and `LogRequest` change
servers, tables and the latest log at any moment; what is there at first is one of `Installations`. `disturbed` remembers that something changed or timed out since the probe began. Probes share
nothing, so that one at a time stands for all. `FromUri` is what `import-uri` makes of the scheme, which stands for all that begin with it (`Schemes`), and of the port.

`LocalImport` follows `scan_local_new_api_sources`: `NextRoot`; `Visit` for each directory, in any order, with the bound of depth and the ignored
names (`Enters`); `Walked` puts the `.env` files before the compose files; `ReadEnv`, `ReadCompose`, `NextService`, `ReadEnvFile` read them one by
one, at a later time than they were found; `Skip`, `BadPort` and `Offer` are `_build_source_from_mapping` and the probe; `Finish` keeps
the last candidate of each source id. A compose file that has gone or does not hold a mapping, and a port that is no number, raise out of the whole scan
(`FailScan`); an env file that has gone is empty. `Edit` changes files at any time. `Files` are the paths at which files may
appear and `IsContent` says what they may hold: settings, or services out of `Services`. The model has one restriction
here: an entry of `env_file` does not name a compose file (`EnvPaths`).

- `NothingLeftOpen`: a probe that is over has left no connection open, whichever call failed.
- `JudgedRight`: a server that nothing disturbed is `ok` if it answers and can be understood (`Understood`: its list of tables is labelled as expected or
  empty, and its latest log is JSON), and `compatible` if it also has `logs` and `options`, with `tokens` and `channels` or without. So it says too what the
  code does *not* do: a working MySQL 8 is not `ok`, and a server that lacks two of the tables that
  `docs/postgresql-support.zh-CN.md:47` lists as required is `compatible`.
- `ScanFindsAll`: a scan offers every complete configuration in reach, under its source id, and invents none; edited files
  disturb the candidates of no other; it fails only for a file or a port that cannot be read, or because of an edit. "In reach"
  and "complete" are defined over the tree and the files, without walking or merging.
- `ScanEnds` (liveness): a scan ends, whatever is edited and whichever servers are down.

### WebClient

JavaScript runs one piece of code at a time, so the step of the model is the code from an event or a settled
promise to the next `await`. A task is one call of a handler; `net` holds the requests that are under way, which the
server answers (`Serve`) and the network delivers or loses (`Receive`) in any order. `fetchJson` is `Await`, which takes
what `queryCache` has, and `ReceiveData`; the two functions that write are `Write` with `ReceiveWritten` and `ReceiveBody`. Settled
promises go on before another event is handled (`Quiet`). The session lives on the server; the client learns of it from
the status request (`ReceiveStatus`) and from a refusal (`HandleUnauthorized`), after which it asks for the status again and
only then lets the refused request fail. Each login issues a token (`issued`), tokens expire in that order (`Elsewhere`), and a request
carries the cookie the browser held when it was sent; the answers to log-in and log-out set or remove it when their headers arrive, in any order, or are
lost. `Guarded` is the middleware: protected paths without a live token are refused. A `Promise.all` that is rejected leaves its other request under way (`Orphaned`).

An answer is abstracted to its request and to the registry it was given with, `at` being the number of edits that had been made when the server gave it
(not the age of the data in it, which the server's own cache and pools may keep for longer: `StatsService`); `late` marks one that was asked for before the caches were
cleared, and `floor` the last acknowledged write. What the form holds besides the source is chosen when a query reads it.
Two equal requests of one task for the status are one.

- `PanelsAgree`: the totals, the charts and the rows on the page belong to one source and one setting of the filters.
- `LoadingIsPending`: the charts say that they are loading only while a query is under way.
- `CachesFollowWrites`: after an acknowledged write neither cache holds an answer that was given before it, unless it was under way at the time. It is about the two
  caches of the page and their clearing; an answer given later may still come out of the server's.
- `OneCardEach`: reloads of the list that overlap double no source.
- `LockedIsHidden`: a page that is locked is hidden and offers the form to log in, an open one does not.

What is *not* promised: that the query shown is the one the form holds. Of two that overlap, the one whose answers
come last stays, and an answer under way during a log-out or a write is cached although it is older.

## 3. Runs

| Run | Instance | Size | What it shows |
|---|---|---|---|
| `registry` | 2 threads, 2 sources, 3 edits, 1 restart | 4 155 974 states, 2 min | the properties of `SourceRegistry` |
| `lost_edit` | the same | violation | an acknowledged edit is lost |
| `cache` | 2 threads, 1 key, both backends | about 2 min | freshness, and the refinement of `CachePromise` with its liveness |
| `pool` | 3 threads, 1 key, 3 connections, pool of 2 | 43 000 states | the pool's properties, and the refinement of `PoolPromise` |
| `aggregates` | 2 refreshers on hosts in two time zones, 2 tokens, a week of 2 days of 2 slots, 2 logs, 2 rates | 646 000 states, 2 min | the properties of `DailyAggregates` |
| `ignored_ip` | the same | violation | the address filter is dropped |
| `stats` | 2 threads, 2 sources, 2 types, 2 connections, pool of 1, 2 definitions, 2 instants | 1 160 000 states | the properties of `StatsService` |
| `stale_target` | the same | violation | an update that does not take effect |
| `queries` | 3 shapes of rows, up to 3 rows, 8 forms, 2 options tables | 503 000 states | the properties of `LogQueries` |
| `import` | 6 directories, 3 roots, 6 files in 4 states, 2 hosts, 1 server with 4 installations, 2 changes | 456 000 states, 2 min | the properties of `SourceProbe` and `LocalImport` |
| `client_queries` | 2 tasks, 1 source, 2 settings of the filters, 2 pages, no login | 443 000 states | `PanelsAgree`, `LoadingIsPending` |
| `client_session` | 2 tasks, 1 source, 1 setting, 2 pages, with login | 270 000 states | the other properties of `WebClient` |

Why the bounds are enough for the questions asked. Two threads make every race the code has
between a reader and a writer or two writers of one datum; a third is needed only in the
pool, where one takes while two race for the last place. One cache key suffices because
entries of different keys never meet; two sources are needed in `stats` to be mixed up. Two days
of two slots give ranges that cover one day whole and another in part; two logs fall in one row, two
rows of a day, or two days; with two rates, the options can change between a refresh and the query and change back. `TTL` 1 separates "expired" from "live" in two instants.
Three rows let a page be shifted twice, a list of one have two entries in its tail, and a trend two buckets with two rows in one;
the rows differ in every column that is filtered, ordered or grouped by and tie in some, prices are fixed or by token, cache writes timed or not, and the forms
ask for each granularity, each kind of order and all three types of database (`TokensAddUp` and `SavingIsDifference` hold for every row). The tree has two directories of one name, one ignored, one too deep
below the first root and not below the second, one too deep below both, and a root that does not exist; two changes are enough to take something away during a scan
and to put it back. The server starts on a MySQL 8 with nothing or everything installed, elsewhere with everything, or with a log that is no JSON; the changes lead from there to what is missing.
In the client, two tasks are enough for one handler to disturb another, with the requests that rejected ones
leave behind besides; two handlers are set off and any number of pages turned, and one edit of the registry makes an answer stale.
Logging in concerns no panel's content but its being cleared, so the filters and the session are varied in separate runs. The
safety results do not rest on these bounds where they are also proved (section 5).

Named bounds: `MaxClock`, `MaxLoad` (the time from a loader's read to Redis's `SETEX`), `MaxDelay` (from
`_require_source` to `get_or_set`'s clock), `MaxLogs`, `MaxVersions`, `NDays`, `MaxPage`, `MaxEdits`, `MaxStarts`, `MaxChanges`. `MaxDepth` and `TokenLimit` are the code's own. `MaxLoad` and `MaxDelay` appear
in the promises themselves: a thread that is held up for longer serves an answer that much older.

## 4. Fairness

`QueryCache` and `ConnectionPool` assume weak fairness of each thread's next step: threads are scheduled, and a
driver call, a loader or a Redis command returns or raises. For MySQL the read timeout
guarantees that; psycopg connections have no read timeout, so there it is an
assumption (listed as a hazard). Nothing is assumed of who gets a lock next: `threading.Lock`
promises nothing, and no property needs it. `LockIsReleased` holds because each turn of the loop
under the lock makes the pool shorter. `LocalImport` assumes weak fairness of the scan with its probe (`Progress`): files are
read without waiting, and a scan builds MySQL definitions only, whose driver has a time limit on connecting and reading. There is no fairness
for edits and servers, so `ScanEnds` does not need them to settle.
`SourceRegistry`, `DailyAggregates`, `StatsService`, `LogQueries` and `WebClient` state safety only:
a request of the browser may stay unanswered for ever.

Other assumptions: `time.time()` does not run backwards; one process serves requests; logs are only
added to a source; Redis's clock is the process's.

## 5. Proofs

TLAPS checks the following for every value of the constants that satisfies the modules' named assumptions.

| Module | Theorems | Argument |
|---|---|---|
| `SourceRegistryProofs` | `TypeCorrect`, `PasswordsKept`, `NothingLostUnasked`, `SerialEdits` | every registry in flight (loaded, edited, half written, cached) has a password wherever the first file had one, and at least the sources no request removes; a request that has overlapped nothing holds exactly what the edits so far add up to |
| `QueryCacheProofs` | `TypeCorrect`, `AnswersAreFresh`, `ImplementsPromise` | `ClocksAgree`: no entry outlives its value by more than its backend allows, and each call did what it did in the order of the clock; the refinement is then step by step |
| `ConnectionPoolProofs` | `TypeCorrect`, `PoolsAreBounded`, `ConnectionsNotShared`, `ConnectionsNotLeaked` | who is inside a critical section holds the lock, so the room found by `HasRoom` is still there at the append; ownership (a hand or one place in one pool) is exclusive and equals being open |
| | `ImplementsPromise` | what is idle in `PoolPromise` is the pool and the connection that is being validated; the lock lets one thread validate at a time, so a step of one thread moves one connection; each step is then one of `PoolPromise` or changes nothing there |
| `DailyAggregatesProofs` | `TypeCorrect`, `NeverDoubleCounted`, `RefreshesAreExact` | two refreshes that run together know it (`Alone`); one that has been by itself finds its days empty when it inserts (`Clean`); no day a running refresh will fill is held to be exact (`Pending`); where there is no row there is no cost (`NoRowNoCost`); rows lie in the days that were emptied, which is the arithmetic of days and slots |
| | `TrendsAgree` | the logs that a bucket asks for are those of its days and tokens (`MatchingIsCells`); over a set of these cells the counts of the table sum to the number of their logs, and so do the costs at one rate: both add up cell by cell, and a smallest set on which they differ has a smaller one (`CellsAddUp`); so a point of the table equals one of the logs (`PointsAgree`) |
| `StatsServiceProofs` | `TypeCorrect`, `AnswersAreOwn`, `OnlyPoolsKeepOld` | `Own`: a request in flight holds a version of its own source, the server of a connection, which one hand or one pool has (`Exclusive`), is a version of the pool's key, and what is stored was read for that source. `Timely`: a request reads its definition while that is current and the clock within `MaxDelay`, so an entry expires within `TTL` and that delay of the end of the definition it was read with |
| `LogQueriesProofs` | `TypeCorrect`, `NoShortPage`, `FewMissed`, `TokensAddUp`, `SavingIsDifference` | the ranks of N matching rows are 0 .. N-1, each once (`CountRanks`), so that the size of a page is arithmetic; new rows only push old ones back or follow them, so a row of rank k was shown or is at least as far on (`PushedOn`); rows are only added, so that what was true of the first n stays true (`...Stands`). The invariant `IInv` says that results, kept pages and the walk are what their statements saw, and that the rows lost so far are no more than `missable` |
| | `AllCounted` | a theory of finite sums: taking one element out, splitting a set in two, summing by groups, and summing over a list with a tail; buckets and groups cut the rows that pass into parts that are disjoint and leave none out, for every granularity and dimension; what a statement counted stays true of the rows it saw |
| `LocalImportProofs` | `ProbesClose`, `VerdictsAreRight` | `ProbeInv`: a connection is open exactly at the steps between a connect and its close, and an undisturbed probe past a call has a server that is up, the tables it has listed and, past the sample, a log that is readable; if it is closing after a failure, there was something it could not understand (`SeenAsItIs`); the steps of the scan leave a probe alone or begin one |
| | `TypeCorrect`, `AllFound` | `ScanInv`: a pending directory is reached from the root at its depth; a file of the root that nobody touched is found, or lies below a pending directory (`ToCome`); a file that is read is settled, which means that its complete configurations are offered or at hand; if nothing was edited, every offer is a configuration in reach. An edit touches its file and leaves the others as they were, so all of it survives (`Keeping`). Reading one more env file is one more update of the mapping (`SettingsStep`), and any order of the listing covers all files (`PermutationsReachAll`) |
| `WebClientProofs` | `TypeCorrect`, `OneQueryShown`, `LoadingEnds`, `CardsOnce`, `LockHides`, `CachesAreFresh` | `Owned`: a message belongs to a task that waits for it, and what a task has gathered is of its own query, so that bundles and panels are of one; `FollowWrites`: an answer in a cache, a message or a task is new enough or marked as late; `Page`: what is visible follows from what the page takes the session to be; tokens are counted against the logins that are under way |

None of the stated invariants is inductive alone: freshness needs the clocks of half-finished
calls, the bound of the pool needs the lock, exactness of a day needs what the
overlapping refreshes may still do, a walk needs what the pages in the cache are worth, an answer of the service what its
connection was opened for, the panels of the client every message that is still to come, and a scan everything
it has not got to yet. The proof modules name the strengthenings. The larger ones (`IInv` of `LogQueriesProofs`,
`StatsServiceProofs` and `WebClientProofs`, `ProbeInv`, `ScanInv`) were found with TLC on the instances of the runs, and held there, before they were
proved. Weaken the guard of a step (`Enters`, `Updated`) and its leaf of the proof fails.

Sums, ranks and counts are induction over data. They are proved by a smallest counterexample: the subsets of a finite set
are well founded (`WFMin`), a sum is a recursive function on them, and a smallest set for which the statement were false
would give a smaller one.

What the theorems assume of the constants, beside sizes that are natural numbers:

- `ServiceAssumption`: there is a source to ask, and no connection is the value that stands for none.
- `TokensAssumption`: the names of tokens are finitely many; the column has a length. `IdsAssumption`: so are the request ids, as many as are logged.
  `RatesAssumption`, `UnsetAssumption`: rates are whole numbers of a small unit, and a filter that is not given is no value to filter by.
- `ShapesAssumption`, `OptionsAssumption`: times, quotas, tokens and ratios of rows are numbers, and so are the rates of the options that are not absent.
- `CostOrderAssumption`: where the details are ordered by a cost, the rate of the options is positive. All costs have it as a factor, so
  that a change of it leaves the order alone; a walk through pages ordered by cost relies on that, and a rate of 0 would turn the order into that of the ids.
- `OtherAssumption`: no model, group, channel or path has the name of the tail of a top list. In the code such an entry stands in the list
  beside the tail and nothing is lost; here entries are a set, where the two would be one.
- `DirsAssumption`: every directory has a parent, which may be itself. `FilesAssumption`, `UrisAssumption`: files, edits and URIs hold what
  `IsContent` allows, with hosts and ports of the model's sets. `ProbeAssumption`: the servers are addresses, the ports numbers, and `Installations` says of
  a server which of the four tables it has, how it labels them and whether its latest log can be read.

Only model-checked is liveness: `LockIsReleased`, `ScanEnds` and the part of `CachePromise` that says that every call ends.
They rest on fairness, about which this prover cannot reason. Every other property of a passing run is stated by a theorem;
of the refinement of `CachePromise`, that is its safety part.

## 6. Not modelled, and why

- Of the queries: the averages per minute, the rounding to six places, the JSON and text functions of the two
  dialects (what they return is `Absent` or a value), and the user, group, Request ID and address filters, which are compared as the token is. That the database evaluates its SQL as
  written is assumed.
- Of authentication: HTTP Basic, which this client never sends, and the signature; a token is forged by nobody here.
- In the client: token suggestions (their request could also find the session expired), the health panel, the choice
  of columns, the theme, the drawing and export of charts; sorting and the page size are part of the filters.
- Of the local import: the syntax of YAML and env files, and the paths in the answer. The test for an env file and its reading are one step. Of the
  exports: the layout of the files.
- Health reports, logs and audit records: reports and append-only files. The settings are the constants of the models. Deployment is packaging.
- `QueryCache.clear_all` has no caller.
- The startup validation only logs what its probes say; failures do not stop the service.

Observations that are not findings of a run:

- The weekly trend on MySQL groups by an alias of `MIN(created_at)` (`sql_dialect.py:95`, `stats_repository.py:508`), which
  MySQL rejects (`RefusesTrend`), and its label combines `YEAR()` with the ISO week, which joins days of two years at the turn of the year (left out
  of both models of the trend).
- The daily trend from the table selects an expression of `agg_date` that it does not group by; with
  `ONLY_FULL_GROUP_BY` MySQL may refuse it.
- The costs in the table of aggregates stay those of the options at the refresh (`preaggregation.py:145`), so that a change of the exchange rate
  changes the trend of logs and not that of the table; its columns also round, which the model leaves out. An empty `user_group_ratio` is cast to 0 (`preaggregation.py:184`), where
  the query takes the group ratio (`stats_repository.py:85`); in strict SQL mode the cast fails the insert (`Fail`).
- An option that is there and empty is cast as it stands (`stats_repository.py:95`): 0 on MySQL, an error on PostgreSQL.
- `QUERY_CACHE_TTL` (repository `README.md:154`) is read into the settings and used nowhere: the routes pass their own 60 and 120 seconds.
  `ALLOW_REMOTE_DB` is read and not enforced.
- The button that refreshes the sources (`app.js:942`) is answered from the client's cache.
- A status answer from before a log-out that arrives after it opens the page without a cookie (`app.js:697`) until the next request is refused.
  After a refusal that comes late the page may reopen without its content being loaded.
- A filter of 0, as a channel or a start, is no filter (`Given`).
- A walk can miss rows: a page in the cache is up to the time to live older than the one shown before it. `WalkMissesFew` says how many.
- In a compose service, `env_file` overrides `environment`; in Compose it is the other way round. The two are read at different times, so that
  an edit of both may be seen half.
- Two directories of the same name give one source id, and one of the two candidates disappears.
- `import-uri` leaves the user and password percent-encoded (`schemas/source.py:115`), while `build_mysql_dsn` (`mysql.py:36`) encodes them.
- MySQL 8 labels the column of `information_schema` in upper case, so `row["table_name"]` (`mysql.py:88`) raises there, and the probe of a working source reports it as down
  (`Labelled`, `JudgedRight`).
- A document lists `tokens` and `channels` among the tables that must exist (`docs/postgresql-support.zh-CN.md:47`); `compatible` asks for `logs` and `options` only (`Required`, `JudgedRight`).
- One log whose `other` is not JSON, as long as it is the latest, makes a source fail its check on MySQL and PostgreSQL (`Legible`).

## 7. Plan

Done: registry, cache, pool, aggregates, the service that composes them, the queries with the cost of a row, the probes and
the local import, the web client with its session; the proofs of every safety property of these, and of both refinements.

Left:

1. `OwnDatabase` and `StaleOnlyByPool` with Redis: `StatsService` runs on the memory backend. `AnswersAreFresh` covers both backends, but not
   what an answer was read from.
2. What `FromUri` and `ToSourceDefinition` promise, as lemmas of their own.
3. Token suggestions of the client, whose order of answers is a hazard without a property.
