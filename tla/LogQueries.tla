----------------------------- MODULE LogQueries -----------------------------
(***************************************************************************)
(* The queries of app/repositories/stats_repository.py and                 *)
(* meta_repository.py, and the exports of app/api/routes/export.py, while  *)
(* the gateway goes on logging.                                            *)
(*                                                                         *)
(* A request runs one SQL statement after the other on an autocommit       *)
(* connection: each sees the logs and the options as they are when it is   *)
(* run.  The details are two statements, the charts five.  A reader walks  *)
(* through the pages of the details, some of which the server has kept in  *)
(* its cache (QueryCache says how; here a page is kept until it expires,   *)
(* at any time).                                                           *)
(*                                                                         *)
(* The trend is that of the logs: DailyAggregates has the other one.  Time *)
(* is a number of slots.  The user, group, Request ID and address filters  *)
(* are compared as the token is, and left out.                             *)
(***************************************************************************)
EXTENDS TokenCost, Sequences, FiniteSets, FiniteSetsExt

CONSTANTS
  Shapes,        (* the rows that may be logged, all of type 2             *)
  Options,       (* the contents that the options table may have           *)
  Forms,         (* what the reader may ask: the kinds of requests, filter, *)
                 (* order, page size, ...                                  *)
  Like,          (* for each model name to filter by, the models that      *)
                 (* contain it                                             *)
  Hour, Day, Week, LongSpan,  (* lengths in slots; LongSpan is 90 days     *)
  TokenLimit,    (* limit of list_token_names                              *)
  Unset,         (* no value: NULL, the empty string, a filter not given   *)
  Other,         (* the name of the entry that stands for the tail         *)
  MaxLogs        (* bound: rows of a behaviour                             *)

Kinds == {"summary", "details", "export", "trend", "breakdown", "charts", "tokens", "options"}

ASSUME LengthsAssumption ==
  /\ {Hour, Day, Week} \subseteq Nat \ {0}
  /\ LongSpan \in Nat /\ MaxLogs \in Nat \ {0}
ASSUME ShapesAssumption ==
  \A row \in Shapes :
    /\ {row.created_at, row.quota} \subseteq Nat
    /\ {row.prompt, row.completion} \subseteq Int
    /\ {row.cache_tokens, row.creation, row.creation_5m, row.creation_1h, row.model_ratio,
        row.completion_ratio, row.cache_ratio, row.model_price, row.user_group_ratio,
        row.group_ratio} \subseteq Int \union {Absent}
(* The entries of a breakdown are a set here: in the list of the code, one *)
(* that has the name of the tail would stand beside it.                    *)
ASSUME OtherAssumption ==
  \A row \in Shapes : Other \notin {row.model, row.group, row.channel, row.path}
ASSUME OptionsAssumption ==
  \A o \in Options : {o.usd_rate, o.custom_rate} \subseteq Int \union {Absent}
ASSUME FormsAssumption ==
  \A f \in Forms :
    f.asks \subseteq Kinds /\ f.page_size \in Nat \ {0} /\ f.top_n \in Nat \ {0}
(* The columns of TokenCost for the orders by a cost.  A walk in such an   *)
(* order goes by what the exchange rate makes of it: at every positive one *)
(* the order is the same, and none else is set meanwhile.                  *)
CostOrders == [cost_total |-> "actual_cost", cost_input |-> "input_cost",
               cost_output |-> "output_cost", cost_cache_read |-> "cache_read_cost"]
ASSUME CostOrderAssumption ==
  \A f \in Forms, o \in Options : f.order_by \in DOMAIN CostOrders => Rate(o) > 0

VARIABLES
  logs,     (* external: the rows of logs, in the order of their ids       *)
  options,  (* external: the options table                                 *)
  form,     (* what the reader asks for; it does not change                *)
  request,  (* the request being answered: its kind, and page of details   *)
  results,  (* what the statements run so far have returned                *)
  kept,     (* pages of details in the cache                               *)
  walk,     (* how far the reader has got, from page 1 on                  *)
  (* Auxiliary: the logs and options that each statement has seen.         *)
  seenBy

vars == <<logs, options, form, request, results, kept, walk, seenBy>>

-----------------------------------------------------------------------------
(* _build_filtered_cost_cte.                                               *)

Given(value) == value \notin {Unset, 0}

Passes(row, f) ==
  /\ Given(f.token_name) => row.token = f.token_name
  /\ Given(f.model_name) => row.model \in Like[f.model_name]
  /\ Given(f.channel_id) => row.channel = f.channel_id
  /\ Given(f.start_time) => row.created_at >= f.start_time
  /\ Given(f.end_time) => row.created_at =< f.end_time

(* The rows that pass, of the first n ever logged.                         *)
Matching(n) == {i \in 1 .. n : Passes(logs[i], form)}

(* What a part of an answer says of the rows S.                            *)
SumOver(S, c) == SumFunction([i \in S |-> Column(logs[i], Rate(options), c)])
Totals(S) == [request_count |-> Cardinality(S), cost |-> SumOver(S, "actual_cost")]

-----------------------------------------------------------------------------
(* get_token_cost_summary: without averages per minute.                    *)
TokenColumns == {"input_tokens", "output_tokens", "cache_read_tokens", "cache_write_tokens"}
Summary(S) ==
  [request_count         |-> Cardinality(S),
   sums                  |-> [c \in Columns |-> SumOver(S, c)],
   total_tokens_consumed |-> SumFunction([c \in TokenColumns |-> SumOver(S, c)])]

(* get_token_cost_details: ORDER BY order_by order_dir, id DESC.           *)
OrderKeyAt(i, rate) ==
  CASE form.order_by = "id"    -> i
    [] form.order_by = "quota" -> logs[i].quota
    [] form.order_by \in DOMAIN CostOrders ->
         Column(logs[i], rate, CostOrders[form.order_by])
    [] OTHER                   -> logs[i].created_at
OrderKey(i) == OrderKeyAt(i, Rate(options))
Before(i, j) ==
  LET a == OrderKey(i) b == OrderKey(j)
  IN  \/ IF form.order_dir = "asc" THEN a < b ELSE a > b
      \/ a = b /\ i > j
Rank(n, i) == Cardinality({j \in Matching(n) : Before(j, i)})

OffsetMutant(page) == page * form.page_size
Offset(page) == (page - 1) * form.page_size
PageRows(n, page) ==
  {i \in Matching(n) : Rank(n, i) \in Offset(page) .. Offset(page) + form.page_size - 1}

(* get_token_cost_trend: _pick_granularity and the points by bucket.       *)
Granularity ==
  LET span == form.end_time - form.start_time
  IN  IF form.granularity # Unset THEN form.granularity
      ELSE IF ~Given(form.start_time) \/ ~Given(form.end_time) THEN "day"
      ELSE IF span > 0 /\ span =< 2 * Day THEN "hour"
      ELSE IF span =< LongSpan THEN "day"
      ELSE "week"
Width == CASE Granularity = "hour" -> Hour
           [] Granularity = "week" -> Week
           [] OTHER                -> Day
Bucket(i) == logs[i].created_at \div Width
Trend(S) ==
  [b \in {Bucket(i) : i \in S} |-> Totals({i \in S : Bucket(i) = b})]

(* MySQL refuses the weekly trend: it does not GROUP BY the alias of an    *)
(* aggregate, and the bucket_sort of a week is MIN(created_at).            *)
RefusesTrend == form.db_type # "postgres" /\ Granularity = "week"

(* get_token_cost_breakdown: a statement for each dimension.               *)
Dimensions == <<"model", "group", "channel", "path">>
Groups(S, d) ==
  {[name |-> v, totals |-> Totals({i \in S : logs[i][d] = v})] : v \in {logs[i][d] : i \in S}}

(* ORDER BY actual_cost_total DESC, request_count DESC.                    *)
Above(g, h) ==
  \/ g.totals.cost > h.totals.cost
  \/ g.totals.cost = h.totals.cost /\ g.totals.request_count > h.totals.request_count

AddUp(G) ==
  [request_count |-> SumFunction([g \in G |-> g.totals.request_count]),
   cost          |-> SumFunction([g \in G |-> g.totals.cost])]

RestMutant(G, head) == {g \in G \ head : \E h \in G \ head : Above(h, g)}
Rest(G, head) == G \ head

(* _top_n_with_other: rows that tie come in any order.                     *)
TopN(G) ==
  IF Cardinality(G) =< form.top_n THEN {G}
  ELSE {head \union {[name |-> Other, totals |-> AddUp(Rest(G, head))]} :
          head \in {H \in kSubset(form.top_n, G) : \A h \in H, g \in G \ H : ~Above(g, h)}}

(* list_token_names: the tokens most recently used.                        *)
TokenNames ==
  LET used == {i \in 1 .. Len(logs) : logs[i].token # Unset}
      Latest(k) == CHOOSE t \in {logs[i].created_at : i \in {j \in used : logs[j].token = k}} :
                     \A i \in used : logs[i].token = k => logs[i].created_at =< t
      names == {logs[i].token : i \in used}
  IN  {T \in SUBSET names :
         /\ Cardinality(T) = IF Cardinality(names) =< TokenLimit
                               THEN Cardinality(names) ELSE TokenLimit
         /\ \A k \in T, l \in names \ T : Latest(k) >= Latest(l)}

-----------------------------------------------------------------------------
(* Requests.                                                               *)

NoRequest == [kind |-> "none", page |-> 0]
Pages == 1 .. MaxLogs

StatementsMutant(kind) ==
  CASE kind = "none"      -> <<>>
    [] kind = "details"   -> <<"rows", "total">>
    [] kind = "breakdown" -> Dimensions
    [] kind = "charts"    -> <<"trend">> \o Dimensions
    [] OTHER              -> <<kind>>
Statements(kind) ==
  CASE kind = "none"      -> <<>>
    [] kind = "details"   -> <<"total", "rows">>
    [] kind = "breakdown" -> Dimensions
    [] kind = "charts"    -> <<"trend">> \o Dimensions
    [] OTHER              -> <<kind>>

(* What a statement may return; nothing if the database refuses it.        *)
Answers(statement) ==
  LET n == Len(logs) S == Matching(n)
  IN  CASE statement = "summary" -> {Summary(S)}
        [] statement = "total"   -> {Cardinality(S)}
        [] statement = "rows"    -> {PageRows(n, request.page)}
        [] statement = "export"  -> {S}
        [] statement = "trend"   -> IF RefusesTrend THEN {} ELSE {Trend(S)}
        [] statement = "tokens"  -> TokenNames
        [] statement = "options" -> {options}
        [] OTHER                 -> TopN(Groups(S, statement))

Running  == Len(results) < Len(Statements(request.kind))
Complete == request # NoRequest /\ ~Running

NoPage == [total |-> 0, rows |-> {}, totalOf |-> 0, rowsOf |-> 0]
NoWalk == [page |-> 0, from |-> 0, shown |-> {}, last |-> NoPage, missable |-> 0]

Init ==
  /\ logs \in UNION {[1 .. n -> Shapes] : n \in 0 .. MaxLogs}
  /\ options \in Options
  /\ form \in Forms
  /\ request = NoRequest
  /\ results = <<>>
  /\ kept = [p \in {} |-> NoPage]
  /\ walk = NoWalk
  /\ seenBy = <<>>

(* External: the gateway logs a request, or its options are changed.       *)
AddLog(row) ==
  /\ Len(logs) < MaxLogs
  /\ logs' = Append(logs, row)
  /\ UNCHANGED <<options, form, request, results, kept, walk, seenBy>>

ChangeOptions ==
  /\ options' \in Options \ {options}
  /\ UNCHANGED <<logs, form, request, results, kept, walk, seenBy>>

Begin(kind, page) ==
  /\ request = NoRequest
  /\ request' = [kind |-> kind, page |-> page]
  /\ UNCHANGED <<logs, options, form, results, kept, walk, seenBy>>

(* The pages a reader may ask for: the first, or the one after that shown, *)
(* if the total shown says that there is one (updatePagination).  A reader *)
(* who goes back sees pages again, and is left out.                        *)
LastPage == walk.page * form.page_size >= walk.last.total
Reachable == {1} \union IF walk.page > 0 /\ ~LastPage THEN {walk.page + 1} ELSE {}

Ask(kind) == kind # "details" /\ Begin(kind, 0)
AskPage(p) == "details" \in form.asks /\ p \notin DOMAIN kept /\ Begin("details", p)

(* execute_query, of the next statement.                                   *)
Execute ==
  /\ Running
  /\ \E r \in Answers(Statements(request.kind)[Len(results) + 1]) :
       results' = Append(results, r)
  /\ seenBy' = Append(seenBy, [rows |-> Len(logs), options |-> options])
  /\ UNCHANGED <<logs, options, form, request, kept, walk>>

EndMutant == request' = NoRequest /\ seenBy' = <<>> /\ UNCHANGED results
End ==
  /\ request' = NoRequest
  /\ results' = <<>>
  /\ seenBy' = <<>>

(* A statement fails, or the connection does: the whole request fails.     *)
Fail ==
  /\ Running
  /\ End
  /\ UNCHANGED <<logs, options, form, kept, walk>>

(* The reader is shown a page.                                             *)
Arrived(m, n) == IF m < n THEN Cardinality(Matching(n) \ Matching(m)) ELSE 0
Shown(p, page) ==
  IF p = 1
    THEN [page |-> 1, from |-> page.rowsOf, shown |-> page.rows, last |-> page,
          missable |-> 0]
    ELSE [page |-> p, from |-> walk.from, shown |-> walk.shown \union page.rows,
          last |-> page,
          missable |-> walk.missable + Arrived(page.rowsOf, walk.last.rowsOf)]

ShowKept(p) ==
  /\ request = NoRequest
  /\ p \in DOMAIN kept
  /\ walk' = Shown(p, kept[p])
  /\ UNCHANGED <<logs, options, form, request, results, kept, seenBy>>

Place(statement) ==
  CHOOSE k \in 1 .. Len(results) : Statements(request.kind)[k] = statement
Result(statement) == results[Place(statement)]
Seen(statement)   == seenBy[Place(statement)].rows

Answer ==
  /\ Complete
  /\ IF request.kind = "details"
       THEN LET page == [total |-> Result("total"), rows |-> Result("rows"),
                         totalOf |-> Seen("total"), rowsOf |-> Seen("rows")]
            IN  /\ kept' = [p \in DOMAIN kept \union {request.page} |->
                           IF p = request.page THEN page ELSE kept[p]]
                /\ walk' = Shown(request.page, page)
       ELSE UNCHANGED <<kept, walk>>
  /\ End
  /\ UNCHANGED <<logs, options, form>>

Expire(p) ==
  /\ kept' = [q \in DOMAIN kept \ {p} |-> kept[q]]
  /\ UNCHANGED <<logs, options, form, request, results, walk, seenBy>>

Next ==
  \/ \E row \in Shapes : AddLog(row)
  \/ ChangeOptions
  \/ \E kind \in form.asks : Ask(kind)
  \/ \E p \in Reachable : AskPage(p) \/ ShowKept(p)
  \/ Execute \/ Answer \/ Fail
  \/ \E p \in DOMAIN kept : Expire(p)

Spec == Init /\ [][Next]_vars

-----------------------------------------------------------------------------
(* Type invariant.                                                         *)
Counts == 0 .. MaxLogs
PageAnswers == [total : Counts, rows : SUBSET Pages, totalOf : Counts, rowsOf : Counts]
TypeOK ==
  /\ logs \in Seq(Shapes) /\ Len(logs) =< MaxLogs
  /\ options \in Options
  /\ form \in Forms
  /\ request \in {NoRequest} \union [kind : Kinds \ {"details"}, page : {0}]
                 \union [kind : {"details"}, page : Pages]
  /\ Len(results) = Len(seenBy) /\ Len(results) =< Len(Statements(request.kind))
  /\ seenBy \in Seq([rows : Counts, options : Options])
  /\ DOMAIN kept \subseteq Pages /\ \A p \in DOMAIN kept : kept[p] \in PageAnswers
  /\ walk \in [page : {0} \union Pages, from : Counts, shown : SUBSET Pages,
               last : PageAnswers, missable : Nat]

(* Every part of an answer accounts for each row that passed the filter    *)
(* when its statement was run, once, at the rate of that moment: no row    *)
(* falls between two buckets of the trend or out of the tail of a top list. *)
(* So the parts of a chart differ by no more than what was logged, or      *)
(* changed in the options, between the statements they come from.          *)
Total(statement, result) ==
  CASE statement = "trend" ->
         [request_count |-> SumFunction([b \in DOMAIN result |-> result[b].request_count]),
          cost          |-> SumFunction([b \in DOMAIN result |-> result[b].cost])]
    [] statement = "summary" ->
         [request_count |-> result.request_count, cost |-> result.sums["actual_cost"]]
    [] OTHER -> AddUp(result)

Reference(seen) ==
  LET S == Matching(seen.rows)
  IN  [request_count |-> Cardinality(S),
       cost          |-> SumFunction([i \in S |-> CostTotal(logs[i], Rate(seen.options))])]

EveryLogCounted ==
  request.kind \in {"summary", "trend", "breakdown", "charts"} =>
    \A k \in 1 .. Len(results) :
      Total(Statements(request.kind)[k], results[k]) = Reference(seenBy[k])

(* The total is counted before the page is read, and rows are only added:  *)
(* a page that the total promises is never short of rows, whatever is      *)
(* logged between the two statements.                                      *)
Promised(page, total) ==
  LET left == total - Offset(page)
  IN  IF left > form.page_size THEN form.page_size ELSE left
PageWithinTotal ==
  Complete /\ request.kind = "details" =>
    Cardinality(Result("rows")) >= Promised(request.page, Result("total"))

(* A reader who walks to the last page, in whichever order and however     *)
(* much is logged meanwhile, has been shown every row that was there when  *)
(* the walk began, but for at most as many as were logged where the walk   *)
(* looks back: between the total and the rows of the last page, and        *)
(* between a page that came from the cache and a newer one before it.      *)
Missed == Matching(walk.from) \ walk.shown
WalkMissesFew ==
  walk.page > 0 /\ LastPage =>
    Cardinality(Missed) =<
      walk.missable + Cardinality(Matching(walk.last.rowsOf)) - walk.last.total
=============================================================================
