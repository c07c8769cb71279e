--------------------------- MODULE DailyAggregates ---------------------------
(***************************************************************************)
(* The table of daily aggregates of a MySQL or MariaDB source:             *)
(* app/services/preaggregation.py, the script that refreshes it, and the   *)
(* trend that reads it (get_token_cost_trend).                             *)
(*                                                                         *)
(* refresh_daily_aggregates() deletes the days of its range and inserts    *)
(* them anew from the logs.  Its connection is in autocommit mode, so each *)
(* statement is a transaction of its own: queries and other refreshes (the *)
(* script is a process, and any number may run) see the table in between.  *)
(*                                                                         *)
(* Time is a number of slots, PerDay to a day of the database's time zone. *)
(* Of the columns that rows are grouped by, the token stands for all.  Of  *)
(* those that are summed, the number of requests stands for the ones that  *)
(* the logs determine (the quota, the tokens), and the cost of one unit a  *)
(* request for the ones that are also priced, with a factor from the       *)
(* options table: the refresh prices what it inserts with the options of   *)
(* its time, the query on the logs with those of now.                      *)
(***************************************************************************)
EXTENDS Integers, FiniteSets, Functions

CONSTANTS
  Refreshers,  (* processes that run scripts/refresh_daily_aggregates.py   *)
  Tokens,      (* token names                                              *)
  Ips,         (* client addresses: a column of logs, not of the aggregates*)
  Ids,         (* request ids, the same; as many are logged as there are   *)
  NDays,       (* days of the model                                        *)
  PerDay,      (* slots of a day                                           *)
  PerWeek,     (* days of a week                                           *)
  Rates,       (* what the options table may make of cost_factor           *)
  HostShift,   (* for each refresher, the slots by which the days of its   *)
               (* host begin later than those of the database              *)
  MinSpan,     (* slots from which a trend uses the aggregates (60 days)   *)
  Unset          (* no value: a filter or an end of a range is not given     *)

Days  == 0 .. NDays - 1
Slots == 0 .. NDays * PerDay - 1
Logs  == [id : Ids, slot : Slots, token : Tokens, ip : Ips, blank : BOOLEAN]

ASSUME SizesAssumption ==
  /\ NDays \in Nat \ {0} /\ PerDay \in Nat \ {0} /\ PerWeek \in Nat \ {0}
  /\ MinSpan \in Nat
  /\ HostShift \in [Refreshers -> Nat]
(* Names of tokens are of bounded length.                                  *)
ASSUME TokensAssumption == IsFiniteSet(Tokens)
ASSUME IdsAssumption == IsFiniteSet(Ids)
ASSUME RatesAssumption == Rates \subseteq Nat
ASSUME UnsetAssumption == Unset \notin Nat \union Tokens \union Ips \union Ids

VARIABLES
  logs,       (* external: the rows of logs with type 2, only ever added;  *)
              (* one is blank if its user_group_ratio is an empty text     *)
  rate,       (* external: cost_factor, as the options table has it now    *)
  table,      (* log_daily_aggregates exists                               *)
  agg,        (* request_count of the row of each day and token; 0: no row *)
  costs,      (* its cost                                                  *)
  pc,         (* where each refresher is                                   *)
  range,      (* start_time and end_time of each refresher                 *)
  (* Auxiliary: no action reads these to decide what the code does.        *)
  overlapped, (* another refresh ran while this one did                    *)
  pricedAt    (* for each day that a refresh has covered whole, without    *)
              (* overlap, and that has had neither a log nor a delete      *)
              (* since: the rate of that refresh                           *)

vars == <<logs, rate, table, agg, costs, pc, range, overlapped, pricedAt>>

(* The days that such a refresh vouches for.                               *)
exact == {d \in Days : pricedAt[d] # Unset}

-----------------------------------------------------------------------------
DayOf(slot) == slot \div PerDay

(* to_timestamp: the first and the last second of days of the host.        *)
Ranges(p) ==
  [from : {Unset} \union {d * PerDay + HostShift[p] : d \in Days},
   to   : {Unset} \union {d * PerDay + HostShift[p] + PerDay - 1 : d \in Days}]
NoRange == [from |-> Unset, to |-> Unset]

(* created_at >= start_time AND created_at <= end_time, of those given (the *)
(* code takes 0 for not given: midnight of 1 January 1970, no slot here).  *)
InRangeMutant(slot, r) ==
  (r.from # Unset => slot >= r.from) /\ (r.to # Unset => slot < r.to)
InRange(slot, r) ==
  (r.from # Unset => slot >= r.from) /\ (r.to # Unset => slot =< r.to)

(* agg_date >= DATE(start_time) AND agg_date <= DATE(end_time).            *)
InDays(day, r) ==
  (r.from # Unset => day >= DayOf(r.from)) /\ (r.to # Unset => day =< DayOf(r.to))

(* The range covers the day whole.                                         *)
Whole(day, r) ==
  /\ r.from # Unset => r.from =< day * PerDay
  /\ r.to # Unset => r.to >= day * PerDay + PerDay - 1

(* The rows that GROUP BY makes of the logs of a range.                    *)
Grouped(r, d, k) ==
  {l \in logs : DayOf(l.slot) = d /\ l.token = k /\ InRange(l.slot, r)}
Rows(r) ==
  [d \in Days |-> [k \in Tokens |-> Cardinality(Grouped(r, d, k))]]

(* Their costs.  r_group casts an empty user_group_ratio to 0; the query   *)
(* on the logs takes the group_ratio for it, here 1.                       *)
Priced(r) ==
  [d \in Days |-> [k \in Tokens |->
     rate * Cardinality({l \in Grouped(r, d, k) : ~l.blank})]]

NoRows == [d \in Days |-> [k \in Tokens |-> 0]]

-----------------------------------------------------------------------------
Init ==
  /\ logs = {}
  /\ rate \in Rates
  /\ table = FALSE
  /\ agg = NoRows
  /\ costs = NoRows
  /\ pc = [p \in Refreshers |-> "idle"]
  /\ range = [p \in Refreshers |-> NoRange]
  /\ overlapped = [p \in Refreshers |-> FALSE]
  /\ pricedAt = [d \in Days |-> Unset]

(* External: the gateway logs a request, at any time of any day.           *)
AddLog(id, slot, k, ip, blank) ==
  /\ \A l \in logs : l.id # id
  /\ logs' = logs \union {[id |-> id, slot |-> slot, token |-> k,
                           ip |-> ip, blank |-> blank]}
  /\ pricedAt' = [pricedAt EXCEPT ![DayOf(slot)] = Unset]
  /\ UNCHANGED <<rate, table, agg, costs, pc, range, overlapped>>

(* External: the administrator of the gateway changes the exchange rate,   *)
(* the currency or QuotaPerUnit.                                           *)
ChangeOptions ==
  /\ \E new \in Rates \ {rate} : rate' = new
  /\ UNCHANGED <<logs, table, agg, costs, pc, range, overlapped, pricedAt>>

Running == {p \in Refreshers : pc[p] # "idle"}

(* The script starts, and ensure_daily_aggregate_table succeeds.           *)
Begin(p, r) ==
  /\ pc[p] = "idle"
  /\ table' = TRUE
  /\ pc' = [pc EXCEPT ![p] = "delete"]
  /\ range' = [range EXCEPT ![p] = r]
  /\ overlapped' = [q \in Refreshers |->
       IF q = p THEN Running # {} ELSE overlapped[q] \/ q \in Running]
  /\ UNCHANGED <<logs, rate, agg, costs, pricedAt>>

Deleted(column, r) ==
  [d \in Days |-> IF InDays(d, r) THEN [k \in Tokens |-> 0] ELSE column[d]]

(* preagg_delete_range, committed on its own.                              *)
Delete(p) ==
  /\ pc[p] = "delete"
  /\ agg' = Deleted(agg, range[p])
  /\ costs' = Deleted(costs, range[p])
  /\ pricedAt' = [d \in Days |-> IF InDays(d, range[p]) THEN Unset ELSE pricedAt[d]]
  /\ pc' = [pc EXCEPT ![p] = "insert"]
  /\ UNCHANGED <<logs, rate, table, range, overlapped>>

(* The primary key: the whole statement fails if it would insert a row     *)
(* that is there.                                                          *)
CollidesMutant(rows) == FALSE
Collides(rows) == \E d \in Days, k \in Tokens : rows[d][k] > 0 /\ agg[d][k] > 0

Finish(p) ==
  /\ pc' = [pc EXCEPT ![p] = "idle"]
  /\ range' = [range EXCEPT ![p] = NoRange]
  /\ overlapped' = [overlapped EXCEPT ![p] = FALSE]

Added(column, rows) ==
  [d \in Days |-> [k \in Tokens |-> column[d][k] + rows[d][k]]]

(* preagg_refresh_insert, committed on its own.                            *)
Insert(p) ==
  LET covered == {d \in Days : Whole(d, range[p]) /\ ~overlapped[p]}
  IN  /\ pc[p] = "insert"
      /\ ~Collides(Rows(range[p]))
      /\ agg' = Added(agg, Rows(range[p]))
      /\ costs' = Added(costs, Priced(range[p]))
      /\ pricedAt' = [d \in Days |-> IF d \in covered THEN rate ELSE pricedAt[d]]
      /\ Finish(p)
      /\ UNCHANGED <<logs, rate, table>>

(* A statement fails (a collision, a lost connection, in strict SQL mode   *)
(* the cast of a blank ratio), or the script is killed: what has been      *)
(* deleted stays deleted.                                                  *)
Fail(p) ==
  /\ pc[p] # "idle"
  /\ Finish(p)
  /\ UNCHANGED <<logs, rate, table, agg, costs, pricedAt>>

Next ==
  \/ \E id \in Ids, slot \in Slots, k \in Tokens, ip \in Ips, blank \in BOOLEAN :
       AddLog(id, slot, k, ip, blank)
  \/ ChangeOptions
  \/ \E p \in Refreshers :
       \/ \E r \in Ranges(p) : Begin(p, r)
       \/ Delete(p)
       \/ Insert(p)
       \/ Fail(p)

Spec == Init /\ [][Next]_vars

-----------------------------------------------------------------------------
(* The trend by day or week.  Reading changes nothing, so it is an         *)
(* operator on the state rather than an action; has_daily_aggregate_table  *)
(* may be asked earlier than the table is read, but the table is never     *)
(* dropped.  A point of it has the days of a bucket.                       *)

FiltersBy(ips, ids) ==
  [token : Tokens \union {Unset}, ip : ips \union {Unset}, request : ids \union {Unset},
   from : Slots, to : Slots, granularity : {"hour", "day", "week"}]
Filters == FiltersBy(Ips, Ids)

Matches(value, wanted) == wanted = Unset \/ value = wanted

(* What get_token_cost_trend chooses.                                      *)
UsesAggregates(f) ==
  /\ f.granularity \in {"day", "week"}
  /\ f.to > f.from /\ f.to - f.from >= MinSpan
  /\ table

Bucket(d, granularity) ==
  IF granularity = "week" THEN {e \in Days : e \div PerWeek = d \div PerWeek}
  ELSE {d}

Total(column, cells) ==
  FoldFunctionOnSet(LAMBDA x, y : x + y, 0,
                    [c \in Days \X Tokens |-> column[c[1]][c[2]]], cells)

(* get_daily_aggregate_trend has no column to filter the address by, and   *)
(* answers a request id with no points.                                    *)
TokensMutant(f) == Tokens
TokensOf(f) == {k \in Tokens : Matches(k, f.token)}
CellsOf(f, B) == {d \in B : InDays(d, f)} \X TokensOf(f)
AggregatePoint(f, B) ==
  IF f.request # Unset THEN [count |-> 0, cost |-> 0]
  ELSE [count |-> Total(agg, CellsOf(f, B)), cost |-> Total(costs, CellsOf(f, B))]

(* The query on the logs.                                                  *)
Matching(f, B) ==
  {l \in logs : /\ DayOf(l.slot) \in B
                /\ InRange(l.slot, f)
                /\ Matches(l.token, f.token)
                /\ Matches(l.ip, f.ip)
                /\ Matches(l.id, f.request)}
RawPoint(f, B) ==
  [count |-> Cardinality(Matching(f, B)), cost |-> rate * Cardinality(Matching(f, B))]

-----------------------------------------------------------------------------
(* Type invariant.                                                         *)
TypeOK ==
  /\ logs \subseteq Logs
  /\ IsFiniteSet(logs)
  /\ rate \in Rates
  /\ table \in BOOLEAN
  /\ agg \in [Days -> [Tokens -> 0 .. Cardinality(Ids)]]
  /\ costs \in [Days -> [Tokens -> Nat]]
  /\ pc \in [Refreshers -> {"idle", "delete", "insert"}]
  /\ \A p \in Refreshers : range[p] \in Ranges(p)
  /\ overlapped \in [Refreshers -> BOOLEAN]
  /\ pricedAt \in [Days -> Rates \union {Unset}]

LogsOf(d, k) == {l \in logs : DayOf(l.slot) = d /\ l.token = k}

(* No log is counted twice, though refreshes of overlapping ranges         *)
(* interleave their deletes and inserts and fail half-way.                 *)
NoDoubleCount ==
  \A d \in Days, k \in Tokens : agg[d][k] =< Cardinality(LogsOf(d, k))

(* A refresh that no other overlaps makes every day it covers whole agree  *)
(* with the logs, whatever failed, killed or overlapping refreshes left    *)
(* there: their number, and their cost with the options of that refresh,   *)
(* the blank ones at nothing.  Only a later log or refresh ends that; a    *)
(* change of the options does not touch the table.  Days it covers in part *)
(* (the edges of its range, when host and database are in different time   *)
(* zones) are not promised.                                                *)
RefreshedExact ==
  \A d \in exact, k \in Tokens :
    /\ agg[d][k] = Cardinality(LogsOf(d, k))
    /\ costs[d][k] = pricedAt[d] * Cardinality({l \in LogsOf(d, k) : ~l.blank})

(* The trend from the table, of a bucket whose days in the range are such  *)
(* days: its counts are those of the logs; its costs are those that the    *)
(* query on the logs would give if the options are still those the days    *)
(* were priced with, and none of the logs is blank.                        *)
PricedNow(f, B) ==
  /\ \A d \in B : InDays(d, f) => pricedAt[d] = rate
  /\ \A l \in Matching(f, B) : ~l.blank
AgreesWithLogs(f) ==
  UsesAggregates(f) =>
    \A B \in {Bucket(d, f.granularity) : d \in Days} :
      (\A d \in B : InDays(d, f) => d \in exact /\ Whole(d, f)) =>
        LET ofTable == AggregatePoint(f, B)
            ofLogs  == RawPoint(f, B)
        IN  /\ ofTable.count = ofLogs.count
            /\ PricedNow(f, B) => ofTable.cost = ofLogs.cost

(* Neither the address nor a request id is asked for.                      *)
PlainFilters == FiltersBy({}, {})

(* Switching to the aggregates changes the trend of exact days only by the *)
(* options that the costs are priced with, and by the blank logs.          *)
TrendExact == \A f \in PlainFilters : AgreesWithLogs(f)

(* "filter by time range, token, model, user, group, channel, Request ID,  *)
(* IP" (README.md): the trend honours the filters it is given.             *)
TrendHonoursIp == \A f \in Filters : f.request = Unset => AgreesWithLogs(f)
=============================================================================
