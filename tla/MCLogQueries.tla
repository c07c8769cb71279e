---------------------------- MODULE MCLogQueries ----------------------------
(* Three rows: enough for a page to be shifted twice, for a list of one    *)
(* with two in its tail, and for two buckets.  The shapes differ in every  *)
(* column that is filtered, ordered or grouped by, and tie in some.        *)
EXTENDS LogQueries

CONSTANTS k1, m1, m2, g1, c1, p1

Row(created, token, model, group, channel, quota) ==
  [created_at |-> created, token |-> token, model |-> model, group |-> group,
   channel |-> channel, path |-> p1, quota |-> quota,
   prompt |-> 3, completion |-> 1, cache_tokens |-> 1, creation |-> 1,
   creation_5m |-> Absent, creation_1h |-> IF quota > 1 THEN 1 ELSE Absent,
   model_ratio |-> 2, completion_ratio |-> 3, cache_ratio |-> 1,
   creation_ratio |-> 2, creation_ratio_5m |-> Absent, creation_ratio_1h |-> 3,
   model_price |-> IF quota > 1 THEN 1 ELSE Absent,
   user_group_ratio |-> -1, group_ratio |-> Absent]

Rows ==
  {Row(1, k1, m1, Unset, 0, 1), Row(4, k1, m2, g1, c1, 1), Row(4, Unset, m1, g1, c1, 2)}

Tables ==
  {[display |-> "USD", usd_rate |-> Absent, custom_rate |-> Absent],
   [display |-> "CNY", usd_rate |-> Absent, custom_rate |-> Absent]}

Form(db, asks, token, model, channel, start, end, size, by, dir) ==
  [db_type |-> db, asks |-> asks, token_name |-> token, model_name |-> model, channel_id |-> channel,
   start_time |-> start, end_time |-> end, page_size |-> size, order_by |-> by,
   order_dir |-> dir, granularity |-> Unset, top_n |-> 1]

Panels == {"summary", "charts", "export", "tokens", "options"}

Asked ==
  {Form("mysql", {"details"}, Unset, Unset, 0, Unset, Unset, 1, "created_at", "desc"),
   Form("mysql", {"details"}, Unset, Unset, Unset, 1, 4, 2, "quota", "asc"),
   Form("mysql", {"details"}, Unset, m1, Unset, 0, 9, 1, "id", "asc"),
   Form("postgres", {"details"}, Unset, Unset, Unset, 1, 4, 1, "cost_output", "desc"),
   Form("mysql", Panels, k1, Unset, 0, 1, 4, 1, "id", "desc"),
   Form("mysql", {"trend", "breakdown"}, Unset, m1, c1, 0, 9, 1, "id", "desc"),
   Form("postgres", {"trend", "breakdown"}, Unset, Unset, Unset, 1, 8, 1, "id", "desc"),
   Form("mariadb", {"trend"}, Unset, Unset, Unset, 1, 8, 1, "id", "desc")}

Contains == [m \in {m1, m2} |-> {m}]
=============================================================================
