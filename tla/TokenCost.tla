----------------------------- MODULE TokenCost -----------------------------
(***************************************************************************)
(* What a row of logs costs: the expressions of _build_filtered_cost_cte   *)
(* (app/repositories/stats_repository.py).  They are functions of the row  *)
(* and of the options table alone.                                         *)
(*                                                                         *)
(* Prices and ratios are decimals in the database.  Here a ratio is a      *)
(* number of parts of One, the number that stands for 1.0, and costs are   *)
(* counted in units of 1 / (QuotaPerUnit * One^3), so that they stay       *)
(* integers; the rounding to six places is left out.                       *)
(***************************************************************************)
EXTENDS Integers

CONSTANTS
  Absent,       (* a key that a row's JSON lacks or leaves empty, or that  *)
                (* the options lack                                        *)
  One,          (* 1.0                                                     *)
  QuotaPerUnit  (* the option of that name, 500000 when it is absent       *)

ASSUME OneAssumption ==
  /\ One \in Nat \ {0}
  /\ QuotaPerUnit \in Nat \ {0}
ASSUME AbsentAssumption == Absent \notin Int

OrDefault(value, default) == IF value = Absent THEN default ELSE value

(* cast_bigint_or_default, cast_decimal_or_default.                        *)
Number(value) == OrDefault(value, 0)
AtLeast0(x) == IF x > 0 THEN x ELSE 0

(* The sys part: how many units of the displayed currency a dollar is.  An *)
(* option that is there and empty is cast as it stands: MySQL makes 0 of   *)
(* it, not the default, and PostgreSQL raises.                             *)
Rate(options) ==
  CASE options.display = "CNY"    -> OrDefault(options.usd_rate, 7)
    [] options.display = "CUSTOM" -> OrDefault(options.custom_rate, 1)
    [] OTHER                      -> 1

(* The ratio of the user's group, unless it is -1, or of the row's group.  *)
GroupRatio(row) ==
  IF row.user_group_ratio \notin {Absent, -1}
    THEN row.user_group_ratio
    ELSE OrDefault(row.group_ratio, One)

FixedPrice(row) == Number(row.model_price) > 0

-----------------------------------------------------------------------------
(* Tokens.                                                                 *)

CacheRead(row) == Number(row.cache_tokens)

(* The tokens written for five minutes or an hour replace the plain total. *)
Timed(row) == Number(row.creation_5m) + Number(row.creation_1h)
CacheWrite(row) == IF Timed(row) > 0 THEN Timed(row) ELSE Number(row.creation)

PurePrompt(row) == AtLeast0(row.prompt - CacheRead(row) - CacheWrite(row))

TokensConsumed(row) ==
  PurePrompt(row) + row.completion + CacheRead(row) + CacheWrite(row)

-----------------------------------------------------------------------------
(* Costs.                                                                  *)

(* What a token costs at a ratio; a million of them, up_input and so on.   *)
TokenPrice(row, rate, ratio) ==
  IF FixedPrice(row) THEN 0
  ELSE Number(row.model_ratio) * ratio * GroupRatio(row) * rate

CostTotal(row, rate) == row.quota * rate * One * One * One
CostInput(row, rate) == PurePrompt(row) * TokenPrice(row, rate, One)
CostOutput(row, rate) ==
  row.completion * TokenPrice(row, rate, Number(row.completion_ratio))
CostCacheRead(row, rate) ==
  CacheRead(row) * TokenPrice(row, rate, Number(row.cache_ratio))
CostCacheSaving(row, rate) ==
  AtLeast0(CacheRead(row) * TokenPrice(row, rate, One - Number(row.cache_ratio)))
CostCacheWrite(row, rate) ==
  IF Timed(row) > 0
    THEN Number(row.creation_5m) * TokenPrice(row, rate, Number(row.creation_ratio_5m))
       + Number(row.creation_1h) * TokenPrice(row, rate, Number(row.creation_ratio_1h))
    ELSE Number(row.creation) * TokenPrice(row, rate, Number(row.creation_ratio))
CostFixed(row, rate) ==
  IF FixedPrice(row)
    THEN row.model_price * GroupRatio(row) * rate * QuotaPerUnit * One
    ELSE 0

(* The columns of the summary that sum a column of cost_detail.            *)
Columns ==
  {"quota", "input_tokens", "output_tokens", "cache_read_tokens", "cache_write_tokens",
   "actual_cost", "input_cost", "output_cost", "cache_read_cost", "cache_saving",
   "cache_write_cost", "fixed_cost"}

Column(row, rate, c) ==
  CASE c = "quota"              -> row.quota
    [] c = "input_tokens"       -> PurePrompt(row)
    [] c = "output_tokens"      -> row.completion
    [] c = "cache_read_tokens"  -> CacheRead(row)
    [] c = "cache_write_tokens" -> CacheWrite(row)
    [] c = "actual_cost"        -> CostTotal(row, rate)
    [] c = "input_cost"         -> CostInput(row, rate)
    [] c = "output_cost"        -> CostOutput(row, rate)
    [] c = "cache_read_cost"    -> CostCacheRead(row, rate)
    [] c = "cache_saving"       -> CostCacheSaving(row, rate)
    [] c = "cache_write_cost"   -> CostCacheWrite(row, rate)
    [] c = "fixed_cost"         -> CostFixed(row, rate)
=============================================================================
