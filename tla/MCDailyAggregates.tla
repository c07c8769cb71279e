------------------------- MODULE MCDailyAggregates -------------------------
(* Two refreshes, so that they can overlap, and two days of two halves:    *)
(* the host of p has the database's time zone, the host of q is half a day *)
(* off, so that its ranges cover some days in part.  Two logs can be in    *)
(* the same row, in two rows of a day, or in two days of a week.  Two      *)
(* rates, so that a table can be priced with options that no longer hold.  *)
EXTENDS DailyAggregates, TLC

CONSTANTS p, q

HalfDayOff == (p :> 0) @@ (q :> 1)

Interchangeable == Permutations(Tokens) \union Permutations(Ips)
                     \union Permutations(Ids)
=============================================================================
