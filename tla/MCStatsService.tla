--------------------------- MODULE MCStatsService ---------------------------
(* Two threads, so that one can load for the definition that the other     *)
(* request finds replaced; two sources, to mix up; two connections and a   *)
(* pool of one, so that one is reused and one has no room.                 *)
EXTENDS StatsService, TLC

Interchangeable ==
  Permutations(Threads) \union Permutations(Conns) \union Permutations(Kinds)
=============================================================================
