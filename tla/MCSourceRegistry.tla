-------------------------- MODULE MCSourceRegistry --------------------------
(* Two threads are enough for every overlap of an edit with a load or with *)
(* another edit; two sources, so that an edit of one can lose one of the   *)
(* other; threads are interchangeable, and so are sources.  One source of  *)
(* the first file has a password; the other may have one or none, be       *)
(* invalid or not be there.                                                *)
EXTENDS SourceRegistry, TLC

SomeProtected ==
  {f \in [Ids -> FirstEntries] :
     \E i \in Ids : f[i] = [rev |-> 0, password |-> 0]}

ThreadsAndIds == Permutations(Threads) \union Permutations(Ids)
=============================================================================
