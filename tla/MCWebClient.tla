---------------------------- MODULE MCWebClient -----------------------------
(* Instances of WebClient for TLC.  Handlers are interchangeable.          *)
EXTENDS WebClient, TLC

TaskAndFilterSymmetry == Permutations(Tasks) \union Permutations(Filters)
=============================================================================
