---------------------------- MODULE MCQueryCache ----------------------------
(* Two threads: a slow loader and one that overtakes it, or two that race  *)
(* for the client.  One key: entries of different keys do not interact.    *)
EXTENDS QueryCache
=============================================================================
