-------------------------- MODULE MCConnectionPool --------------------------
(* Three threads and a pool of two: two can race for its last place while  *)
(* the third takes from it, or goes through two dead connections.  One     *)
(* key: pools of different keys have nothing in common but the threads.    *)
(* Its driver reconnects when the database is up, so that a broken         *)
(* connection sometimes passes its validation and sometimes does not.      *)
EXTENDS ConnectionPool
=============================================================================
