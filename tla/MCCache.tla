------------------------------ MODULE MCCache ------------------------------
(* Cache on a small instance: the sets of host behaviours of its runs.      *)
EXTENDS Cache

Calm == {"truncate"}
Safe == {"delete", "truncate"}
=============================================================================
