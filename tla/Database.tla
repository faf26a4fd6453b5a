------------------------------ MODULE Database ------------------------------
(***************************************************************************)
(* The Postgres server as its clients see it: what it has committed it     *)
(* keeps, and while it is down no statement succeeds.                      *)
(***************************************************************************)
VARIABLE db   \* "up" or "down"
=============================================================================
