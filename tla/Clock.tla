-------------------------------- MODULE Clock --------------------------------
(***************************************************************************)
(* The monotonic clock of one process (time.monotonic in Python), shared   *)
(* by the primitives of src/resilience.py.                                 *)
(***************************************************************************)
CONSTANT MaxTime   \* bound on the clock

VARIABLE now       \* what a reading of the clock returns
=============================================================================
