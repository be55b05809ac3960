-------------------------------- MODULE MCLocks --------------------------------
(* The threads with the entry points a configuration names.                  *)
EXTENDS Locks
===============================================================================
