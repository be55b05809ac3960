----------------------------- MODULE MCScheduler ------------------------------
(* The scheduler on a small instance. *)
EXTENDS Scheduler
===============================================================================
