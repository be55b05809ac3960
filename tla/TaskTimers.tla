------------------------------ MODULE TaskTimers ------------------------------
(***************************************************************************)
(* What main/src/scheduler.h promises its callers, without the lists, the  *)
(* thread, the notification and the timer the implementation is made of.   *)
(*                                                                         *)
(* A task has a deadline the scheduler knows of ("linked") and at most one *)
(* request the scheduler has not looked at yet ("pending").  The last      *)
(* request wins.  A request is not synchronous: until it is settled the    *)
(* deadline it replaces stays in force, and the callback may still run     *)
(* for it.                                                                 *)
(***************************************************************************)
EXTENDS Integers

CONSTANTS Tasks,      \* the scheduler_task_t objects of the program
          MaxTime     \* bound of the clock and of every deadline

Time == 0..MaxTime
None == -1            \* no deadline, or no request
Cancel == -2          \* a request to forget the deadline

VARIABLES clock,      \* esp_timer_get_time()
          linked,     \* the deadline in force, or None
          pending     \* the request not settled yet: a deadline, Cancel or None

vars == <<clock, linked, pending>>

TypeOK ==
  /\ clock \in Time
  /\ linked \in [Tasks -> Time \cup {None}]
  /\ pending \in [Tasks -> Time \cup {None, Cancel}]

Init ==
  /\ clock = 0
  /\ linked = [t \in Tasks |-> None]
  /\ pending = [t \in Tasks |-> None]

\* scheduler_schedule_task(t, ..., d); a deadline in the past is legal.
Request(t, d) ==
  /\ pending' = [pending EXCEPT ![t] = d]
  /\ UNCHANGED <<clock, linked>>

\* scheduler_abort_task(t)
Forget(t) ==
  /\ pending' = [pending EXCEPT ![t] = Cancel]
  /\ UNCHANGED <<clock, linked>>

\* The scheduler thread takes notice of the request.
Settle(t) ==
  /\ pending[t] # None
  /\ linked' = [linked EXCEPT ![t] = IF pending[t] = Cancel THEN None ELSE pending[t]]
  /\ pending' = [pending EXCEPT ![t] = None]
  /\ UNCHANGED clock

\* The callback runs: never early, and earliest deadline first.
Fire(t) ==
  /\ linked[t] # None
  /\ linked[t] <= clock
  /\ \A u \in Tasks : linked[u] # None => linked[t] <= linked[u]
  /\ linked' = [linked EXCEPT ![t] = None]
  /\ UNCHANGED <<clock, pending>>

Tick ==
  /\ clock < MaxTime
  /\ clock' = clock + 1
  /\ UNCHANGED <<linked, pending>>

Next ==
  \/ Tick
  \/ \E t \in Tasks :
       \/ Forget(t) \/ Settle(t) \/ Fire(t)
       \/ \E d \in Time : Request(t, d)

Spec == Init /\ [][Next]_vars
===============================================================================
