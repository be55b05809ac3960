------------------------------- MODULE Scheduler -------------------------------
(***************************************************************************)
(* main/src/scheduler.c: one thread that runs callbacks at their deadlines.*)
(*                                                                         *)
(* Three parties share the scheduler_t object:                             *)
(*   - any thread (and any callback) calls scheduler_schedule_task and     *)
(*     scheduler_abort_task, which only put the task on one of two pending *)
(*     lists, under the lock, and notify the thread;                       *)
(*   - the scheduler thread, scheduler_run, which alone touches the sorted *)
(*     list "tasks" and runs the callbacks without holding the lock;       *)
(*   - the ESP timer task, scheduler_timer_cb, which shares timer_running  *)
(*     with the thread, without a lock and on another core.                *)
(*                                                                         *)
(* A list is the sequence of the tasks linked into it.  LIST_APPEND links  *)
(* right behind the list head, so a pending list is last-in first-out.     *)
(* cb and ctx travel with the deadline and are left out: in this program a *)
(* task always has the same callback.                                      *)
(***************************************************************************)
EXTENDS LinkedLists

CONSTANTS Tasks,      \* the scheduler_task_t objects of the program
          NoTask,     \* no task: the running callback is none
          MaxTime     \* bound of the clock and of every deadline

ASSUME SchedulerAssumption == MaxTime \in Nat /\ NoTask \notin Tasks

Time == 0..MaxTime
Off == -1             \* the esp_timer is not armed

VARIABLES
  clock,              \* esp_timer_get_time()
  pc,                 \* where scheduler_run is
  now,                \* its local variable
  running,            \* the task whose callback it is in
  tasks,              \* the sorted list of accepted tasks
  tasks_schedule,     \* pending: to be (re)scheduled
  tasks_abort,        \* pending: to be aborted
  schedule_sync,      \* per task, the accepted deadline: the thread's own
  schedule_async,     \* per task, the requested deadline: under the lock
  timer_running,
  timer_deadline_us,
  notified,           \* the task notification of the scheduler thread
  alarm,              \* esp_timer: when the one-shot timer expires, or Off
  esp_timer           \* where the ESP timer task is with scheduler_timer_cb

listVars  == <<tasks, tasks_schedule, tasks_abort, schedule_sync, schedule_async>>
timerVars == <<timer_running, timer_deadline_us, alarm, esp_timer>>
vars == <<clock, pc, now, running, listVars, timerVars, notified>>

\* "abort" and "insert" hold the lock; the API calls take it.
Locked == pc \in {"abort", "insert"}

TypeOK ==
  /\ clock \in Time /\ now \in Time
  /\ pc \in {"take", "now", "fire", "callback", "abort", "insert", "stop", "start"}
  /\ running \in Tasks \cup {NoTask}
  /\ tasks \in Seq(Tasks) /\ tasks_schedule \in Seq(Tasks) /\ tasks_abort \in Seq(Tasks)
  /\ schedule_sync \in [Tasks -> Time] /\ schedule_async \in [Tasks -> Time]
  /\ timer_running \in BOOLEAN /\ notified \in BOOLEAN
  /\ timer_deadline_us \in Time
  /\ alarm \in Time \cup {Off}
  /\ esp_timer \in {"idle", "expired", "cleared"}

Init ==
  /\ clock = 0 /\ now = 0
  /\ pc = "take" /\ running = NoTask
  /\ tasks = <<>> /\ tasks_schedule = <<>> /\ tasks_abort = <<>>
  /\ schedule_sync = [t \in Tasks |-> 0] /\ schedule_async = [t \in Tasks |-> 0]
  /\ timer_running = FALSE /\ timer_deadline_us = 0
  /\ notified = FALSE
  /\ alarm = Off /\ esp_timer = "idle"

\* "if (LIST_IS_EMPTY(node)) LIST_APPEND(node, list)"
Enlist(t, list) == IF In(t, list) THEN list ELSE LIST_APPEND(t, list)

-------------------------------------------------------------------------------
(* The interface, called by any thread and by the callbacks.                *)

\* Mutant: the deadline the thread sorts by is written by the caller.
ScheduleWritesSync(t, deadline_us) ==
  /\ ~Locked
  /\ schedule_sync' = [schedule_sync EXCEPT ![t] = deadline_us]
  /\ schedule_async' = [schedule_async EXCEPT ![t] = deadline_us]
  /\ tasks_abort' = LIST_DELETE(t, tasks_abort)
  /\ tasks_schedule' = Enlist(t, tasks_schedule)
  /\ notified' = TRUE
  /\ UNCHANGED <<clock, pc, now, running, tasks, timerVars>>

scheduler_schedule_task(t, deadline_us) ==
  /\ ~Locked
  /\ schedule_async' = [schedule_async EXCEPT ![t] = deadline_us]
  /\ tasks_abort' = LIST_DELETE(t, tasks_abort)
  /\ tasks_schedule' = Enlist(t, tasks_schedule)
  /\ notified' = TRUE
  /\ UNCHANGED <<clock, pc, now, running, tasks, schedule_sync, timerVars>>

\* Mutant: the task stays on the list of tasks to be scheduled.
AbortKeepsRequest(t) ==
  /\ ~Locked
  /\ tasks_abort' = Enlist(t, tasks_abort)
  /\ notified' = TRUE
  /\ UNCHANGED <<clock, pc, now, running, tasks, tasks_schedule, schedule_sync, schedule_async,
                 timerVars>>

\* Mutant: the scheduler thread is not notified.
AbortWithoutNotify(t) ==
  /\ ~Locked
  /\ tasks_schedule' = LIST_DELETE(t, tasks_schedule)
  /\ tasks_abort' = Enlist(t, tasks_abort)
  /\ UNCHANGED <<clock, pc, now, running, tasks, schedule_sync, schedule_async, timerVars,
                 notified>>

scheduler_abort_task(t) ==
  /\ ~Locked
  /\ tasks_schedule' = LIST_DELETE(t, tasks_schedule)
  /\ tasks_abort' = Enlist(t, tasks_abort)
  /\ notified' = TRUE
  /\ UNCHANGED <<clock, pc, now, running, tasks, schedule_sync, schedule_async, timerVars>>

-------------------------------------------------------------------------------
(* scheduler_run, one action per step that another party can come between.  *)

TakeNotification ==
  /\ pc = "take" /\ notified
  /\ notified' = FALSE
  /\ pc' = "now"
  /\ UNCHANGED <<clock, now, running, listVars, timerVars>>

ReadClock ==
  /\ pc = "now"
  /\ now' = clock
  /\ pc' = "fire"
  /\ UNCHANGED <<clock, running, listVars, timerVars, notified>>

\* Mutant: a task is due only after its deadline.
HeadIsOverdue == tasks # <<>> /\ now > schedule_sync[Head(tasks)]

HeadIsDue == tasks # <<>> /\ now >= schedule_sync[Head(tasks)]

StartCallback ==
  /\ pc = "fire" /\ HeadIsDue
  /\ running' = Head(tasks)
  /\ tasks' = Tail(tasks)
  /\ pc' = "callback"
  /\ UNCHANGED <<clock, now, tasks_schedule, tasks_abort, schedule_sync, schedule_async,
                 timerVars, notified>>

\* What the callback does through the interface are actions of their own,
\* possible while running is the task.
EndCallback ==
  /\ pc = "callback"
  /\ running' = NoTask
  /\ pc' = "fire"
  /\ UNCHANGED <<clock, now, listVars, timerVars, notified>>

TakeLock ==
  /\ pc = "fire" /\ ~HeadIsDue
  /\ pc' = "abort"
  /\ UNCHANGED <<clock, now, running, listVars, timerVars, notified>>

ApplyAbort ==
  /\ pc = "abort" /\ tasks_abort # <<>>
  /\ tasks' = LIST_DELETE(Head(tasks_abort), tasks)
  /\ tasks_abort' = Tail(tasks_abort)
  /\ UNCHANGED <<clock, pc, now, running, tasks_schedule, schedule_sync, schedule_async,
                 timerVars, notified>>

EndAborts ==
  /\ pc = "abort" /\ tasks_abort = <<>>
  /\ pc' = "insert"
  /\ UNCHANGED <<clock, now, running, listVars, timerVars, notified>>

\* The walk along "tasks" stops at the first later deadline: an earlier or
\* equal one stays in front.
InsertionPoint(list, deadline_us, i) ==
  /\ i \in 1..Len(list) + 1
  /\ \A j \in 1..i - 1 : schedule_sync[list[j]] <= deadline_us
  /\ i <= Len(list) => schedule_sync[list[i]] > deadline_us

ApplySchedule ==
  LET t == Head(tasks_schedule)
      others == LIST_DELETE(t, tasks)
  IN  /\ pc = "insert" /\ tasks_schedule # <<>>
      /\ schedule_sync' = [schedule_sync EXCEPT ![t] = schedule_async[t]]
      /\ \E i \in 1..Len(others) + 1 :
           /\ InsertionPoint(others, schedule_async[t], i)
           /\ tasks' = InsertAt(others, i, t)
      /\ tasks_schedule' = Tail(tasks_schedule)
      /\ UNCHANGED <<clock, pc, now, running, tasks_abort, schedule_async, timerVars, notified>>

ReleaseLock ==
  /\ pc = "insert" /\ tasks_schedule = <<>>
  /\ pc' = IF tasks = <<>> THEN "take" ELSE "stop"
  /\ UNCHANGED <<clock, now, running, listVars, timerVars, notified>>

\* Mutant: the timer is stopped, but not marked so.
StopTimerUnmarked ==
  /\ pc = "stop"
  /\ alarm' = IF timer_running /\ timer_deadline_us > schedule_sync[Head(tasks)]
              THEN Off ELSE alarm
  /\ pc' = "start"
  /\ UNCHANGED <<clock, now, running, listVars, timer_running, timer_deadline_us, esp_timer,
                 notified>>

\* esp_timer_stop fails, without a trace, when the timer has just expired.
StopTimer ==
  /\ pc = "stop"
  /\ IF timer_running /\ timer_deadline_us > schedule_sync[Head(tasks)]
       THEN alarm' = Off /\ timer_running' = FALSE
       ELSE UNCHANGED <<alarm, timer_running>>
  /\ pc' = "start"
  /\ UNCHANGED <<clock, now, running, listVars, timer_deadline_us, esp_timer, notified>>

\* start_timer_for_task; esp_timer_start_once fails, and the failure is
\* ignored, when the timer is armed already.
StartTimer ==
  LET deadline_us == schedule_sync[Head(tasks)]
  IN  /\ pc = "start"
      /\ IF timer_running
           THEN UNCHANGED <<timer_running, timer_deadline_us, alarm>>
           ELSE /\ timer_deadline_us' = deadline_us
                /\ timer_running' = TRUE
                /\ alarm' = IF alarm = Off THEN Max({deadline_us, clock}) ELSE alarm
      /\ pc' = "take"
      /\ UNCHANGED <<clock, now, running, listVars, esp_timer, notified>>

scheduler_run ==
  \/ TakeNotification \/ ReadClock \/ StartCallback \/ EndCallback \/ TakeLock
  \/ ApplyAbort \/ EndAborts \/ ApplySchedule \/ ReleaseLock \/ StopTimer \/ StartTimer

-------------------------------------------------------------------------------
(* The ESP timer task.  An expired one-shot timer is disarmed before its    *)
(* callback runs: from there on esp_timer_stop has nothing to stop.         *)

TimerExpires ==
  /\ esp_timer = "idle" /\ alarm # Off /\ alarm <= clock
  /\ alarm' = Off
  /\ esp_timer' = "expired"
  /\ UNCHANGED <<clock, pc, now, running, listVars, timer_running, timer_deadline_us, notified>>

\* Mutant: the callback leaves the timer marked as running.
TimerCallbackLeavesRunning ==
  /\ esp_timer = "expired"
  /\ esp_timer' = "cleared"
  /\ UNCHANGED <<clock, pc, now, running, listVars, timer_running, timer_deadline_us, alarm,
                 notified>>

TimerCallbackClears ==
  /\ esp_timer = "expired"
  /\ timer_running' = FALSE
  /\ esp_timer' = "cleared"
  /\ UNCHANGED <<clock, pc, now, running, listVars, timer_deadline_us, alarm, notified>>

TimerCallbackNotifies ==
  /\ esp_timer = "cleared"
  /\ notified' = TRUE
  /\ esp_timer' = "idle"
  /\ UNCHANGED <<clock, pc, now, running, listVars, timer_running, timer_deadline_us, alarm>>

EspTimerTask == TimerExpires \/ TimerCallbackClears \/ TimerCallbackNotifies

Tick ==
  /\ clock < MaxTime
  /\ clock' = clock + 1
  /\ UNCHANGED <<pc, now, running, listVars, timerVars, notified>>

Callers ==
  \E t \in Tasks :
    \/ scheduler_abort_task(t)
    \/ \E d \in Time : scheduler_schedule_task(t, d)

Next == scheduler_run \/ EspTimerTask \/ Tick \/ Callers

SafetySpec == Init /\ [][Next]_vars

\* Both FreeRTOS tasks are runnable whenever they have something to do, and
\* time passes.  No caller has to call anything.
Fairness == WF_vars(scheduler_run) /\ WF_vars(EspTimerTask) /\ WF_vars(Tick)

Spec == SafetySpec /\ Fairness

-------------------------------------------------------------------------------
(* Properties.                                                              *)

\* The accepted tasks are in the order of their deadlines: scheduler_run
\* stops looking at the first task that is not due, and arms the timer for
\* the first.
TasksSorted == Sorted(tasks, schedule_sync)

\* A node is at most once in a list, and a task is never both to be
\* scheduled and to be aborted, however the calls of several threads and the
\* passes of the scheduler thread interleave.
ListsConsistent ==
  /\ Distinct(tasks) /\ Distinct(tasks_schedule) /\ Distinct(tasks_abort)
  /\ ToSet(tasks_schedule) \cap ToSet(tasks_abort) = {}

\* When the thread is done with callbacks, no accepted task is due at the
\* time it read: breaking out at the first later deadline skips nothing.
NoDueTaskSkipped ==
  pc = "abort" => \A t \in ToSet(tasks) : schedule_sync[t] > now

\* The thread sleeps only when nothing is pending and something will wake it
\* for the accepted tasks: an armed timer, or a timer callback on its way,
\* in spite of timer_running being written by both threads.
NoLostWakeup ==
  pc = "take" /\ ~notified =>
    /\ tasks_schedule = <<>> /\ tasks_abort = <<>>
    /\ tasks # <<>> => alarm # Off \/ esp_timer # "idle"

\* An accepted task is run or given up, even while other threads go on
\* scheduling and aborting.
AcceptedTaskLeaves ==
  \A t \in Tasks : In(t, tasks) ~> ~In(t, tasks)

\* Every request is looked at.
RequestsSettle ==
  \A t \in Tasks :
    In(t, tasks_schedule \o tasks_abort) ~> ~In(t, tasks_schedule \o tasks_abort)

-------------------------------------------------------------------------------
(* The implementation of the abstract task timers.                          *)

linkedBar == [t \in Tasks |-> IF In(t, tasks) THEN schedule_sync[t] ELSE -1]
pendingBar ==
  [t \in Tasks |-> IF In(t, tasks_schedule) THEN schedule_async[t]
                   ELSE IF In(t, tasks_abort) THEN -2 ELSE -1]

Abstract == INSTANCE TaskTimers WITH linked <- linkedBar, pending <- pendingBar

\* Callbacks run earliest deadline first, never early, once per accepted
\* deadline, and only for deadlines that were requested; requests take
\* effect one at a time and the last one wins.
ImplementsTaskTimers == Abstract!Spec
===============================================================================
