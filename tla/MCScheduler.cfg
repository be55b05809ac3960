\* Two tasks and two instants: enough to order tasks, to arm the timer and to be
\* late.  No symmetry: it is unsound for liveness.
CONSTANTS
  Tasks = {t1, t2}
  NoTask = NoTask
  MaxTime = 1
SPECIFICATION Spec
INVARIANTS
  ListsConsistent
  NoDueTaskSkipped
  NoLostWakeup
PROPERTIES
  ImplementsTaskTimers
  AcceptedTaskLeaves
  RequestsSettle
\* With the clock at its bound and no notification left, nothing is due.
CHECK_DEADLOCK FALSE
