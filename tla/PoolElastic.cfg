\* m_min < m_max: threads are created when the list grows and leave again.
SPECIFICATION Spec
CONSTANTS
  Thread = {t1, t2, t3}
  Task = {k1, k2, k3, k4, k5}
  MinThreads = 1
  MaxThreads = 3
  MaxTask = 3
  MaxCreateFail = 1
  NoTask = NoTask
  Nobody = Nobody
SYMMETRY Symmetry
INVARIANTS
  TypeOK
  Membership
  Accounting
  WakeupsCoverQueue
  TasksInOnePlace
PROPERTIES
  KeepsPromise
  LeavesWhenIdle
CHECK_DEADLOCK FALSE
