\* m_min < m_max: does a task that was accepted get a thread?
SPECIFICATION FairSpec
CONSTANTS
  Thread = {t1, t2}
  Task = {k1, k2, k3, k4}
  MinThreads = 1
  MaxThreads = 2
  MaxTask = 3
  MaxCreateFail = 0
  NoTask = NoTask
  Nobody = Nobody
PROPERTIES
  ServedUnlessAllBusy
CHECK_DEADLOCK FALSE
