\* m_min = m_max, as in etc/proxy.ini: no thread is ever created or leaves
\* after the start.  One of them could not be made.
SPECIFICATION FairSpec
CONSTANTS
  Thread = {t1, t2}
  Task = {k1, k2, k3, k4}
  MinThreads = 2
  MaxThreads = 2
  MaxTask = 2
  MaxCreateFail = 1
  NoTask = NoTask
  Nobody = Nobody
PROPERTIES
  ServedUnlessAllBusy
