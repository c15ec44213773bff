\* Two workers, one of them beyond m_min, with their clients.
SPECIFICATION FairClientsSpec
CONSTANTS
  Thread = {t1, t2}
  Task = {k1, k2, k3}
  MinThreads = 1
  MaxThreads = 2
  MaxTask = 3
  MaxCreateFail = 0
  Client = {c1, c2}
  NoTask = NoTask
  Nobody = Nobody
  NoClient = NoClient
INVARIANTS
  ClientTypeOK
  OwnClient
  NoLeak
  NoStaleEntry
PROPERTIES
  PoolUnlocked
