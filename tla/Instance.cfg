\* Three connections, over any number of starts.
SPECIFICATION FairSpec
CONSTANTS
  Conn = {c1, c2, c3}
INVARIANTS
  InstTypeOK
  PidTellsRunning
PROPERTIES
  StopsOnSignal
  AllAccepted
