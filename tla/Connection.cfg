\* Two requests on one connection; the longest is one unit longer than a block.
SPECIFICATION FairSpec
CONSTANTS
  Block = 5
  Clients <- MCClients
INVARIANTS
  ConnTypeOK
  AnswersInTurn
  ServesRequestsOnce
PROPERTIES
  KeepsItsWord
  PeerGoneEnds
  PoliteServed
