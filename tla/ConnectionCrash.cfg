\* The same clients: an ordinary request whose headers come in two segments.
SPECIFICATION Spec
CONSTANTS
  Block = 5
  Clients <- MCClients
INVARIANT HandlerSurvives
