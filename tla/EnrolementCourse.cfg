\* Writes are bounded: the system rests when all is delivered.
CONSTANTS
  Racine <- MCRacine
  Pair <- MCPair
  Emetteurs <- LaPremiere
  CompteurMax = 3
  RevocationsMax = 0
  AmorcagesMax = 0
  PannesMax = 0
SPECIFICATION Spec
INVARIANTS UneCleParCode
CHECK_DEADLOCK FALSE
