\* Writes and failures are bounded: the system rests when all is delivered.
CONSTANTS
  nitrogen = nitrogen
  argon = argon
  Racine <- MCRacine
  Pair <- MCPair
  Tireurs <- SeulArgon
  PartMax = 1
  CompteurMax = 2
  PannesMax = 2
SPECIFICATION SpecEquitable
INVARIANTS Inv
PROPERTIES ToutArrive Rattrape
CHECK_DEADLOCK FALSE
