\* Writes and failures are bounded: the system rests when all is delivered.
CONSTANTS
  nitrogen = nitrogen
  argon = argon
  Racine <- MCRacine
  Pair <- MCPair
  Tireurs <- MCRacine
  PartMax = 2
  CompteurMax = 2
  PannesMax = 0
  PertesMax = 1
SPECIFICATION SpecPerte
INVARIANTS EntrepotReconstruit
CHECK_DEADLOCK FALSE
