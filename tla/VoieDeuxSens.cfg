\* Writes and failures are bounded: the system rests when all is delivered.
CONSTANTS
  nitrogen = nitrogen
  argon = argon
  Racine <- MCRacine
  Pair <- MCPair
  Tireurs <- MCRacine
  PartMax = 1
  CompteurMax = 2
  PannesMax = 0
SPECIFICATION Spec
SYMMETRY Symetrie
INVARIANTS TypeOK SansTrou RienNeManque HorlogeDevant RienNEstRefuse
PROPERTIES RienNeRecule
CHECK_DEADLOCK FALSE
