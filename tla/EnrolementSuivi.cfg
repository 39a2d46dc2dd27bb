\* Writes are bounded: the system rests when all is delivered.
CONSTANTS
  Racine <- MCRacine
  Pair <- MCPair
  Emetteurs <- MCRacine
  CompteurMax = 3
  RevocationsMax = 1
  AmorcagesMax = 1
  PannesMax = 1
SPECIFICATION Spec
INVARIANTS TypeOK IndexJuste CodeUneFoisParLaSuite RevoqueeTenueParLaSuite
CHECK_DEADLOCK FALSE
