CONSTANTS
  s1 = s1
  s2 = s2
  c1 = c1
  c2 = c2
  Service <- MCService
  Gagnant = s2
  Point = {443}
  Connexion <- MCConnexion
  EnVolMax = 1
  Bail = 1
  RetardMax = 1
  AnnoncesMax = 2
SPECIFICATION SpecEquitable
INVARIANTS TypeOK EnVolJuste AnnonceTenue
PROPERTIES RienNeDisparait EnVolRetombe MuetOublie
