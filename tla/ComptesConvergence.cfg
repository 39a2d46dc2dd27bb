\* Writes are bounded: the system rests when all is delivered.
CONSTANTS
  Racine <- MCRacine
  Pair <- MCPair
  PremierCompte <- MCPremier
  CompteurMax = 5
  AmorcagesMax = 1
  EnRetard = {1}
  Lentes = {2}
  EcartsMax = 1
  ComptesMax = 2
  Alias = {"x"}
  SansAlias = "sans"
SPECIFICATION Spec
INVARIANTS TablesJustes RacinesDAccord RienNeSurvit
PROPERTIES Irreversible
CHECK_DEADLOCK FALSE
