\* Writes are bounded: the system rests when all is delivered.
CONSTANTS
  Racine <- MCRacine
  Pair <- MCPair
  Machines <- MCMachines
  Depart <- MCDepart
  Neuves = {}
  Donnables = {"administrer"}
  Butee <- MCButee
  Sortes = {"domaine"}
  DroitsMax = 2
  CompteurMax = 10
  AmorcagesMax = 1
  EnRetard = {2}
SPECIFICATION Spec
INVARIANTS RetraitDeDroitTenu
CHECK_DEADLOCK FALSE
