CONSTANTS
  r1 = r1
  r2 = r2
  d1 = d1
  d2 = d2
  Racine <- MCRacine
  Membre <- MCMembre
  Machine <- MCMachine
  Departs <- MCDeparts
  Arret = arret
  PremierMembre = d1
  MachinesParPart = 1
  EntreesParPart = 1
  Expiration = 1
  Cedables = {1}
  Mobiles = {1}
  Retirables = {d1}
  ChangementsMax = 1
  DeplacementsMax = 1
  PannesMax = 1
SPECIFICATION SpecFederationEquitable
INVARIANTS FederationJuste
PROPERTIES VivantLu RienNeReste
