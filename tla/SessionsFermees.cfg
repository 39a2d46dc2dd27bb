CONSTANTS
  c1 = c1
  c2 = c2
  a1 = a1
  a2 = a2
  m1 = m1
  l1 = l1
  u1 = u1
  u2 = u2
  Connexion <- MCConnexion
  Appareil <- MCAppareil
  Machine <- MCMachine
  Local <- MCLocal
  LaRacine = racine
  Compte <- MCCompte
  Personne = personne
  Depart <- MCDepart
  PremierCompte = u1
  ClesMax = 2
  DefisMax = 2
  RetraitsMax = 1
SPECIFICATION SpecSessionsEquitable
INVARIANTS SessionsJustes DefiUneFois OrdreTenu
PROPERTIES CondamneeFermee
