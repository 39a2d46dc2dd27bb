\* One account, one domain, a directory accepted and two that may join it, one snapshot.
\* Writes are bounded: the system rests when all is delivered.
CONSTANTS
  Racine <- MCRacine
  Pair <- MCPair
  EnRetard = {2}
  CompteurMax = 20
  AmorcagesMax = 1
  Titulaires <- MCTitulaires
  Noms = {"service"}
  Membres = {"a1", "a2", "a3"}
  SansAnnuaire = "aucun"
  DomaineDe <- MCDomaineDe
  Lentes = {2}
  EcartsMax = 1
  Parts = {"machines", "invitations", "inscriptions"}
  EcrituresMax <- MCEcrituresMax
SPECIFICATION Spec
INVARIANTS TablesJustes RacinesDAccord InvitationUneFois PaireBornee
PROPERTIES ChampJamaisRepris
CHECK_DEADLOCK FALSE
