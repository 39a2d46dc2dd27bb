------------------------------ MODULE MCRegistre ------------------------------
EXTENDS Registre

MCRacine == {1, 2}
MCPair == 1 :> 2 @@ 2 :> 1
MCTitulaires == {[compteur |-> 1, racine |-> 1]}
MCDomaineDe == "d1" :> [compteur |-> 1, racine |-> 1]
MCEcrituresMax == "machines" :> 3 @@ "invitations" :> 4 @@ "inscriptions" :> 3
=============================================================================
