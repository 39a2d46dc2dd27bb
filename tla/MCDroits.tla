------------------------------ MODULE MCDroits ------------------------------
(***************************************************************************)
(* The two roots, 1 and 2.  Root 1 wrote, in this order: two accounts, a     *)
(* second domain of the first one, a group of this domain, the second        *)
(* account in it, the right to locate the domain for the group, a machine    *)
(* of the first account put in the domain.                                   *)
(***************************************************************************)
EXTENDS Droits

MCRacine == {1, 2}
MCPair   == [r \in MCRacine |-> 3 - r]

E(i) == [compteur |-> i, racine |-> 1]

\* Each root writes for the first account, and root 2 once more for the second one.
MCButee == [r \in MCRacine |-> E(1) :> 9 @@ E(2) :> (8 + r)]

MCMachines == E(6) :> E(1)

MCDroit == [par |-> E(1), groupe |-> DuDomaine(E(4)), element |-> LeDomaine(E(3)),
            droit |-> "localiser", retire |-> Aucune]

MCDepart ==
  [compteur  |-> 8,
   comptes   |-> (E(1) :> [estampille |-> E(1), efface |-> FALSE])
                   @@ (E(2) :> [estampille |-> E(2), efface |-> FALSE]),
   domaines  |-> (E(1) :> Domaine(E(1), E(1))) @@ (E(2) :> Domaine(E(2), E(2)))
                   @@ (E(3) :> Domaine(E(1), E(3))),
   poses     |-> LieuDe(E(6)) :> [estampille |-> E(8), valeur |-> E(3)],
   groupes   |-> E(4) :> [domaine |-> E(3), etiquette |-> E(4)],
   adhesions |-> [groupe |-> DuDomaine(E(4)), compte |-> E(2), ajout |-> E(5)] :> Aucune,
   droits    |-> E(7) :> MCDroit,
   journal   |-> <<>>]

\* Root 1 writes once more.
MCButeeNeuve == [r \in MCRacine |-> E(1) :> 4]

\* An account, a second domain, and an alias claimed after it.
MCSansMachine == <<>>
MCDepartNeuf ==
  [compteur  |-> 3,
   comptes   |-> E(1) :> [estampille |-> E(3), efface |-> FALSE],
   domaines  |-> (E(1) :> Domaine(E(1), E(1))) @@ (E(2) :> Domaine(E(1), E(2))),
   poses     |-> <<>>,
   groupes   |-> <<>>, adhesions |-> <<>>, droits |-> <<>>,
   journal   |-> <<[quoi |-> "compte", estampille |-> E(1), compte |-> E(1)],
                   [quoi |-> "domaine", estampille |-> E(2), de |-> E(2),
                    proprietaire |-> E(1)],
                   [quoi |-> "alias", estampille |-> E(3), compte |-> E(1)]>>]
=============================================================================
