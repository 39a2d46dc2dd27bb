------------------------------ MODULE Domaines ------------------------------
(***************************************************************************)
(* The domains of the accounts and what is posed on them and on machines    *)
(* (asl-store/domaines.rs), on two roots that replicate each other.  Groups  *)
(* and rights come in Groupes.tla and Droits.tla, which composes the three.  *)
(*                                                                         *)
(* Everything is known by the stamp of its creation.  The first domain of   *)
(* an account is deduced from the account and has its name.  The deletion of *)
(* a domain is a mark; which domains are alive is computed when read.        *)
(***************************************************************************)
EXTENDS Replique, TLC, SequencesExt, Functions

CONSTANTS
  Machines        \* the machines and the account each belongs to

VARIABLES
  comptes,    \* COMPTES: the stamp of each account known, and if it is erased
  domaines,   \* DOMAINES, DOMAINES_PAR_COMPTE
  poses       \* ALIAS_DE_DOMAINES, ALIAS_DE_MACHINES, RATTACHEMENTS

tablesDesDomaines == <<comptes, domaines, poses>>

CompteVivant(r, c) == c \in DOMAIN comptes[r] /\ ~comptes[r][c].efface
CompteEfface(r, c) == c \in DOMAIN comptes[r] /\ comptes[r][c].efface
MachineLa(r, m) == m \in DOMAIN Machines /\ CompteVivant(r, Machines[m])

-----------------------------------------------------------------------------
(* Reading.                                                                *)

Freres(r, d) ==
  {f \in DOMAIN domaines[r] :
     domaines[r][f].proprietaire = domaines[r][d].proprietaire}

\* Mutant of Vivant: no survivor.
VivantSansSurvivant(r, d) ==
  d \in DOMAIN domaines[r] /\ domaines[r][d].supprime = Aucune

\* Not marked, or the oldest when all the domains of the account are marked.
Vivant(r, d) ==
  /\ d \in DOMAIN domaines[r]
  /\ \/ domaines[r][d].supprime = Aucune
     \/ \A f \in Freres(r, d) :
          /\ domaines[r][f].supprime # Aucune
          /\ ~Avant(domaines[r][f].estampille, domaines[r][d].estampille)

DomainesVivants(r) == {d \in DOMAIN domaines[r] : Vivant(r, d)}

DomainesDe(r, c) == {d \in DOMAIN domaines[r] : domaines[r][d].proprietaire = c}

-----------------------------------------------------------------------------
(* Writing.                                                                *)

Domaine(c, e) == [proprietaire |-> c, estampille |-> e, supprime |-> Aucune]

\* An entry of a table of names and places, the last one written.
AliasDe(d) == [quoi |-> "alias", de |-> d]
NomDe(m)   == [quoi |-> "nom", de |-> m]
LieuDe(m)  == [quoi |-> "lieu", de |-> m]

Pose(cle, valeur, e) ==
  [quoi |-> "pose", estampille |-> e, cle |-> cle, valeur |-> valeur]

\* reclamer_alias raises the stamp of the account.
ReclamerAlias(r, c) ==
  /\ CompteVivant(r, c)
  /\ comptes' = [comptes EXCEPT ![r][c].estampille = Suivante(r)]
  /\ Journaliser(r, [quoi |-> "alias", estampille |-> Suivante(r), compte |-> c])
  /\ UNCHANGED <<domaines, poses>>

\* With or without an alias, in one transaction.
CreerDomaine(r, c) ==
  LET d == Suivante(r)
      ne == [quoi |-> "domaine", estampille |-> d, de |-> d, proprietaire |-> c]
      pose == Pose(AliasDe(d), Aucune, Prochaine(r, 2))
  IN
  /\ CompteVivant(r, c)
  /\ domaines' = [domaines EXCEPT ![r] = Poser(@, d, Domaine(c, d))]
  /\ \/ Journaliser(r, ne) /\ UNCHANGED poses
     \/ /\ JournaliserTout(r, <<ne, pose>>)
        /\ poses' = [poses EXCEPT ![r] =
             Poser(@, pose.cle, [estampille |-> pose.estampille, valeur |-> Aucune])]
  /\ UNCHANGED comptes

\* Never the last one alive of its account.
SupprimerDomaine(r, d) ==
  /\ Vivant(r, d)
  /\ \E autre \in Freres(r, d) \ {d} : Vivant(r, autre)
  /\ domaines' = [domaines EXCEPT ![r][d].supprime = Suivante(r)]
  /\ Journaliser(r, [quoi |-> "supprime", estampille |-> Suivante(r), de |-> d])
  /\ UNCHANGED <<comptes, poses>>

PoserUneValeur(r, cle, valeur) ==
  /\ poses' = [poses EXCEPT ![r] =
                 Poser(@, cle, [estampille |-> Suivante(r), valeur |-> valeur])]
  /\ Journaliser(r, Pose(cle, valeur, Suivante(r)))
  /\ UNCHANGED <<comptes, domaines>>

\* A machine of its account, into a domain or out of any.
RattacherMachine(r, m, lieu) ==
  /\ MachineLa(r, m)
  /\ lieu # Aucune => Vivant(r, lieu)
  /\ PoserUneValeur(r, LieuDe(m), lieu)

PoserAliasDeDomaine(r, d) == Vivant(r, d) /\ PoserUneValeur(r, AliasDe(d), Aucune)
PoserAliasDeMachine(r, m) == MachineLa(r, m) /\ PoserUneValeur(r, NomDe(m), Aucune)

-----------------------------------------------------------------------------
(* Applying what the peer wrote.                                           *)

\* An account brings its first domain, under the stamp it has in the operation.
AppliquerCompte(r, operation) ==
  LET c == operation.compte IN
  IF c \in DOMAIN comptes[r] THEN UNCHANGED tablesDesDomaines
    ELSE /\ comptes' = [comptes EXCEPT ![r] =
              Poser(@, c, [estampille |-> operation.estampille, efface |-> FALSE])]
         /\ domaines' = [domaines EXCEPT ![r] =
              Garder(@, c, Domaine(c, operation.estampille))]
         /\ UNCHANGED poses

AppliquerAlias(r, operation) ==
  LET c == operation.compte IN
  /\ comptes' = IF CompteVivant(r, c)
       THEN [comptes EXCEPT ![r][c].estampille = PlusTard(@, operation.estampille)]
       ELSE comptes
  /\ UNCHANGED <<domaines, poses>>

\* The mark of deletion is another operation.
AppliquerDomaine(r, operation) ==
  /\ domaines' = [domaines EXCEPT ![r] =
       IF CompteEfface(r, operation.proprietaire) THEN @
         ELSE Garder(@, operation.de, Domaine(operation.proprietaire, operation.estampille))]
  /\ UNCHANGED <<comptes, poses>>

\* Mutant of PremiereMarque: the last mark received.
DerniereMarque(marque, e) == e

PremiereMarque(marque, e) == IF marque = Aucune THEN e ELSE PlusTot(marque, e)

AppliquerDomaineSupprime(r, operation) ==
  LET d == operation.de IN
  /\ domaines' = IF d \in DOMAIN domaines[r]
       THEN [domaines EXCEPT ![r][d].supprime = PremiereMarque(@, operation.estampille)]
       ELSE domaines
  /\ UNCHANGED <<comptes, poses>>

\* A domain, deleted or not, or a machine, that is there.
Accueille(r, cle) ==
  IF cle.quoi = "alias" THEN cle.de \in DOMAIN domaines[r] ELSE MachineLa(r, cle.de)

\* Mutant of Remplace: whatever comes last.
RemplaceToujours(f, cle, e) == TRUE

Remplace(f, cle, e) == cle \in DOMAIN f => Avant(f[cle].estampille, e)

AppliquerPose(r, operation) ==
  LET cle == operation.cle IN
  /\ poses' = [poses EXCEPT ![r] =
       IF Accueille(r, cle) /\ Remplace(@, cle, operation.estampille)
         THEN Poser(@, cle, [estampille |-> operation.estampille,
                             valeur |-> operation.valeur])
         ELSE @]
  /\ UNCHANGED <<comptes, domaines>>

\* An account leaves with its domains, their alias, and all of its machines; a
\* machine of somebody else keeps its place, which reads as none.
EffacerLesDomaines(r, c) ==
  /\ comptes' = [comptes EXCEPT ![r] = Poser(@, c, [estampille |-> Aucune, efface |-> TRUE])]
  /\ domaines' = [domaines EXCEPT ![r] = Sans(@, DomainesDe(r, c))]
  /\ poses' = [poses EXCEPT ![r] =
       Sans(@, {cle \in DOMAIN @ :
                  IF cle.quoi = "alias" THEN cle.de \in DomainesDe(r, c)
                                        ELSE Machines[cle.de] = c})]

\* The domains of q as a snapshot tells them: all of them, then the marks.
DitsDesDomaines(q) ==
  LET tous == SetToSeq(DOMAIN domaines[q])
      marques == SetToSeq({d \in DOMAIN domaines[q] : domaines[q][d].supprime # Aucune})
  IN [i \in DOMAIN tous |->
        [quoi |-> "domaine", estampille |-> domaines[q][tous[i]].estampille,
         de |-> tous[i], proprietaire |-> domaines[q][tous[i]].proprietaire]]
     \o [i \in DOMAIN marques |->
           [quoi |-> "supprime", estampille |-> domaines[q][marques[i]].supprime,
            de |-> marques[i]]]

\* What is posed comes after the rights.
DitsDesPoses(q) ==
  LET cles == SetToSeq(DOMAIN poses[q])
  IN [i \in DOMAIN cles |->
        Pose(cles[i], poses[q][cles[i]].valeur, poses[q][cles[i]].estampille)]
=============================================================================
