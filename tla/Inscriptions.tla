---------------------------- MODULE Inscriptions ----------------------------
(***************************************************************************)
(* The inscription of local directories (asl-store/annuaires.rs), on two     *)
(* roots that replicate each other: a code is declared, a member presents    *)
(* it, an administrator decides, the member may be withdrawn; a domain is     *)
(* entrusted to a directory.  Only facts are written: the state of a member  *)
(* and the host of a domain are read from them.                              *)
(*                                                                         *)
(* A code is known by the stamp of its declaration.  Who may ask is left out *)
(* (the owner, an administrator of the roots), as are the addresses, and the *)
(* expiry of a code: an expired code is one that nobody presents.            *)
(***************************************************************************)
EXTENDS Machines

CONSTANTS
  Membres,        \* the local directories, by their key
  SansAnnuaire,   \* Option::None, for a directory
  DomaineDe       \* the owner of each domain: deletions are in Domaines.tla

ASSUME InscriptionsAssumption == SansAnnuaire \notin Membres

VARIABLES
  declarations,    \* INSCRIPTIONS, by code
  presentations,   \* PRESENTATIONS, by code
  marques,         \* ACCEPTATIONS, REFUS and RETRAITS: the stamp, by kind and member
  hebergements,    \* HEBERGEMENTS: the last directory of a domain
  locateurs        \* LOCATEURS: the stamp of the locators of a member

tablesDesInscriptions ==
  <<declarations, presentations, marques, hebergements, locateurs>>

Genre == {"acceptation", "refus", "retrait"}
Marque(genre, m) == [genre |-> genre, membre |-> m]

-----------------------------------------------------------------------------
(* What is read.                                                           *)

Premiere(S) == CHOOSE e \in S : \A autre \in S : ~Avant(autre, e)

\* The codes a member has presented, among those that are declared here.
Presentes(r, m) ==
  {c \in DOMAIN presentations[r] \cap DOMAIN declarations[r] :
     presentations[r][c].membre = m}

\* The one that counts: presented first.
CodeDuMembre(r, m) ==
  CHOOSE c \in Presentes(r, m) :
    presentations[r][c].estampille
      = Premiere({presentations[r][autre].estampille : autre \in Presentes(r, m)})

DeclarationDuMembre(r, m) == declarations[r][CodeDuMembre(r, m)]

Retire(r, m) ==
  \/ Marque("retrait", m) \in DOMAIN marques[r]
  \/ DeclarationDuMembre(r, m).proprietaire \in effaces[r]

\* A withdrawal wins over all, a refusal over an acceptance.
EtatPropre(r, m) ==
  IF Retire(r, m) THEN "retiree"
  ELSE IF Marque("refus", m) \in DOMAIN marques[r] THEN "refusee"
  ELSE IF Marque("acceptation", m) \in DOMAIN marques[r] THEN "acceptee"
  ELSE "en attente"

\* The members that may be the second of a directory.
Candidats(r, titulaire) ==
  {m \in Membres : /\ Presentes(r, m) # {}
                   /\ DeclarationDuMembre(r, m).annuaire = titulaire
                   /\ EtatPropre(r, m) \in {"en attente", "acceptee"}}

\* Mutant of EstLeSecond: any candidate.
EstUnCandidat(r, titulaire, m) == m \in Candidats(r, titulaire)

\* The one whose code was declared first.
EstLeSecond(r, titulaire, m) ==
  /\ m \in Candidats(r, titulaire)
  /\ CodeDuMembre(r, m) = Premiere({CodeDuMembre(r, autre) : autre \in Candidats(r, titulaire)})

\* The directory that a second joins is there, of the same owner, not withdrawn.
TitulaireVivant(r, m) ==
  LET titulaire == DeclarationDuMembre(r, m).annuaire IN
  /\ Presentes(r, titulaire) # {}
  /\ DeclarationDuMembre(r, titulaire).annuaire = SansAnnuaire
  /\ DeclarationDuMembre(r, titulaire).proprietaire = DeclarationDuMembre(r, m).proprietaire
  /\ ~Retire(r, titulaire)

Second(r, m) == DeclarationDuMembre(r, m).annuaire \notin {SansAnnuaire, m}

\* membre: the state of a member, "inconnu" without a presentation.
Etat(r, m) ==
  IF Presentes(r, m) = {} THEN "inconnu"
  ELSE IF ~Second(r, m) \/ Retire(r, m) THEN EtatPropre(r, m)
  ELSE IF ~TitulaireVivant(r, m) THEN "retiree"
  ELSE IF EstLeSecond(r, DeclarationDuMembre(r, m).annuaire, m) THEN EtatPropre(r, m)
  ELSE "refusee"

\* A titular whose state is accepted.
Accepte(r, m) == Etat(r, m) = "acceptee" /\ ~Second(r, m)

\* hebergeur_de_domaine: none unless the domain is there and its directory accepted,
\* of the same owner.
Hebergeur(r, d) ==
  LET voulu == hebergements[r][d].annuaire IN
  IF /\ DomaineDe[d] \notin effaces[r] /\ d \in DOMAIN hebergements[r]
     /\ voulu # SansAnnuaire /\ Accepte(r, voulu)
     /\ DeclarationDuMembre(r, voulu).proprietaire = DomaineDe[d]
    THEN voulu ELSE SansAnnuaire

-----------------------------------------------------------------------------
(* What is applied, on both roots: each fact has its own rule.             *)

\* Inserted if absent.
AppliquerInscription(r, operation) ==
  /\ declarations' = [declarations EXCEPT ![r] =
       Garder(@, operation.code, operation.enregistrement)]
  /\ UNCHANGED <<presentations, marques, hebergements, locateurs>>

\* The first presentation of a code.
AppliquerPresentation(r, operation) ==
  /\ presentations' = [presentations EXCEPT ![r] =
       IF /\ operation.code \in DOMAIN @
          /\ ~Avant(operation.enregistrement.estampille, @[operation.code].estampille)
         THEN @ ELSE Poser(@, operation.code, operation.enregistrement)]
  /\ UNCHANGED <<declarations, marques, hebergements, locateurs>>

\* Mutant of Marquer: the mark that is held stays.
MarquerLaSienne(f, marque, e) == IF marque \in DOMAIN f THEN f ELSE Poser(f, marque, e)

\* The first mark of a kind stays.
Marquer(f, marque, e) ==
  IF marque \in DOMAIN f THEN [f EXCEPT ![marque] = PlusTot(@, e)] ELSE Poser(f, marque, e)

AppliquerMarque(r, operation) ==
  /\ marques' = [marques EXCEPT ![r] = Marquer(@, operation.marque, operation.estampille)]
  /\ UNCHANGED <<declarations, presentations, hebergements, locateurs>>

\* The last one.
AppliquerHebergement(r, operation) ==
  /\ hebergements' = [hebergements EXCEPT ![r] =
       IF /\ operation.domaine \in DOMAIN @
          /\ ~Avant(@[operation.domaine].estampille, operation.estampille)
         THEN @
         ELSE Poser(@, operation.domaine, [annuaire   |-> operation.annuaire,
                                           estampille |-> operation.estampille])]
  /\ UNCHANGED <<declarations, presentations, marques, locateurs>>

AppliquerLocateurs(r, operation) ==
  LET m == operation.membre IN
  /\ locateurs' = [locateurs EXCEPT ![r] =
       IF m \in DOMAIN @ /\ ~Avant(@[m], operation.estampille) THEN @
         ELSE Poser(@, m, operation.estampille)]
  /\ UNCHANGED <<declarations, presentations, marques, hebergements>>

AppliquerAuxInscriptions(r, operation) ==
  \/ operation.quoi = "inscription"  /\ AppliquerInscription(r, operation)
  \/ operation.quoi = "presentation" /\ AppliquerPresentation(r, operation)
  \/ operation.quoi = "marque"       /\ AppliquerMarque(r, operation)
  \/ operation.quoi = "hebergeur"    /\ AppliquerHebergement(r, operation)
  \/ operation.quoi = "locateurs"    /\ AppliquerLocateurs(r, operation)

-----------------------------------------------------------------------------
(* What the loop writes: its own operation, applied and journaled.         *)

Ecrire(r, operation) ==
  /\ AppliquerAuxInscriptions(r, operation)
  /\ Journaliser(r, operation)
  /\ UNCHANGED tablesDesMachines

\* A new directory, or a second of an accepted one that has none.
DeclarerAnnuaire(r, c, annuaire) ==
  /\ c \notin effaces[r]
  /\ annuaire # SansAnnuaire =>
       /\ Accepte(r, annuaire)
       /\ DeclarationDuMembre(r, annuaire).proprietaire = c
       /\ Candidats(r, annuaire) = {}
  /\ Ecrire(r, [quoi |-> "inscription", estampille |-> Suivante(r), code |-> Suivante(r),
                enregistrement |-> [proprietaire |-> c, annuaire |-> annuaire]])

PresenterUnCode(r, code, m) ==
  /\ code \in DOMAIN declarations[r] \ DOMAIN presentations[r]
  /\ Etat(r, m) \in {"inconnu", "retiree"}
  /\ Ecrire(r, [quoi |-> "presentation", estampille |-> Suivante(r), code |-> code,
                enregistrement |-> [membre |-> m, estampille |-> Suivante(r)]])

\* A member that is refused or withdrawn is not accepted any more; the rest may be
\* said again.
Decider(r, m, genre) ==
  /\ Etat(r, m) \notin (IF genre = "acceptation" THEN {"inconnu", "refusee", "retiree"}
                                               ELSE {"inconnu"})
  /\ Ecrire(r, [quoi |-> "marque", estampille |-> Suivante(r), marque |-> Marque(genre, m)])

\* Only among the domains of the owner, to an accepted titular of his, or to none: read
\* before the write, which looks at none of it again.
PeutConfier(r, d, annuaire) ==
  /\ DomaineDe[d] \notin effaces[r]
  /\ annuaire # SansAnnuaire =>
       Accepte(r, annuaire) /\ DeclarationDuMembre(r, annuaire).proprietaire = DomaineDe[d]

ConfierDomaine(r, d, annuaire) ==
  Ecrire(r, [quoi |-> "hebergeur", estampille |-> Suivante(r), domaine |-> d,
             annuaire |-> annuaire])

PublierLocateurs(r, m) ==
  /\ Etat(r, m) = "acceptee"
  /\ Ecrire(r, [quoi |-> "locateurs", estampille |-> Suivante(r), membre |-> m])

EcrireUneInscription(r) ==
  \/ \E c \in Titulaires, a \in Membres \cup {SansAnnuaire} : DeclarerAnnuaire(r, c, a)
  \/ \E code \in DOMAIN declarations[r], m \in Membres : PresenterUnCode(r, code, m)
  \/ \E m \in Membres, genre \in Genre : Decider(r, m, genre)
  \/ \E m \in Membres : PublierLocateurs(r, m)

-----------------------------------------------------------------------------
\* The operations of a table in the order of its keys, each made by Dit.
Dits(f, Dit(_)) == LET cles == SetToSeq(DOMAIN f) IN [i \in DOMAIN cles |-> Dit(cles[i])]

DitsDesInscriptions(q) ==
  LET declaration(c) == [quoi |-> "inscription", estampille |-> c, code |-> c,
                         enregistrement |-> declarations[q][c]]
      presentation(c) == [quoi |-> "presentation", code |-> c,
                          estampille |-> presentations[q][c].estampille,
                          enregistrement |-> presentations[q][c]]
      marque(m) == [quoi |-> "marque", estampille |-> marques[q][m], marque |-> m]
      hebergeur(d) == [quoi |-> "hebergeur", estampille |-> hebergements[q][d].estampille,
                       domaine |-> d, annuaire |-> hebergements[q][d].annuaire]
      localise(m) == [quoi |-> "locateurs", estampille |-> locateurs[q][m], membre |-> m]
  IN Dits(declarations[q], declaration) \o Dits(presentations[q], presentation)
       \o Dits(marques[q], marque) \o Dits(hebergements[q], hebergeur)
       \o Dits(locateurs[q], localise)
=============================================================================
