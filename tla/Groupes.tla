------------------------------- MODULE Groupes -------------------------------
(***************************************************************************)
(* Groups and their members (asl-store/groupes.rs).  A group is created in a *)
(* domain, or deduced: the administrators of a domain, the personal group of *)
(* an account; deduced groups are not written.  An addition is a fact known  *)
(* by its stamp, and a removal names the addition it removes.  The group of  *)
(* the administrators of the roots is left out.                              *)
(***************************************************************************)
EXTENDS Domaines

VARIABLES
  groupes,     \* GROUPES: the domain of each created group, the stamp of its label
  marques,     \* MARQUES_DE_GROUPES: the deleted groups
  adhesions    \* ADHESIONS: for each addition, its removal if any

tablesDesGroupes == <<groupes, marques, adhesions>>

DuDomaine(g)        == [sorte |-> "domaine", de |-> g]
Administrateurs(d)  == [sorte |-> "administrateurs", de |-> d]
Personnel(c)        == [sorte |-> "personnel", de |-> c]

\* The row of a group is there, marked or not.
Rangee(r, g) ==
  CASE g.sorte = "domaine"         -> g.de \in DOMAIN groupes[r]
    [] g.sorte = "administrateurs" -> g.de \in DOMAIN domaines[r]
    [] g.sorte = "personnel"       -> CompteVivant(r, g.de)

Marque(r, g) == g.sorte = "domaine" /\ g.de \in DOMAIN marques[r]

\* The domain a group is attached to, when it is not a personal one.
Rattache(r, g) == IF g.sorte = "domaine" THEN groupes[r][g.de].domaine ELSE g.de

\* A group that is read: alive, in a domain that is alive.
Lu(r, g) ==
  /\ Rangee(r, g) /\ ~Marque(r, g)
  /\ g.sorte # "personnel" => Vivant(r, Rattache(r, g))

Groupes(r) == {DuDomaine(g) : g \in DOMAIN groupes[r]}
                \cup {Administrateurs(d) : d \in DOMAIN domaines[r]}
                \cup {Personnel(c) : c \in DOMAIN comptes[r]}

GroupesLus(r) == {g \in Groupes(r) : Lu(r, g)}

\* The additions of an account to a group that were not removed.
Ajouts(r, g, c) ==
  {a \in DOMAIN adhesions[r] : a.groupe = g /\ a.compte = c /\ adhesions[r][a] = Aucune}

\* The owner of a domain is one of its administrators without any addition.
DOffice(r, g) ==
  IF g.sorte = "personnel" THEN {g.de}
    ELSE IF g.sorte = "administrateurs" /\ g.de \in DOMAIN domaines[r]
      THEN {domaines[r][g.de].proprietaire} ELSE {}

Membres(r, g) ==
  DOffice(r, g) \cup {c \in DOMAIN comptes[r] : CompteVivant(r, c) /\ Ajouts(r, g, c) # {}}

GroupesDe(r, c) == {g \in GroupesLus(r) : c \in Membres(r, g)}

-----------------------------------------------------------------------------
CreerGroupe(r, d) ==
  LET g == Suivante(r) IN
  /\ Vivant(r, d)
  /\ groupes' = [groupes EXCEPT ![r] = Poser(@, g, [domaine |-> d, etiquette |-> g])]
  /\ Journaliser(r, [quoi |-> "groupe", estampille |-> g, de |-> g, domaine |-> d,
                     etiquette |-> g])
  /\ UNCHANGED <<marques, adhesions>>

\* The label that is later stays, also against a local one: the clock is below the labels
\* of a snapshot until its end frame.
PoserLEtiquette(r, g, e) ==
  groupes' = IF g \in DOMAIN groupes[r] /\ Avant(groupes[r][g].etiquette, e)
               THEN [groupes EXCEPT ![r][g].etiquette = e] ELSE groupes

EtiqueterGroupe(r, g) ==
  /\ g.sorte = "domaine" /\ Lu(r, g)
  /\ PoserLEtiquette(r, g.de, Suivante(r))
  /\ Journaliser(r, [quoi |-> "etiquette", estampille |-> Suivante(r), de |-> g.de])
  /\ UNCHANGED <<marques, adhesions>>

AjouterMembre(r, g, c) ==
  /\ g.sorte # "personnel" /\ Lu(r, g)
  /\ CompteVivant(r, c) /\ c \notin Membres(r, g)
  /\ adhesions' = [adhesions EXCEPT ![r] =
       Poser(@, [groupe |-> g, compte |-> c, ajout |-> Suivante(r)], Aucune)]
  /\ Journaliser(r, [quoi |-> "membre", estampille |-> Suivante(r), groupe |-> g,
                     compte |-> c])
  /\ UNCHANGED <<groupes, marques>>

\* Every addition of the account, each under a stamp of its own.
RetirerMembre(r, g, c) ==
  LET siens == SetToSeq(Ajouts(r, g, c)) IN
  /\ g.sorte # "personnel" /\ Lu(r, g)
  /\ c \notin DOffice(r, g) /\ siens # <<>>
  /\ adhesions' = [adhesions EXCEPT ![r] =
       [a \in DOMAIN @ |-> IF a \notin Ajouts(r, g, c) THEN @[a]
          ELSE Prochaine(r, CHOOSE i \in DOMAIN siens : siens[i] = a)]]
  /\ JournaliserTout(r, [i \in DOMAIN siens |->
       [quoi |-> "retire", estampille |-> Prochaine(r, i), groupe |-> g, compte |-> c,
        ajout |-> siens[i].ajout]])
  /\ UNCHANGED <<groupes, marques>>

\* The first mark stays, the additions leave.  What the group was given leaves too
\* (Droits.tla).
Marquer(r, g, e) ==
  /\ marques' = [marques EXCEPT ![r] =
       Poser(@, g, IF g \in DOMAIN @ THEN PlusTot(@[g], e) ELSE e)]
  /\ adhesions' = [adhesions EXCEPT ![r] =
       Sans(@, {a \in DOMAIN @ : a.groupe = DuDomaine(g)})]
  /\ UNCHANGED groupes

SupprimerGroupe(r, g) ==
  /\ g.sorte = "domaine" /\ Lu(r, g)
  /\ Marquer(r, g.de, Suivante(r))
  /\ Journaliser(r, [quoi |-> "dissous", estampille |-> Suivante(r), de |-> g.de])

-----------------------------------------------------------------------------
AppliquerGroupe(r, operation) ==
  LET g == operation.de IN
  /\ IF operation.domaine \notin DOMAIN domaines[r] THEN UNCHANGED groupes
       ELSE IF g \in DOMAIN groupes[r] THEN PoserLEtiquette(r, g, operation.etiquette)
       ELSE groupes' = [groupes EXCEPT ![r] =
              Poser(@, g, [domaine |-> operation.domaine, etiquette |-> operation.etiquette])]
  /\ UNCHANGED <<marques, adhesions>>

AppliquerGroupeEtiquette(r, operation) ==
  /\ PoserLEtiquette(r, operation.de, operation.estampille)
  /\ UNCHANGED <<marques, adhesions>>

\* Mutant of PeutRecevoir: the mark of the group is not looked at.
PeutRecevoirMarque(r, g) == g.sorte # "personnel" /\ Rangee(r, g)

PeutRecevoir(r, g) == g.sorte # "personnel" /\ Rangee(r, g) /\ ~Marque(r, g)

AppliquerGroupeMembre(r, operation) ==
  LET a == [groupe |-> operation.groupe, compte |-> operation.compte,
            ajout |-> operation.estampille]
  IN
  /\ adhesions' = [adhesions EXCEPT ![r] =
       IF ~CompteEfface(r, a.compte) /\ PeutRecevoir(r, a.groupe)
         THEN Garder(@, a, Aucune) ELSE @]
  /\ UNCHANGED <<groupes, marques>>

\* A removal enters even when its addition is not there.
AppliquerGroupeMembreRetire(r, operation) ==
  LET a == [groupe |-> operation.groupe, compte |-> operation.compte,
            ajout |-> operation.ajout]
  IN
  /\ adhesions' = [adhesions EXCEPT ![r] =
       IF /\ ~CompteEfface(r, a.compte) /\ PeutRecevoir(r, a.groupe)
          /\ a.compte \notin DOffice(r, a.groupe)
         THEN Poser(@, a, PremiereMarque(IF a \in DOMAIN @ THEN @[a] ELSE Aucune,
                                         operation.estampille))
         ELSE @]
  /\ UNCHANGED <<groupes, marques>>

AppliquerGroupeSupprime(r, operation) == Marquer(r, operation.de, operation.estampille)

\* The groups of an account and of its domains leave, with their marks and their
\* members, and the additions of the account anywhere.
GroupesEmportes(r, c) ==
  {g \in Groupes(r) : IF g.sorte = "personnel" THEN g.de = c
                                               ELSE Rattache(r, g) \in DomainesDe(r, c)}

EffacerLesGroupes(r, c) ==
  LET partis == GroupesEmportes(r, c)
      crees  == {g.de : g \in {p \in partis : p.sorte = "domaine"}}
  IN
  /\ groupes' = [groupes EXCEPT ![r] = Sans(@, crees)]
  /\ marques' = [marques EXCEPT ![r] = Sans(@, crees)]
  /\ adhesions' = [adhesions EXCEPT ![r] =
       Sans(@, {a \in DOMAIN @ : a.groupe \in partis \/ a.compte = c})]

\* The groups of q as a snapshot tells them: groups, marks, additions and removals.
DitsDesGroupes(q) ==
  LET crees  == SetToSeq(DOMAIN groupes[q])
      morts  == SetToSeq(DOMAIN marques[q])
      ajouts == SetToSeq(DOMAIN adhesions[q])
  IN [i \in DOMAIN crees |->
        [quoi |-> "groupe", estampille |-> crees[i], de |-> crees[i],
         domaine |-> groupes[q][crees[i]].domaine,
         etiquette |-> groupes[q][crees[i]].etiquette]]
     \o [i \in DOMAIN morts |->
           [quoi |-> "dissous", estampille |-> marques[q][morts[i]], de |-> morts[i]]]
     \o FlattenSeq([i \in DOMAIN ajouts |->
          LET a == ajouts[i]
              membre == [quoi |-> "membre", estampille |-> a.ajout, groupe |-> a.groupe,
                         compte |-> a.compte]
          IN IF adhesions[q][a] = Aucune THEN <<membre>>
               ELSE <<membre, [quoi |-> "retire", estampille |-> adhesions[q][a],
                               groupe |-> a.groupe, compte |-> a.compte,
                               ajout |-> a.ajout]>>])
=============================================================================
