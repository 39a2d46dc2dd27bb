------------------------------- MODULE Droits -------------------------------
(***************************************************************************)
(* Rights given to groups (asl-store/droits.rs), who may do what (h3/, the   *)
(* handlers of domains, groups and rights), the erasure of an account, and   *)
(* the composition of the three on two roots that replicate each other.      *)
(*                                                                         *)
(* A right is never changed: its withdrawal is a mark.  What an account may  *)
(* do is computed when read.  A request is one step here: its checks and its *)
(* writing are two transactions in the code.                                 *)
(***************************************************************************)
EXTENDS Groupes

CONSTANTS
  Neuves,        \* the roots that know nothing yet
  Donnables,     \* the rights that are given, among the names of NomsDeDroits
  Depart,        \* the initial state: a clock, tables, and the journal that made them
  Butee,         \* bound: the clock from which a root writes nothing more for an account
  Sortes,        \* bound: the kinds of groups rights are given to
  DroitsMax      \* bound: the rights a root knows

NomsDeDroits == {"administrer", "rattacher", "voir", "localiser"}

LeDomaine(d) == [sorte |-> "domaine", de |-> d]
LaMachine(m) == [sorte |-> "machine", de |-> m]
LeCompte(c)  == [sorte |-> "compte", de |-> c]

\* A finite table, its keys and its rows.
EstTable(f, S, T) == DOMAIN f \subseteq S /\ IsFiniteSet(DOMAIN f) /\ f \in [DOMAIN f -> T]

\* The initial state is one that the code reaches: its stamps are given, no account is
\* erased, each has a domain, nothing hangs on what is not there, and an owner was never
\* added to the administrators of his domain.
DatesDeDepart == {e \in Estampille : e.compteur <= Depart.compteur}

GroupesDeDepart ==
  {DuDomaine(g) : g \in DOMAIN Depart.groupes}
    \cup {Administrateurs(d) : d \in DOMAIN Depart.domaines}

ASSUME DroitsAssumption ==
  LET dates  == DatesDeDepart
      dateOuNon == DatesDeDepart \cup {Aucune}
      connus == DOMAIN Depart.comptes
      places == {LieuDe(m) : m \in DOMAIN Machines} \cup {NomDe(m) : m \in DOMAIN Machines}
                  \cup {AliasDe(d) : d \in DOMAIN Depart.domaines}
  IN
  /\ Depart.compteur \in Nat /\ Donnables \subseteq NomsDeDroits
  /\ DOMAIN Machines \subseteq dates /\ Machines \in [DOMAIN Machines -> connus]
  /\ EstTable(Depart.comptes, dates, [estampille : dates, efface : {FALSE}])
  /\ EstTable(Depart.domaines, dates,
       [proprietaire : connus, estampille : dates, supprime : dateOuNon])
  /\ \A a, b \in DOMAIN Depart.domaines :
       Depart.domaines[a].estampille = Depart.domaines[b].estampille => a = b
  /\ \A c \in connus : \E d \in DOMAIN Depart.domaines : Depart.domaines[d].proprietaire = c
  /\ EstTable(Depart.poses, places, [estampille : dates, valeur : dateOuNon])
  /\ EstTable(Depart.groupes, dates, [domaine : DOMAIN Depart.domaines, etiquette : dates])
  /\ EstTable(Depart.adhesions, [groupe : GroupesDeDepart, compte : connus, ajout : dates],
       dateOuNon)
  /\ \A a \in DOMAIN Depart.adhesions, d \in DOMAIN Depart.domaines :
       a.groupe = Administrateurs(d) => a.compte # Depart.domaines[d].proprietaire
  /\ EstTable(Depart.droits, dates,
       [par : connus, droit : NomsDeDroits, retire : dateOuNon,
        groupe : GroupesDeDepart \cup {Personnel(c) : c \in connus},
        element : {LeDomaine(d) : d \in DOMAIN Depart.domaines}
                    \cup {LaMachine(m) : m \in DOMAIN Machines}
                    \cup {LeCompte(c) : c \in connus}])

VARIABLE droits   \* DROITS and its indexes

tables == <<tablesDesDomaines, tablesDesGroupes, droits>>
vars == <<voie, tables>>

-----------------------------------------------------------------------------
(* Reading.                                                                *)

\* The rights an account receives through its groups, withdrawn ones included.
DroitsRecus(r, c) == {d \in DOMAIN droits[r] : droits[r][d].groupe \in GroupesDe(r, c)}

RecusSur(r, c, element) ==
  {droits[r][d].droit :
     d \in {d \in DroitsRecus(r, c) : droits[r][d].element = element
                                      /\ droits[r][d].retire = Aucune}}

\* Administrator of a domain by its group, or by a right on it.
Administre(r, c, d) ==
  /\ Vivant(r, d)
  /\ \/ c \in Membres(r, Administrateurs(d))
     \/ "administrer" \in RecusSur(r, c, LeDomaine(d))

PeutRanger(r, c, d) ==
  Vivant(r, d) /\ (Administre(r, c, d) \/ "rattacher" \in RecusSur(r, c, LeDomaine(d)))

\* Where a machine is: the last place it was given, as long as its owner may still
\* put it there.
DomaineDeMachine(r, m) ==
  LET lieu == IF LieuDe(m) \in DOMAIN poses[r] THEN poses[r][LieuDe(m)].valeur ELSE Aucune
  IN IF MachineLa(r, m) /\ lieu # Aucune /\ PeutRanger(r, Machines[m], lieu)
       THEN lieu ELSE Aucune

PeutAccorderSurLaMachine(r, c, m) ==
  /\ MachineLa(r, m)
  /\ \/ Machines[m] = c
     \/ DomaineDeMachine(r, m) # Aucune /\ Administre(r, c, DomaineDeMachine(r, m))

\* A right counts as long as it is not withdrawn and its element is there; on a
\* machine, as long as the one who gave it still could.
Vaut(r, d) ==
  LET droit == droits[r][d] IN
  /\ droit.retire = Aucune
  /\ CASE droit.element.sorte = "compte"  -> /\ droit.element.de = droit.par
                                             /\ CompteVivant(r, droit.par)
       [] droit.element.sorte = "domaine" -> Vivant(r, droit.element.de)
       [] droit.element.sorte = "machine" ->
            PeutAccorderSurLaMachine(r, droit.par, droit.element.de)

DroitsSurDomaine(r, c, d) ==
  IF ~Vivant(r, d) THEN {}
    ELSE IF domaines[r][d].proprietaire = c THEN NomsDeDroits
    ELSE LET recus == RecusSur(r, c, LeDomaine(d))
             tenus == recus \cup (IF Administre(r, c, d)
                                    THEN {"administrer", "rattacher", "voir"} ELSE {})
         IN tenus \cup (IF "localiser" \in tenus THEN {"voir"} ELSE {})

Permet(voulu, noms) ==
  noms \cap (IF voulu = "voir" THEN {"voir", "localiser", "administrer"}
                               ELSE {"localiser"}) # {}

\* The machines of others that an account may see or locate.
Acces(r, c, voulu) ==
  {m \in DOMAIN Machines :
     /\ MachineLa(r, m) /\ Machines[m] # c
     /\ \/ \E d \in DroitsRecus(r, c) :
             /\ Permet(voulu, {droits[r][d].droit}) /\ Vaut(r, d)
             /\ LET element == droits[r][d].element IN
                  \/ element = LaMachine(m) \/ element = LeCompte(Machines[m])
                  \/ element = LeDomaine(DomaineDeMachine(r, m))
        \/ /\ DomaineDeMachine(r, m) # Aucune
           /\ Permet(voulu, DroitsSurDomaine(r, c, DomaineDeMachine(r, m)))
           /\ \/ domaines[r][DomaineDeMachine(r, m)].proprietaire = c
              \/ Administre(r, c, DomaineDeMachine(r, m))}

PeutAccorderSur(r, c, element) ==
  CASE element.sorte = "compte"  -> element.de = c
    [] element.sorte = "domaine" -> Administre(r, c, element.de)
    [] element.sorte = "machine" -> PeutAccorderSurLaMachine(r, c, element.de)

Elements(r) == {LeDomaine(d) : d \in DOMAIN domaines[r]}
                 \cup {LaMachine(m) : m \in {m \in DOMAIN Machines : MachineLa(r, m)}}
                 \cup {LeCompte(c) : c \in {c \in DOMAIN comptes[r] : CompteVivant(r, c)}}

\* Mutant of PeutEntrer: only the element is looked at.
PeutEntrerSansGroupe(r, droit) ==
  ~CompteEfface(r, droit.par) /\ droit.element \in Elements(r)

\* What never comes back keeps a right out: its giver, its group, its element.
PeutEntrer(r, droit) ==
  /\ ~CompteEfface(r, droit.par)
  /\ Rangee(r, droit.groupe) /\ ~Marque(r, droit.groupe)
  /\ droit.element \in Elements(r)

OublierLesDroits(r, S) == droits' = [droits EXCEPT ![r] = Sans(@, S)]

DroitsDuGroupe(r, g) == {d \in DOMAIN droits[r] : droits[r][d].groupe = g}

-----------------------------------------------------------------------------
(* What the loop writes, for the account c of a connection.                *)

AccorderDroit(r, c) ==
  \E element \in {x \in Elements(r) : PeutAccorderSur(r, c, x)},
     g \in {x \in GroupesLus(r) : x.sorte \in Sortes}, nom \in Donnables :
    LET droit == [par |-> c, groupe |-> g, element |-> element, droit |-> nom,
                  retire |-> Aucune]
    IN
    /\ Cardinality(DOMAIN droits[r]) < DroitsMax
    /\ nom \in {"administrer", "rattacher"} => element.sorte = "domaine"
    /\ PeutEntrer(r, droit)
    /\ droits' = [droits EXCEPT ![r] = Poser(@, Suivante(r), droit)]
    /\ Journaliser(r, [quoi |-> "droit", estampille |-> Suivante(r),
                       enregistrement |-> droit])
    /\ UNCHANGED <<tablesDesDomaines, tablesDesGroupes>>

RetirerDroit(r, c) ==
  \E d \in DOMAIN droits[r] :
    /\ droits[r][d].par = c \/ PeutAccorderSur(r, c, droits[r][d].element)
    /\ droits[r][d].retire = Aucune
    /\ droits' = [droits EXCEPT ![r][d].retire = Suivante(r)]
    /\ Journaliser(r, [quoi |-> "droitRetire", estampille |-> Suivante(r), droit |-> d])
    /\ UNCHANGED <<tablesDesDomaines, tablesDesGroupes>>

\* The handlers of domains: the owner deletes, an administrator names, the owner of a
\* machine puts it where it may.
EcrireUnDomaine(r, c) ==
  /\ \/ ReclamerAlias(r, c)
     \/ CreerDomaine(r, c)
     \/ \E d \in DomainesDe(r, c) : SupprimerDomaine(r, d)
     \/ \E d \in DomainesVivants(r) : Administre(r, c, d) /\ PoserAliasDeDomaine(r, d)
     \/ \E m \in DOMAIN Machines : Machines[m] = c /\
          \/ PoserAliasDeMachine(r, m)
          \/ RattacherMachine(r, m, Aucune)
          \/ \E d \in DomainesVivants(r) : PeutRanger(r, c, d) /\ RattacherMachine(r, m, d)
  /\ UNCHANGED <<tablesDesGroupes, droits>>

\* The handlers of groups: an administrator of the domain; a member may leave.
EcrireUnGroupe(r, c) ==
  /\ \/ \E d \in DomainesVivants(r) : Administre(r, c, d) /\ CreerGroupe(r, d)
     \/ \E g \in GroupesLus(r) :
          /\ g.sorte # "personnel"
          /\ \/ Administre(r, c, Rattache(r, g)) /\
                  (EtiqueterGroupe(r, g) \/ \E x \in DOMAIN comptes[r] : AjouterMembre(r, g, x))
             \/ \E x \in DOMAIN comptes[r] :
                  (c = x \/ Administre(r, c, Rattache(r, g))) /\ RetirerMembre(r, g, x)
  /\ UNCHANGED <<tablesDesDomaines, droits>>

\* The deletion of a group takes what it was given.
SupprimerUnGroupe(r, c) ==
  /\ \E g \in GroupesLus(r) :
       /\ g.sorte = "domaine" /\ Administre(r, c, Rattache(r, g))
       /\ SupprimerGroupe(r, g)
       /\ OublierLesDroits(r, DroitsDuGroupe(r, g))
  /\ UNCHANGED tablesDesDomaines

\* What leaves with an account: what its groups were given, what is on it, on its
\* domains and on its machines, what it gave.
DroitsEmportes(r, c) ==
  {d \in DOMAIN droits[r] :
     LET droit == droits[r][d] IN
     \/ droit.par = c
     \/ droit.groupe \in GroupesEmportes(r, c)
     \/ droit.element \in {LeCompte(c)} \cup {LeDomaine(x) : x \in DomainesDe(r, c)}
                            \cup {LaMachine(m) : m \in {m \in DOMAIN Machines : Machines[m] = c}}}

EffacerDans(r, c) ==
  EffacerLesGroupes(r, c) /\ EffacerLesDomaines(r, c) /\ OublierLesDroits(r, DroitsEmportes(r, c))

EffacerCompte(r, c) ==
  /\ EffacerDans(r, c)
  /\ Journaliser(r, [quoi |-> "efface", estampille |-> Suivante(r), compte |-> c])

-----------------------------------------------------------------------------
(* What comes from the peer.                                               *)

\* A right that is there is not looked at again.
AppliquerDroit(r, operation) ==
  /\ droits' = [droits EXCEPT ![r] =
       IF PeutEntrer(r, operation.enregistrement)
         THEN Garder(@, operation.estampille, operation.enregistrement) ELSE @]
  /\ UNCHANGED <<tablesDesDomaines, tablesDesGroupes>>

AppliquerDroitRetire(r, operation) ==
  LET d == operation.droit IN
  /\ droits' = IF d \in DOMAIN droits[r]
       THEN [droits EXCEPT ![r][d].retire = PremiereMarque(@, operation.estampille)]
       ELSE droits
  /\ UNCHANGED <<tablesDesDomaines, tablesDesGroupes>>

AppliquerCompteEfface(r, operation) ==
  IF CompteEfface(r, operation.compte) THEN UNCHANGED tables
    ELSE EffacerDans(r, operation.compte)

AppliquerAuxDomaines(r, operation) ==
  /\ \/ operation.quoi = "compte"   /\ AppliquerCompte(r, operation)
     \/ operation.quoi = "alias"    /\ AppliquerAlias(r, operation)
     \/ operation.quoi = "domaine"  /\ AppliquerDomaine(r, operation)
     \/ operation.quoi = "supprime" /\ AppliquerDomaineSupprime(r, operation)
     \/ operation.quoi = "pose"     /\ AppliquerPose(r, operation)
  /\ UNCHANGED <<tablesDesGroupes, droits>>

AppliquerAuxGroupes(r, operation) ==
  /\ \/ operation.quoi = "groupe"    /\ AppliquerGroupe(r, operation)
     \/ operation.quoi = "etiquette" /\ AppliquerGroupeEtiquette(r, operation)
     \/ operation.quoi = "membre"    /\ AppliquerGroupeMembre(r, operation)
     \/ operation.quoi = "retire"    /\ AppliquerGroupeMembreRetire(r, operation)
  /\ UNCHANGED <<tablesDesDomaines, droits>>

Recevoir(r) ==
  /\ Retirer(r)
  /\ LET operation == Head(enRoute[r]) IN
       \/ AppliquerAuxDomaines(r, operation)
       \/ AppliquerAuxGroupes(r, operation)
       \/ /\ operation.quoi = "dissous"
          /\ AppliquerGroupeSupprime(r, operation)
          /\ OublierLesDroits(r, DroitsDuGroupe(r, DuDomaine(operation.de)))
          /\ UNCHANGED tablesDesDomaines
       \/ operation.quoi = "droit"       /\ AppliquerDroit(r, operation)
       \/ operation.quoi = "droitRetire" /\ AppliquerDroitRetire(r, operation)
       \/ operation.quoi = "efface"      /\ AppliquerCompteEfface(r, operation)
       \/ operation.quoi = "fin"         /\ UNCHANGED tables

\* The accounts first, with their current stamp; a right carries its withdrawal.
Instantane(q) ==
  LET connus == SetToSeq(DOMAIN comptes[q])
      donnes == SetToSeq(DOMAIN droits[q])
  IN [i \in DOMAIN connus |->
        [quoi |-> IF CompteEfface(q, connus[i]) THEN "efface" ELSE "compte",
         estampille |-> comptes[q][connus[i]].estampille, compte |-> connus[i]]]
     \o DitsDesDomaines(q) \o DitsDesGroupes(q)
     \o [i \in DOMAIN donnes |->
           [quoi |-> "droit", estampille |-> donnes[i],
            enregistrement |-> droits[q][donnes[i]]]]
     \o DitsDesPoses(q)

Amorcer(r) == AmorcerPar(r, Instantane(Pair[r])) /\ UNCHANGED tables

-----------------------------------------------------------------------------
\* A root that knows nothing yet has the whole journal of its peer to read.
Au(depart) == [r \in Racine |-> IF r \in Neuves THEN <<>> ELSE depart]

Init ==
  /\ compteur  = [r \in Racine |-> IF r \in Neuves THEN 0 ELSE Depart.compteur]
  /\ enRoute   = [r \in Racine |-> IF r \in Neuves THEN Depart.journal ELSE <<>>]
  /\ amorcages = 0
  /\ comptes   = Au(Depart.comptes)
  /\ domaines  = Au(Depart.domaines)
  /\ poses     = Au(Depart.poses)
  /\ groupes   = Au(Depart.groupes)
  /\ marques   = Au(<<>>)
  /\ adhesions = Au(Depart.adhesions)
  /\ droits    = Au(Depart.droits)

Demander(r, c) ==
  /\ CompteVivant(r, c) /\ compteur[r] < Butee[r][c]
  /\ \/ EcrireUnDomaine(r, c) \/ EcrireUnGroupe(r, c) \/ SupprimerUnGroupe(r, c)
     \/ AccorderDroit(r, c) \/ RetirerDroit(r, c) \/ EffacerCompte(r, c)

Next ==
  \E r \in Racine :
    (\E c \in DOMAIN comptes[r] : Demander(r, c)) \/ Recevoir(r) \/ Amorcer(r)

Spec == Init /\ [][Next]_vars
-----------------------------------------------------------------------------
(* Properties.                                                             *)

TypeOK ==
  LET e  == Estampille
      ea == Estampille \cup {Aucune}
      g  == [sorte : {"domaine", "administrateurs", "personnel"}, de : e]
  IN
  /\ compteur \in [Racine -> Nat] /\ amorcages \in Nat
  /\ \A r \in Racine :
       /\ \A i \in DOMAIN enRoute[r] : enRoute[r][i].estampille \in ea
       /\ EstTable(comptes[r], e, [estampille : ea, efface : BOOLEAN])
       /\ EstTable(domaines[r], e, [proprietaire : e, estampille : e, supprime : ea])
       /\ EstTable(poses[r], [quoi : {"alias", "nom", "lieu"}, de : e],
                             [estampille : e, valeur : ea])
       /\ EstTable(groupes[r], e, [domaine : e, etiquette : e])
       /\ EstTable(marques[r], e, e)
       /\ EstTable(adhesions[r], [groupe : g, compte : e, ajout : e], ea)
       /\ EstTable(droits[r], e,
            [par : e, groupe : g, droit : NomsDeDroits, retire : ea,
             element : [sorte : {"domaine", "machine", "compte"}, de : e]])

\* An account that is alive always has a domain that is alive, and exactly one when
\* all of its domains were deleted, on one root or on both (domaines.rs 137).
ToujoursUnDomaine ==
  \A r \in Racine : \A c \in DOMAIN comptes[r] : CompteVivant(r, c) =>
    LET siens == {d \in DomainesDe(r, c) : Vivant(r, d)} IN
    /\ siens # {}
    /\ (\A d \in DomainesDe(r, c) : domaines[r][d].supprime # Aucune)
         => Cardinality(siens) = 1

\* What was withdrawn from a table, whatever the moment.
DroitsSansRetrait(r) ==
  [d \in DOMAIN droits[r] |-> [droits[r][d] EXCEPT !.retire = Aucune]]

\* Once everything is received, both roots hold the same domains, places, groups,
\* members and rights, whatever crossed on the way: deletions, removals, erasures,
\* snapshots.  Two tables differ by what the code loses: the withdrawal of a right,
\* after a snapshot, and the stamp of a first domain, for a root that was new.
RacinesDAccord ==
  RienEnRoute => \A r \in Racine :
    LET p == Pair[r] IN
    /\ {c \in DOMAIN comptes[r] : CompteVivant(r, c)}
         = {c \in DOMAIN comptes[p] : CompteVivant(p, c)}
    /\ \A d \in DOMAIN domaines[r] :
         /\ d \in DOMAIN domaines[p]
         /\ domaines[r][d].supprime = domaines[p][d].supprime
    /\ poses[r] = poses[p] /\ groupes[r] = groupes[p] /\ adhesions[r] = adhesions[p]
    /\ \A g \in DOMAIN groupes[r] : Marque(r, DuDomaine(g)) <=> Marque(p, DuDomaine(g))
    /\ DroitsSansRetrait(r) = DroitsSansRetrait(p)
    /\ amorcages = 0 => droits[r] = droits[p]
    /\ amorcages = 0 =>
         \A c \in DOMAIN comptes[r] : Acces(r, c, "voir") = Acces(p, c, "voir")

\* Nothing hangs: no member of a group that is deleted or gone, no right given to it,
\* by an account that is erased, or on an element that is gone, also when the
\* operations of the peer arrive after the deletion (groupes.rs 550, droits.rs 238).
RienNePend ==
  \A r \in Racine :
    /\ \A a \in DOMAIN adhesions[r] :
         CompteVivant(r, a.compte) /\ Rangee(r, a.groupe) /\ ~Marque(r, a.groupe)
    /\ \A d \in DOMAIN droits[r] :
         LET droit == droits[r][d] IN
         /\ CompteVivant(r, droit.par)
         /\ Rangee(r, droit.groupe) /\ ~Marque(r, droit.groupe)
         /\ droit.element \in Elements(r)
    /\ \A g \in DOMAIN groupes[r] : groupes[r][g].domaine \in DOMAIN domaines[r]

\* Every row is one of its table, and nothing hangs.
TablesJustes == TypeOK /\ RienNePend

\* A removal written on a root is in effect on the other one as soon as it is not on
\* its way to it any more, at any moment: removals of members, deletions of groups and
\* domains, withdrawals of rights (those of rights, with the journal alone).
RetireEnEffet(q) ==
  LET r == Pair[q]
      enVoie(quoi) == {o \in Range(enRoute[r]) : o.quoi = quoi}
  IN
  /\ \A a \in DOMAIN adhesions[q] : adhesions[q][a] # Aucune /\ a \in DOMAIN adhesions[r] =>
       \/ adhesions[r][a] # Aucune
       \/ \E o \in enVoie("retire") : o.groupe = a.groupe /\ o.compte = a.compte
                                        /\ o.ajout = a.ajout
  /\ \A d \in DOMAIN domaines[q] \cap DOMAIN domaines[r] :
       domaines[q][d].supprime # Aucune =>
         domaines[r][d].supprime # Aucune \/ \E o \in enVoie("supprime") : o.de = d
  /\ \A g \in DOMAIN marques[q] : g \in DOMAIN groupes[r] =>
       g \in DOMAIN marques[r] \/ \E o \in enVoie("dissous") : o.de = g

RetraitDeDroitEnEffet(q) ==
  LET r == Pair[q] IN
  \A d \in DOMAIN droits[q] \cap DOMAIN droits[r] : droits[q][d].retire # Aucune =>
    \/ droits[r][d].retire # Aucune
    \/ \E o \in Range(enRoute[r]) :
         \/ o.quoi = "droitRetire" /\ o.droit = d
         \/ /\ o.quoi = "droit" /\ o.estampille = d
            /\ o.enregistrement.retire # Aucune

RetraitsEnEffet ==
  \A q \in Racine : RetireEnEffet(q) /\ (amorcages = 0 => RetraitDeDroitEnEffet(q))

\* A right that was withdrawn, an addition that was removed, a domain that was deleted
\* stay so, at the first date known, and the mark of a group stays as long as the
\* account of its domain.
Irreversible ==
  [][\A r \in Racine :
       /\ \A d \in DOMAIN droits[r] \cap DOMAIN droits'[r] : droits[r][d].retire # Aucune =>
            /\ droits'[r][d].retire # Aucune
            /\ ~Avant(droits[r][d].retire, droits'[r][d].retire)
       /\ \A a \in DOMAIN adhesions[r] \cap DOMAIN adhesions'[r] : adhesions[r][a] # Aucune =>
            /\ adhesions'[r][a] # Aucune
            /\ ~Avant(adhesions[r][a], adhesions'[r][a])
       /\ \A d \in DOMAIN domaines[r] \cap DOMAIN domaines'[r] :
            domaines[r][d].supprime # Aucune =>
              /\ domaines'[r][d].supprime # Aucune
              /\ ~Avant(domaines[r][d].supprime, domaines'[r][d].supprime)
       /\ \A g \in DOMAIN marques[r] : g \in DOMAIN groupes'[r] => g \in DOMAIN marques'[r]]_vars

\* replication.md 200: a right that is withdrawn on one side is withdrawn, always.
RetraitDeDroitTenu == \A q \in Racine : RetraitDeDroitEnEffet(q)

\* replication.md 203: both roots compute the same survivor, in every order.
MemeSurvivant ==
  RienEnRoute => \A r \in Racine : DomainesVivants(r) = DomainesVivants(Pair[r])
=============================================================================
