---------------------------- MODULE DroitsPreuves -----------------------------
(***************************************************************************)
(* Proofs about Droits.tla: its tables and that nothing hangs, that an     *)
(* account that is alive has a domain that is alive, and that what is      *)
(* withdrawn, removed or deleted stays so.                                 *)
(*                                                                         *)
(* They are about two roots that share an initial state: both know its     *)
(* accounts (Neuves = {}).  The inductive invariant IInv bounds every stamp *)
(* by the clock of the root that gave it (Emise), and knows the stamp that *)
(* a domain has on every root (Naissance): two domains never have the      *)
(* same, so the oldest of an account is one.                               *)
(***************************************************************************)
EXTENDS Droits, RepliquePreuves

-----------------------------------------------------------------------------
(* The rows and the operations, over the stamps that are given.            *)

Connus == DOMAIN Depart.comptes
DateOuNon(E) == E \cup {Aucune}

\* A domain of the initial state has its own stamp, a later one is its stamp.
Naissance(d) ==
  IF d \in DOMAIN Depart.domaines THEN Depart.domaines[d].estampille ELSE d

DomaineNe(E) ==
  {d \in E : d \in DOMAIN Depart.domaines \/ Depart.compteur < d.compteur}

SorteDeGroupe == {"domaine", "administrateurs", "personnel"}
GroupeDe(E)   == [sorte : SorteDeGroupe, de : E]
ElementDe(E)  == [sorte : {"domaine", "machine", "compte"}, de : E]
CleDe(E)      == [quoi : {"alias", "nom", "lieu"}, de : E]

CompteDe(E)      == [estampille : DateOuNon(E), efface : BOOLEAN]
RangeeDeDomaine(E) == [proprietaire : Connus, estampille : E, supprime : DateOuNon(E)]
PoseDe(E)        == [estampille : E, valeur : DateOuNon(E)]
GroupeCree(E)    == [domaine : E, etiquette : E]
AdhesionDe(E)    == [groupe : GroupeDe(E), compte : Connus, ajout : E]
DroitDe(E) ==
  [par : Connus, groupe : GroupeDe(E), element : ElementDe(E), droit : NomsDeDroits,
   retire : DateOuNon(E)]

AuxDomaines(E) ==
  [quoi : {"compte", "efface"}, estampille : DateOuNon(E), compte : Connus]
    \cup [quoi : {"alias"}, estampille : E, compte : Connus]
    \cup {operation \in [quoi : {"domaine"}, estampille : E, de : DomaineNe(E),
                         proprietaire : Connus] :
            operation.estampille = Naissance(operation.de)}
    \cup [quoi : {"supprime"}, estampille : E, de : E]
    \cup [quoi : {"pose"}, estampille : E, cle : CleDe(E), valeur : DateOuNon(E)]
    \cup [quoi : {"fin"}, estampille : E]

AuxGroupes(E) ==
  [quoi : {"groupe"}, estampille : E, de : E, domaine : E, etiquette : E]
    \cup [quoi : {"etiquette", "dissous"}, estampille : E, de : E]
    \cup [quoi : {"membre"}, estampille : E, groupe : GroupeDe(E), compte : Connus]
    \cup [quoi : {"retire"}, estampille : E, groupe : GroupeDe(E), compte : Connus, ajout : E]

AuxDroits(E) ==
  [quoi : {"droit"}, estampille : E, enregistrement : DroitDe(E)]
    \cup [quoi : {"droitRetire"}, estampille : E, droit : E]

OperationDe(E) == AuxDomaines(E) \cup AuxGroupes(E) \cup AuxDroits(E)

\* The clocks and the paths.
Voies ==
  /\ compteur \in [Racine -> Nat] /\ amorcages \in Nat
  /\ enRoute \in [Racine -> Seq(OperationDe(Emise))]
  /\ \A r \in Racine : Depart.compteur <= compteur[r]

Racines ==
  /\ DOMAIN comptes = Racine /\ DOMAIN domaines = Racine /\ DOMAIN poses = Racine
  /\ DOMAIN groupes = Racine /\ DOMAIN marques = Racine /\ DOMAIN adhesions = Racine
  /\ DOMAIN droits = Racine

ComptesJustes(r) ==
  /\ comptes[r] \in [Connus -> CompteDe(Emise)]
  /\ \A c \in Connus : CompteVivant(r, c) => comptes[r][c].estampille \in Emise

\* A domain belongs to an account that is alive, and such an account has one.
DomainesJustes(r) ==
  /\ TableDe(domaines[r], DomaineNe(Emise), RangeeDeDomaine(Emise))
  /\ \A d \in DOMAIN domaines[r] :
       /\ domaines[r][d].estampille = Naissance(d)
       /\ CompteVivant(r, domaines[r][d].proprietaire)
  /\ \A c \in Connus : CompteVivant(r, c) => DomainesDe(r, c) # {}

\* What is posed is posed on what is there, and is not younger than the clock.
PosesJustes(r) ==
  /\ TableDe(poses[r], CleDe(Emise), PoseDe(Emise))
  /\ \A cle \in DOMAIN poses[r] :
       Accueille(r, cle) /\ poses[r][cle].estampille.compteur <= compteur[r]

GroupesJustes(r) ==
  /\ TableDe(groupes[r], Emise, GroupeCree(Emise))
  /\ TableDe(marques[r], Emise, Emise)
  /\ \A g \in DOMAIN groupes[r] : groupes[r][g].domaine \in DOMAIN domaines[r]

GroupeLa(r, g) == Rangee(r, g) /\ ~Marque(r, g)

AdhesionsJustes(r) ==
  /\ TableDe(adhesions[r], AdhesionDe(Emise), DateOuNon(Emise))
  /\ \A a \in DOMAIN adhesions[r] : CompteVivant(r, a.compte) /\ GroupeLa(r, a.groupe)

DroitsJustes(r) ==
  /\ TableDe(droits[r], Emise, DroitDe(Emise))
  /\ \A d \in DOMAIN droits[r] :
       /\ CompteVivant(r, droits[r][d].par) /\ GroupeLa(r, droits[r][d].groupe)
       /\ droits[r][d].element \in Elements(r)

Locale(r) ==
  /\ ComptesJustes(r) /\ DomainesJustes(r) /\ PosesJustes(r)
  /\ GroupesJustes(r) /\ AdhesionsJustes(r) /\ DroitsJustes(r)

IInv == Voies /\ Racines /\ \A r \in Racine : Locale(r)

-----------------------------------------------------------------------------
(* The initial state.                                                      *)

LEMMA DepartJuste ==
  /\ Depart.compteur \in Nat /\ Donnables \subseteq NomsDeDroits
  /\ \A m \in DOMAIN Machines : m \in DatesDeDepart /\ Machines[m] \in Connus
  /\ TableDe(Depart.comptes, DatesDeDepart, [estampille : DatesDeDepart, efface : {FALSE}])
  /\ TableDe(Depart.domaines, DatesDeDepart,
       [proprietaire : Connus, estampille : DatesDeDepart, supprime : DateOuNon(DatesDeDepart)])
  /\ \A a, b \in DOMAIN Depart.domaines :
       Depart.domaines[a].estampille = Depart.domaines[b].estampille => a = b
  /\ \A c \in Connus : \E d \in DOMAIN Depart.domaines : Depart.domaines[d].proprietaire = c
BY DroitsAssumption DEF EstTable, TableDe, Connus, DateOuNon

\* The stamp that a domain has tells which domain it is.
LEMMA NaissanceUnique ==
  ASSUME NEW E, E \subseteq Estampille, NEW a \in DomaineNe(E), NEW b \in DomaineNe(E),
         Naissance(a) = Naissance(b)
  PROVE  a = b
<1>1. ASSUME NEW d \in DOMAIN Depart.domaines
      PROVE  Naissance(d) \in DatesDeDepart /\ Naissance(d) = Depart.domaines[d].estampille
  BY DepartJuste DEF TableDe, Naissance
<1>2. ASSUME NEW d \in DomaineNe(E), d \notin DOMAIN Depart.domaines
      PROVE  Naissance(d) \notin DatesDeDepart /\ Naissance(d) = d
  <2>1. d \in Estampille /\ Depart.compteur < d.compteur /\ Naissance(d) = d
    BY <1>2 DEF DomaineNe, Naissance
  <2>2. d.compteur \in Nat /\ Depart.compteur \in Nat BY <2>1, DepartJuste DEF Estampille
  <2> QED BY <2>1, <2>2 DEF DatesDeDepart
<1>3. CASE a \in DOMAIN Depart.domaines /\ b \in DOMAIN Depart.domaines
  BY <1>1, <1>3, DepartJuste
<1>4. CASE a \notin DOMAIN Depart.domaines /\ b \notin DOMAIN Depart.domaines
  BY <1>2, <1>4
<1> QED BY <1>1, <1>2, <1>3, <1>4

-----------------------------------------------------------------------------
(* Fields.                                                                 *)

LEMMA RangeesLarges ==
  ASSUME NEW E, NEW F, E \subseteq F
  PROVE  /\ DateOuNon(E) \subseteq DateOuNon(F) /\ DomaineNe(E) \subseteq DomaineNe(F)
         /\ GroupeDe(E) \subseteq GroupeDe(F) /\ ElementDe(E) \subseteq ElementDe(F)
         /\ CleDe(E) \subseteq CleDe(F) /\ CompteDe(E) \subseteq CompteDe(F)
         /\ RangeeDeDomaine(E) \subseteq RangeeDeDomaine(F) /\ PoseDe(E) \subseteq PoseDe(F)
         /\ GroupeCree(E) \subseteq GroupeCree(F) /\ AdhesionDe(E) \subseteq AdhesionDe(F)
         /\ DroitDe(E) \subseteq DroitDe(F)
<1>1. /\ DateOuNon(E) \subseteq DateOuNon(F) /\ DomaineNe(E) \subseteq DomaineNe(F)
      /\ GroupeDe(E) \subseteq GroupeDe(F) /\ ElementDe(E) \subseteq ElementDe(F)
      /\ CleDe(E) \subseteq CleDe(F)
  BY DEF DateOuNon, DomaineNe, GroupeDe, ElementDe, CleDe
<1>2. CompteDe(E) \subseteq CompteDe(F) BY <1>1 DEF CompteDe
<1>3. RangeeDeDomaine(E) \subseteq RangeeDeDomaine(F) BY <1>1 DEF RangeeDeDomaine
<1>4. PoseDe(E) \subseteq PoseDe(F) BY <1>1 DEF PoseDe
<1>5. GroupeCree(E) \subseteq GroupeCree(F) BY DEF GroupeCree
<1>6. AdhesionDe(E) \subseteq AdhesionDe(F) BY <1>1 DEF AdhesionDe
<1>7. DroitDe(E) \subseteq DroitDe(F) BY <1>1 DEF DroitDe
<1> QED BY <1>1, <1>2, <1>3, <1>4, <1>5, <1>6, <1>7

LEMMA Larges ==
  ASSUME NEW E, NEW F, E \subseteq F
  PROVE  OperationDe(E) \subseteq OperationDe(F)
<1>1. /\ DateOuNon(E) \subseteq DateOuNon(F) /\ DomaineNe(E) \subseteq DomaineNe(F)
      /\ GroupeDe(E) \subseteq GroupeDe(F) /\ CleDe(E) \subseteq CleDe(F)
      /\ DroitDe(E) \subseteq DroitDe(F)
  BY RangeesLarges
<1>2. AuxDomaines(E) \subseteq AuxDomaines(F)
  <2> SUFFICES ASSUME NEW o \in AuxDomaines(E) PROVE o \in AuxDomaines(F) OBVIOUS
  <2>1. CASE o \in [quoi : {"compte", "efface"}, estampille : DateOuNon(E), compte : Connus]
    BY <1>1, <2>1 DEF AuxDomaines
  <2>2. CASE o \in [quoi : {"alias"}, estampille : E, compte : Connus]
    BY <1>1, <2>2 DEF AuxDomaines
  <2>3. CASE o \in [quoi : {"domaine"}, estampille : E, de : DomaineNe(E),
                    proprietaire : Connus] /\ o.estampille = Naissance(o.de)
    BY <1>1, <2>3 DEF AuxDomaines
  <2>4. CASE o \in [quoi : {"supprime"}, estampille : E, de : E]
    BY <1>1, <2>4 DEF AuxDomaines
  <2>5. CASE o \in [quoi : {"pose"}, estampille : E, cle : CleDe(E), valeur : DateOuNon(E)]
    BY <1>1, <2>5 DEF AuxDomaines
  <2>6. CASE o \in [quoi : {"fin"}, estampille : E]
    BY <1>1, <2>6 DEF AuxDomaines
  <2> QED BY <2>1, <2>2, <2>3, <2>4, <2>5, <2>6 DEF AuxDomaines
<1>3. AuxGroupes(E) \subseteq AuxGroupes(F) BY <1>1 DEF AuxGroupes
<1>4. AuxDroits(E) \subseteq AuxDroits(F) BY <1>1 DEF AuxDroits
<1> QED BY <1>2, <1>3, <1>4 DEF OperationDe

LEMMA ChampsDomaines ==
  ASSUME NEW E, NEW operation \in AuxDomaines(E)
  PROVE  /\ operation.quoi \in {"compte", "efface", "alias", "domaine", "supprime", "pose", "fin"}
         /\ operation.estampille \in DateOuNon(E)
         /\ operation.quoi \in {"compte", "efface", "alias"} => operation.compte \in Connus
         /\ operation.quoi \notin {"compte", "efface"} => operation.estampille \in E
         /\ operation.quoi = "domaine" =>
              /\ operation.de \in DomaineNe(E) /\ operation.proprietaire \in Connus
              /\ operation.estampille = Naissance(operation.de)
         /\ operation.quoi = "supprime" => operation.de \in E
         /\ operation.quoi = "pose" =>
              operation.cle \in CleDe(E) /\ operation.valeur \in DateOuNon(E)
BY DEF AuxDomaines, DateOuNon

LEMMA ChampsGroupes ==
  ASSUME NEW E, NEW operation \in AuxGroupes(E)
  PROVE  /\ operation.quoi \in {"groupe", "etiquette", "dissous", "membre", "retire"}
         /\ operation.estampille \in E
         /\ operation.quoi = "groupe" =>
              operation.de \in E /\ operation.domaine \in E /\ operation.etiquette \in E
         /\ operation.quoi \in {"etiquette", "dissous"} => operation.de \in E
         /\ operation.quoi \in {"membre", "retire"} =>
              operation.groupe \in GroupeDe(E) /\ operation.compte \in Connus
         /\ operation.quoi = "retire" => operation.ajout \in E
BY DEF AuxGroupes

LEMMA ChampsDroits ==
  ASSUME NEW E, NEW operation \in AuxDroits(E)
  PROVE  /\ operation.quoi \in {"droit", "droitRetire"}
         /\ operation.estampille \in E
         /\ operation.quoi = "droit" => operation.enregistrement \in DroitDe(E)
         /\ operation.quoi = "droitRetire" => operation.droit \in E
BY DEF AuxDroits

LEMMA OperationDatee ==
  ASSUME NEW E \in SUBSET Estampille, NEW operation \in OperationDe(E)
  PROVE  operation.estampille \in DateOuNon(Estampille) /\ operation.estampille.compteur \in Nat
<1>1. operation.estampille \in DateOuNon(E)
  BY ChampsDomaines, ChampsGroupes, ChampsDroits DEF OperationDe, DateOuNon
<1>2. \A e \in DateOuNon(E) : e \in DateOuNon(Estampille) /\ e.compteur \in Nat
  BY DEF DateOuNon, Estampille, Aucune
<1> QED BY <1>1, <1>2

-----------------------------------------------------------------------------
(* What a step keeps.                                                      *)

\* The clocks go up.
Avance ==
  /\ Emise \subseteq Emise' /\ compteur' \in [Racine -> Nat]
  /\ \A q \in Racine : compteur[q] <= compteur'[q]

\* The same accounts are alive, and what a row may hang on stays.
Croit(q) ==
  /\ \A c \in Connus : CompteVivant(q, c)' <=> CompteVivant(q, c)
  /\ DOMAIN domaines[q] \subseteq DOMAIN domaines'[q]
  /\ DOMAIN groupes[q] \subseteq DOMAIN groupes'[q]
  /\ DOMAIN marques'[q] \subseteq DOMAIN marques[q]

MemesTables(q) ==
  /\ comptes'[q] = comptes[q] /\ domaines'[q] = domaines[q] /\ poses'[q] = poses[q]
  /\ groupes'[q] = groupes[q] /\ marques'[q] = marques[q]
  /\ adhesions'[q] = adhesions[q] /\ droits'[q] = droits[q]

\* Every account is known everywhere.
LEMMA TousConnus ==
  ASSUME NEW q \in Racine, ComptesJustes(q)
  PROVE  /\ DOMAIN comptes[q] = Connus
         /\ \A c \in Connus : CompteVivant(q, c) <=> ~CompteEfface(q, c)
         /\ \A c : CompteVivant(q, c) => c \in Connus
BY DEF ComptesJustes, CompteVivant, CompteEfface

LEMMA MachinesConnues ==
  ASSUME NEW q \in Racine, NEW m, MachineLa(q, m)
  PROVE  Machines[m] \in Connus
BY DepartJuste DEF MachineLa

LEMMA AccueilleReste ==
  ASSUME NEW q \in Racine, Croit(q), NEW cle, Accueille(q, cle)
  PROVE  Accueille(q, cle)'
<1>1. CASE cle.quoi = "alias" BY <1>1 DEF Accueille, Croit
<1>2. CASE cle.quoi # "alias"
  <2>1. MachineLa(q, cle.de) BY <1>2 DEF Accueille
  <2>2. Machines[cle.de] \in Connus BY <2>1, MachinesConnues
  <2>3. MachineLa(q, cle.de)' BY <2>1, <2>2 DEF MachineLa, Croit
  <2> QED BY <1>2, <2>3 DEF Accueille
<1> QED BY <1>1, <1>2

LEMMA GroupeReste ==
  ASSUME NEW q \in Racine, ComptesJustes(q), Croit(q), NEW g, g.sorte \in SorteDeGroupe,
         GroupeLa(q, g)
  PROVE  GroupeLa(q, g)'
<1>1. CASE g.sorte = "domaine" BY <1>1 DEF GroupeLa, Rangee, Marque, Croit
<1>2. CASE g.sorte = "administrateurs" BY <1>2 DEF GroupeLa, Rangee, Marque, Croit
<1>3. CASE g.sorte = "personnel"
  <2>1. CompteVivant(q, g.de) /\ g.de \in Connus
    BY <1>3, TousConnus DEF GroupeLa, Rangee
  <2>2. CompteVivant(q, g.de)' BY <2>1 DEF Croit
  <2> QED BY <1>3, <2>2 DEF GroupeLa, Rangee, Marque
<1> QED BY <1>1, <1>2, <1>3 DEF SorteDeGroupe

LEMMA ElementsRestent ==
  ASSUME NEW q \in Racine, ComptesJustes(q), ComptesJustes(q)', Croit(q)
  PROVE  Elements(q) \subseteq Elements(q)'
<1>1. ASSUME NEW m, MachineLa(q, m) PROVE MachineLa(q, m)'
  BY <1>1, MachinesConnues DEF MachineLa, Croit
<1>2. DOMAIN comptes[q] = Connus /\ DOMAIN comptes'[q] = Connus BY DEF ComptesJustes
<1>3. \A c \in Connus : CompteVivant(q, c) => CompteVivant(q, c)' BY DEF Croit
<1>4. {LeDomaine(d) : d \in DOMAIN domaines[q]} \subseteq {LeDomaine(d) : d \in DOMAIN domaines'[q]}
  BY DEF Croit
<1>5. {LaMachine(m) : m \in {m \in DOMAIN Machines : MachineLa(q, m)}}
        \subseteq {LaMachine(m) : m \in {m \in DOMAIN Machines : MachineLa(q, m)'}}
  BY <1>1
<1>6. {LeCompte(c) : c \in {c \in DOMAIN comptes[q] : CompteVivant(q, c)}}
        \subseteq {LeCompte(c) : c \in {c \in DOMAIN comptes'[q] : CompteVivant(q, c)'}}
  BY <1>2, <1>3
<1> QED BY <1>4, <1>5, <1>6 DEF Elements

LEMMA ComptesRestent ==
  ASSUME NEW q \in Racine, ComptesJustes(q), Avance, comptes'[q] = comptes[q]
  PROVE  ComptesJustes(q)'
<1>1. CompteDe(Emise) \subseteq CompteDe(Emise') BY RangeesLarges DEF Avance
<1>2. \A c \in Connus : CompteVivant(q, c)' <=> CompteVivant(q, c) BY DEF CompteVivant
<1>3. comptes'[q] \in [Connus -> CompteDe(Emise')] BY <1>1 DEF ComptesJustes
<1> QED BY <1>2, <1>3 DEF ComptesJustes, Avance

LEMMA DomainesRestent ==
  ASSUME NEW q \in Racine, DomainesJustes(q), Avance, Croit(q), domaines'[q] = domaines[q]
  PROVE  DomainesJustes(q)'
<1>1. TableDe(domaines[q], DomaineNe(Emise'), RangeeDeDomaine(Emise'))
  BY RangeesLarges, TableLarge DEF Avance, DomainesJustes
<1>2. \A d \in DOMAIN domaines[q] : domaines[q][d].proprietaire \in Connus
  BY DEF DomainesJustes, TableDe, RangeeDeDomaine
<1>3. \A d \in DOMAIN domaines[q] : CompteVivant(q, domaines[q][d].proprietaire)'
  BY <1>2 DEF DomainesJustes, Croit
<1>4. \A c \in Connus : CompteVivant(q, c)' => DomainesDe(q, c)' # {}
  BY DEF DomainesJustes, DomainesDe, Croit
<1> QED BY <1>1, <1>3, <1>4 DEF DomainesJustes

LEMMA PosesRestent ==
  ASSUME NEW q \in Racine, Voies, PosesJustes(q), Avance, Croit(q), poses'[q] = poses[q]
  PROVE  PosesJustes(q)'
<1>1. TableDe(poses[q], CleDe(Emise'), PoseDe(Emise'))
  BY RangeesLarges, TableLarge DEF Avance, PosesJustes
<1>2. \A cle \in DOMAIN poses[q] : Accueille(q, cle)' BY AccueilleReste DEF PosesJustes
<1>3. \A cle \in DOMAIN poses[q] : poses[q][cle].estampille.compteur <= compteur'[q]
  <2>1. \A cle \in DOMAIN poses[q] : poses[q][cle].estampille.compteur \in Nat
    BY DEF PosesJustes, TableDe, PoseDe, Emise, Estampille
  <2> QED BY <2>1 DEF PosesJustes, Avance, Voies
<1> QED BY <1>1, <1>2, <1>3 DEF PosesJustes

LEMMA GroupesRestent ==
  ASSUME NEW q \in Racine, GroupesJustes(q), Avance, Croit(q),
         groupes'[q] = groupes[q], marques'[q] = marques[q]
  PROVE  GroupesJustes(q)'
<1>1. TableDe(groupes[q], Emise', GroupeCree(Emise'))
  BY RangeesLarges, TableLarge DEF Avance, GroupesJustes
<1>2. TableDe(marques[q], Emise', Emise') BY TableLarge DEF Avance, GroupesJustes
<1> QED BY <1>1, <1>2 DEF GroupesJustes, Croit

LEMMA AdhesionTypee ==
  ASSUME NEW q \in Racine, AdhesionsJustes(q), NEW a \in DOMAIN adhesions[q]
  PROVE  /\ a \in AdhesionDe(Emise) /\ a.compte \in Connus /\ a.groupe.sorte \in SorteDeGroupe
         /\ adhesions[q][a] \in DateOuNon(Emise)
BY DEF AdhesionsJustes, TableDe, AdhesionDe, GroupeDe

LEMMA AdhesionsRestent ==
  ASSUME NEW q \in Racine, ComptesJustes(q), AdhesionsJustes(q), Avance, Croit(q),
         adhesions'[q] = adhesions[q]
  PROVE  AdhesionsJustes(q)'
<1>1. TableDe(adhesions[q], AdhesionDe(Emise'), DateOuNon(Emise'))
  BY RangeesLarges, TableLarge DEF Avance, AdhesionsJustes
<1>2. ASSUME NEW a \in DOMAIN adhesions[q]
      PROVE  CompteVivant(q, a.compte)' /\ GroupeLa(q, a.groupe)'
  <2>1. a.compte \in Connus /\ a.groupe.sorte \in SorteDeGroupe BY AdhesionTypee
  <2> QED BY <2>1, GroupeReste DEF AdhesionsJustes, Croit
<1> QED BY <1>1, <1>2 DEF AdhesionsJustes

LEMMA DroitType ==
  ASSUME NEW q \in Racine, DroitsJustes(q), NEW d \in DOMAIN droits[q]
  PROVE  /\ droits[q][d] \in DroitDe(Emise) /\ d \in Emise
         /\ droits[q][d].par \in Connus /\ droits[q][d].groupe.sorte \in SorteDeGroupe
         /\ droits[q][d].retire \in DateOuNon(Emise)
BY DEF DroitsJustes, TableDe, DroitDe, GroupeDe

LEMMA DroitsRestent ==
  ASSUME NEW q \in Racine, ComptesJustes(q), ComptesJustes(q)', DroitsJustes(q), Avance,
         Croit(q), droits'[q] = droits[q]
  PROVE  DroitsJustes(q)'
<1>1. TableDe(droits[q], Emise', DroitDe(Emise'))
  <2>1. DroitDe(Emise) \subseteq DroitDe(Emise') BY RangeesLarges DEF Avance
  <2> QED BY <2>1, TableLarge DEF Avance, DroitsJustes
<1>2. ASSUME NEW d \in DOMAIN droits[q]
      PROVE  /\ CompteVivant(q, droits[q][d].par)' /\ GroupeLa(q, droits[q][d].groupe)'
             /\ droits[q][d].element \in Elements(q)'
  <2>1. droits[q][d].par \in Connus /\ droits[q][d].groupe.sorte \in SorteDeGroupe
    BY DroitType
  <2> QED BY <2>1, GroupeReste, ElementsRestent DEF DroitsJustes, Croit
<1> QED BY <1>1, <1>2 DEF DroitsJustes

LEMMA MemesTablesCroissent ==
  ASSUME NEW q \in Racine, MemesTables(q)
  PROVE  Croit(q)
BY DEF MemesTables, Croit, CompteVivant

LEMMA LocaleReste ==
  ASSUME IInv, NEW q \in Racine, Avance, MemesTables(q)
  PROVE  Locale(q)'
<1>1. Voies /\ Locale(q) /\ Croit(q) BY MemesTablesCroissent DEF IInv
<1>2. ComptesJustes(q)' BY <1>1, ComptesRestent DEF Locale, MemesTables
<1>3. DomainesJustes(q)' BY <1>1, DomainesRestent DEF Locale, MemesTables
<1>4. PosesJustes(q)' BY <1>1, PosesRestent DEF Locale, MemesTables
<1>5. GroupesJustes(q)' BY <1>1, GroupesRestent DEF Locale, MemesTables
<1>6. AdhesionsJustes(q)' BY <1>1, AdhesionsRestent DEF Locale, MemesTables
<1>7. DroitsJustes(q)' BY <1>1, <1>2, DroitsRestent DEF Locale, MemesTables
<1> QED BY <1>2, <1>3, <1>4, <1>5, <1>6, <1>7 DEF Locale

\* A step that writes on root r, where what a row may hang on stays: the tables it does
\* not write stay right.
LEMMA PasQuiCroit ==
  ASSUME IInv, NEW r \in Racine, Voies', Racines', Avance,
         \A q \in Racine \ {r} : MemesTables(q),
         Croit(r),
         comptes'[r] = comptes[r] \/ ComptesJustes(r)',
         domaines'[r] = domaines[r] \/ DomainesJustes(r)',
         poses'[r] = poses[r] \/ PosesJustes(r)',
         (groupes'[r] = groupes[r] /\ marques'[r] = marques[r]) \/ GroupesJustes(r)',
         adhesions'[r] = adhesions[r] \/ AdhesionsJustes(r)',
         droits'[r] = droits[r] \/ DroitsJustes(r)'
  PROVE  IInv'
<1>1. ASSUME NEW q \in Racine PROVE Croit(q) BY MemesTablesCroissent
<1>2. ASSUME NEW q \in Racine PROVE Locale(q)'
  <2>1. Voies /\ Locale(q) /\ Croit(q) BY <1>1 DEF IInv
  <2>2. comptes'[q] = comptes[q] \/ ComptesJustes(q)' BY DEF MemesTables
  <2>3. domaines'[q] = domaines[q] \/ DomainesJustes(q)' BY DEF MemesTables
  <2>4. poses'[q] = poses[q] \/ PosesJustes(q)' BY DEF MemesTables
  <2>5. (groupes'[q] = groupes[q] /\ marques'[q] = marques[q]) \/ GroupesJustes(q)'
    BY DEF MemesTables
  <2>6. adhesions'[q] = adhesions[q] \/ AdhesionsJustes(q)' BY DEF MemesTables
  <2>7. droits'[q] = droits[q] \/ DroitsJustes(q)' BY DEF MemesTables
  <2>8. ComptesJustes(q)' BY <2>1, <2>2, ComptesRestent DEF Locale
  <2>9. DomainesJustes(q)' BY <2>1, <2>3, DomainesRestent DEF Locale
  <2>10. PosesJustes(q)' BY <2>1, <2>4, PosesRestent DEF Locale
  <2>11. GroupesJustes(q)' BY <2>1, <2>5, GroupesRestent DEF Locale
  <2>12. AdhesionsJustes(q)' BY <2>1, <2>6, AdhesionsRestent DEF Locale
  <2>13. DroitsJustes(q)' BY <2>1, <2>7, <2>8, DroitsRestent DEF Locale
  <2> QED BY <2>8, <2>9, <2>10, <2>11, <2>12, <2>13 DEF Locale
<1> QED BY <1>2 DEF IInv

-----------------------------------------------------------------------------
(* The path.                                                               *)

LEMMA Avancee ==
  ASSUME IInv, NEW r \in Racine, NEW ops, Len(ops) \in Nat, JournaliserTout(r, ops)
  PROVE  /\ Avance /\ compteur'[r] = compteur[r] + Len(ops) /\ compteur[r] \in Nat
         /\ \A i \in 1..Len(ops) :
              /\ Prochaine(r, i) \in Emise' /\ Prochaine(r, i) \notin Emise
              /\ Prochaine(r, i) \in DomaineNe(Emise')
              /\ Prochaine(r, i) \notin DOMAIN Depart.domaines
<1>1. compteur \in [Racine -> Nat] /\ Depart.compteur <= compteur[r] BY DEF IInv, Voies
<1>2. compteur' = [compteur EXCEPT ![r] = @ + Len(ops)] BY DEF JournaliserTout
<1>3. /\ compteur' \in [Racine -> Nat] /\ Emise \subseteq Emise'
      /\ \A q \in Racine : compteur[q] <= compteur'[q]
      /\ \A i \in 1..Len(ops) : Prochaine(r, i) \in Emise' /\ Prochaine(r, i) \notin Emise
  BY <1>1, <1>2, Ecrite
<1>4. compteur'[r] = compteur[r] + Len(ops) /\ compteur[r] \in Nat BY <1>1, <1>2
<1>5. ASSUME NEW i \in 1..Len(ops)
      PROVE  /\ Prochaine(r, i) \in DomaineNe(Emise')
             /\ Prochaine(r, i) \notin DOMAIN Depart.domaines
  <2>1. Depart.compteur \in Nat /\ compteur[r] \in Nat /\ i \in Nat /\ 1 <= i
    BY <1>4, DepartJuste
  <2>2. Prochaine(r, i).compteur = compteur[r] + i BY DEF Prochaine
  <2>3. Depart.compteur < Prochaine(r, i).compteur BY <1>1, <2>1, <2>2
  <2>4. Prochaine(r, i) \in DomaineNe(Emise') BY <1>3, <2>3 DEF DomaineNe
  <2>5. Prochaine(r, i) \notin DatesDeDepart BY <2>1, <2>2, <2>3 DEF DatesDeDepart
  <2>6. DOMAIN Depart.domaines \subseteq DatesDeDepart BY DepartJuste DEF TableDe
  <2> QED BY <2>4, <2>5, <2>6
<1> QED BY <1>3, <1>4, <1>5 DEF Avance

LEMMA VoiesEcrites ==
  ASSUME IInv, NEW r \in Racine, NEW ops, JournaliserTout(r, ops),
         ops \in Seq(OperationDe(Emise'))
  PROVE  /\ Voies' /\ Avance /\ amorcages' = amorcages
         /\ enRoute'[Pair[r]] = enRoute[Pair[r]] \o ops
         /\ \A q \in Racine : q # Pair[r] => enRoute'[q] = enRoute[q]
<1> DEFINE T == OperationDe(Emise')
<1>1. compteur \in [Racine -> Nat] /\ amorcages \in Nat
      /\ \A q \in Racine : Depart.compteur <= compteur[q]
  BY DEF IInv, Voies
<1>2. ops \in Seq(T) /\ Len(ops) \in Nat OBVIOUS
<1>4. Avance BY <1>2, Avancee
<1>5. OperationDe(Emise) \subseteq T BY <1>4, Larges DEF Avance
<1>6. enRoute \in [Racine -> Seq(T)] BY <1>5 DEF IInv, Voies
<1> HIDE DEF T
<1>7. /\ enRoute' \in [Racine -> Seq(T)] /\ amorcages' = amorcages
      /\ enRoute'[Pair[r]] = enRoute[Pair[r]] \o ops
      /\ \A q \in Racine : q # Pair[r] => enRoute'[q] = enRoute[q]
  BY <1>1, <1>2, <1>6, Journalisee
<1>8. (enRoute \in [Racine -> Seq(OperationDe(Emise))])' BY <1>7 DEF T
<1>9. \A q \in Racine : Depart.compteur <= compteur'[q]
  <2>1. Depart.compteur \in Nat BY DepartJuste
  <2>2. \A q \in Racine : compteur[q] \in Nat /\ compteur'[q] \in Nat /\ compteur[q] <= compteur'[q]
    BY <1>1, <1>4 DEF Avance
  <2>3. ASSUME NEW q \in Racine PROVE Depart.compteur <= compteur'[q]
    <3>1. Depart.compteur <= compteur[q] BY <1>1
    <3>2. compteur[q] \in Nat /\ compteur'[q] \in Nat /\ compteur[q] <= compteur'[q] BY <2>2
    <3> QED BY <2>1, <3>1, <3>2
  <2> QED BY <2>3
<1>10. Voies'
  <2>1. compteur' \in [Racine -> Nat] BY <1>4 DEF Avance
  <2> QED BY <2>1, <1>1, <1>7, <1>8, <1>9 DEF Voies
<1> QED BY <1>4, <1>7, <1>10

\* One operation.
LEMMA AvanceeDUne ==
  ASSUME IInv, NEW r \in Racine, NEW operation, Journaliser(r, operation)
  PROVE  /\ Avance /\ Suivante(r) \in Emise' /\ Suivante(r) \notin Emise
         /\ Suivante(r) \in DomaineNe(Emise') /\ Suivante(r) \notin DOMAIN Depart.domaines
         /\ Suivante(r).compteur = compteur'[r]
<1> DEFINE ops == <<operation>>
<1>1. JournaliserTout(r, ops) BY DEF Journaliser
<1>2. Len(ops) = 1 /\ Len(ops) \in Nat OBVIOUS
<1> HIDE DEF ops
<1>3. /\ Avance /\ compteur'[r] = compteur[r] + Len(ops) /\ compteur[r] \in Nat
      /\ \A i \in 1..Len(ops) :
           /\ Prochaine(r, i) \in Emise' /\ Prochaine(r, i) \notin Emise
           /\ Prochaine(r, i) \in DomaineNe(Emise')
           /\ Prochaine(r, i) \notin DOMAIN Depart.domaines
  BY <1>1, <1>2, Avancee
<1>4. Suivante(r) = Prochaine(r, 1) /\ Suivante(r).compteur = compteur[r] + 1
  BY DEF Suivante, Prochaine
<1>5. 1 \in 1..1 OBVIOUS
<1> QED BY <1>2, <1>3, <1>4, <1>5

LEMMA VoiesEcritesUne ==
  ASSUME IInv, NEW r \in Racine, NEW operation, Journaliser(r, operation),
         operation \in OperationDe(Emise')
  PROVE  Voies' /\ Avance
<1> DEFINE T == OperationDe(Emise')
           ops == <<operation>>
<1>1. JournaliserTout(r, ops) BY DEF Journaliser
<1>2. ops \in Seq(T)
  <2>1. operation \in T OBVIOUS
  <2> HIDE DEF T
  <2> QED BY <2>1
<1> HIDE DEF ops
<1> QED BY <1>1, <1>2, VoiesEcrites

\* The operation that is applied, the clock and the queue after it.
LEMMA Recue ==
  ASSUME IInv, NEW r \in Racine, Retirer(r)
  PROVE  /\ Voies' /\ Avance /\ Head(enRoute[r]) \in OperationDe(Emise)
         /\ Head(enRoute[r]).estampille.compteur <= compteur'[r]
         /\ enRoute'[r] = Tail(enRoute[r])
         /\ \A q \in Racine : q # r => enRoute'[q] = enRoute[q]
         /\ amorcages' = amorcages
<1> DEFINE T == OperationDe(Emise)
<1>1. /\ compteur \in [Racine -> Nat] /\ enRoute \in [Racine -> Seq(T)] /\ amorcages \in Nat
      /\ \A q \in Racine : Depart.compteur <= compteur[q]
  BY DEF IInv, Voies
<1>2. \A operation \in T : operation.estampille.compteur \in Nat
  <2>1. Emise \in SUBSET Estampille BY DEF Emise
  <2> QED BY <2>1, OperationDatee
<1> HIDE DEF T
<1>3. /\ Head(enRoute[r]) \in T /\ enRoute' \in [Racine -> Seq(T)]
      /\ enRoute'[r] = Tail(enRoute[r])
      /\ \A q \in Racine : q # r => enRoute'[q] = enRoute[q]
      /\ compteur' \in [Racine -> Nat] /\ \A q \in Racine : compteur[q] <= compteur'[q]
      /\ Head(enRoute[r]).estampille.compteur <= compteur'[r]
      /\ Emise \subseteq Emise' /\ amorcages' = amorcages
  BY <1>1, <1>2, Retiree
<1>4. OperationDe(Emise) \subseteq OperationDe(Emise') BY <1>3, Larges
<1>5. (enRoute \in [Racine -> Seq(OperationDe(Emise))])'
  <2> DEFINE U == OperationDe(Emise')
  <2>1. T \subseteq U BY <1>4 DEF T
  <2> HIDE DEF U
  <2>2. enRoute' \in [Racine -> Seq(U)] BY <1>3, <2>1
  <2> QED BY <2>2 DEF U
<1>6. \A q \in Racine : Depart.compteur <= compteur'[q]
  <2>1. Depart.compteur \in Nat BY DepartJuste
  <2> QED BY <2>1, <1>1, <1>3
<1>7. Voies' BY <1>1, <1>3, <1>5, <1>6 DEF Voies
<1>8. Avance BY <1>3 DEF Avance
<1> QED BY <1>3, <1>7, <1>8 DEF T

-----------------------------------------------------------------------------
(* One table written, whoever wrote it.                                    *)

LEMMA PasMuet ==
  ASSUME IInv, NEW r \in Racine, Voies', Avance, UNCHANGED tables
  PROVE  IInv'
<1>1. /\ UNCHANGED <<comptes, domaines, poses, groupes, marques, adhesions, droits>>
      /\ Racines'
  BY DEF tables, tablesDesDomaines, tablesDesGroupes, IInv, Racines
<1>2. \A q \in Racine : MemesTables(q) BY <1>1 DEF MemesTables
<1>3. Croit(r) BY <1>2, MemesTablesCroissent
<1> QED BY <1>1, <1>2, <1>3, PasQuiCroit

LEMMA PasDUneEstampille ==
  ASSUME IInv, NEW r \in Racine, Voies', Avance, NEW c, CompteVivant(r, c), NEW e \in Emise',
         comptes' = [comptes EXCEPT ![r][c].estampille = e],
         UNCHANGED <<domaines, poses, tablesDesGroupes, droits>>
  PROVE  IInv'
<1>1. ComptesJustes(r) /\ DOMAIN comptes = Racine BY DEF IInv, Locale, Racines
<1>2. c \in Connus /\ DOMAIN comptes[r] = Connus BY <1>1, TousConnus
<1> DEFINE t == comptes[r]
           rangee == [t[c] EXCEPT !.estampille = e]
<1>3. /\ comptes'[r] = [t EXCEPT ![c] = rangee]
      /\ DOMAIN comptes' = Racine /\ \A q \in Racine \ {r} : comptes'[q] = comptes[q]
  BY <1>1
<1>4. rangee \in CompteDe(Emise') /\ rangee.efface = t[c].efface /\ rangee.estampille = e
  <2>1. t[c] \in CompteDe(Emise) BY <1>1, <1>2 DEF ComptesJustes
  <2>2. t[c] \in CompteDe(Emise') BY <2>1, RangeesLarges DEF Avance
  <2> QED BY <2>2 DEF CompteDe, DateOuNon
<1> HIDE DEF rangee
<1>5. comptes'[r] \in [Connus -> CompteDe(Emise')]
  <2>1. t \in [Connus -> CompteDe(Emise')] BY <1>1, RangeesLarges DEF ComptesJustes, Avance
  <2> QED BY <2>1, <1>3, <1>4
<1>6. /\ comptes'[r][c] = rangee
      /\ \A x \in Connus : x # c => comptes'[r][x] = comptes[r][x]
  BY <1>2, <1>3
<1>7. \A x \in Connus : CompteVivant(r, x)' <=> CompteVivant(r, x)
  BY <1>2, <1>4, <1>5, <1>6 DEF CompteVivant
<1>8. ComptesJustes(r)'
  <2>1. \A x \in Connus : CompteVivant(r, x)' => comptes'[r][x].estampille \in Emise'
    BY <1>1, <1>4, <1>6, <1>7 DEF ComptesJustes, Avance
  <2> QED BY <2>1, <1>5 DEF ComptesJustes
<1>9. Croit(r) BY <1>7 DEF Croit, tablesDesGroupes
<1>10. \A q \in Racine \ {r} : MemesTables(q) BY <1>3 DEF MemesTables, tablesDesGroupes
<1>11. Racines' BY <1>3 DEF IInv, Racines, tablesDesGroupes
<1>12. UNCHANGED <<groupes, marques, adhesions>> BY DEF tablesDesGroupes
<1> QED BY <1>8, <1>9, <1>10, <1>11, <1>12, PasQuiCroit

LEMMA UnePose ==
  ASSUME IInv, NEW r \in Racine, Avance, Croit(r), NEW cle \in CleDe(Emise'), Accueille(r, cle)',
         NEW e \in Emise', e.compteur <= compteur'[r], NEW v \in DateOuNon(Emise'),
         poses' = [poses EXCEPT ![r] = Poser(@, cle, [estampille |-> e, valeur |-> v])]
  PROVE  /\ PosesJustes(r)' /\ DOMAIN poses' = Racine
         /\ \A q \in Racine \ {r} : poses'[q] = poses[q]
<1>1. PosesJustes(r) /\ Voies /\ DOMAIN poses = Racine BY DEF IInv, Locale, Racines
<1> DEFINE t == poses[r]
           rangee == [estampille |-> e, valeur |-> v]
<1>2. /\ poses'[r] = Poser(t, cle, rangee) /\ DOMAIN poses' = Racine
      /\ \A q \in Racine \ {r} : poses'[q] = poses[q]
  BY <1>1
<1>3. rangee \in PoseDe(Emise') /\ rangee.estampille = e BY DEF PoseDe
<1>4. TableDe(t, CleDe(Emise'), PoseDe(Emise'))
  BY <1>1, RangeesLarges, TableLarge DEF Avance, PosesJustes
<1> HIDE DEF rangee
<1>5. TableDe(poses'[r], CleDe(Emise'), PoseDe(Emise')) BY <1>2, <1>3, <1>4, PoseeTable
<1>6. /\ DOMAIN poses'[r] = DOMAIN t \cup {cle} /\ poses'[r][cle] = rangee
      /\ \A x \in DOMAIN t : x # cle => poses'[r][x] = t[x]
  BY <1>2 DEF Poser
<1>7. \A x \in DOMAIN t :
        Accueille(r, x)' /\ t[x].estampille.compteur <= compteur'[r]
  <2>1. \A x \in DOMAIN t : t[x].estampille.compteur \in Nat
    BY <1>1 DEF PosesJustes, TableDe, PoseDe, Emise, Estampille
  <2>2. \A x \in DOMAIN t : t[x].estampille.compteur <= compteur[r] BY <1>1 DEF PosesJustes
  <2>3. compteur[r] \in Nat /\ compteur'[r] \in Nat /\ compteur[r] <= compteur'[r]
    BY <1>1 DEF Voies, Avance
  <2>4. \A x \in DOMAIN t : t[x].estampille.compteur <= compteur'[r] BY <2>1, <2>2, <2>3
  <2> QED BY <2>4, <1>1, AccueilleReste DEF PosesJustes
<1>8. \A x \in DOMAIN poses'[r] :
        Accueille(r, x)' /\ poses'[r][x].estampille.compteur <= compteur'[r]
  BY <1>3, <1>6, <1>7
<1> QED BY <1>2, <1>5, <1>8 DEF PosesJustes

LEMMA PasDUnePose ==
  ASSUME IInv, NEW r \in Racine, Voies', Avance, NEW cle \in CleDe(Emise'), Accueille(r, cle),
         NEW e \in Emise', e.compteur <= compteur'[r], NEW v \in DateOuNon(Emise'),
         poses' = [poses EXCEPT ![r] = Poser(@, cle, [estampille |-> e, valeur |-> v])],
         UNCHANGED <<comptes, domaines, tablesDesGroupes, droits>>
  PROVE  IInv'
<1>1. UNCHANGED <<groupes, marques, adhesions>> BY DEF tablesDesGroupes
<1>2. Croit(r) BY <1>1 DEF Croit, CompteVivant
<1>3. Accueille(r, cle)' BY <1>2, AccueilleReste
<1>4. /\ PosesJustes(r)' /\ DOMAIN poses' = Racine
      /\ \A q \in Racine \ {r} : poses'[q] = poses[q]
  BY <1>2, <1>3, UnePose
<1>5. \A q \in Racine \ {r} : MemesTables(q) BY <1>1, <1>4 DEF MemesTables
<1>6. Racines' BY <1>1, <1>4 DEF IInv, Racines
<1> QED BY <1>1, <1>2, <1>4, <1>5, <1>6, PasQuiCroit

\* A domain that was not there.
LEMMA PasDUnDomaine ==
  ASSUME IInv, NEW r \in Racine, Voies', Avance, NEW d \in DomaineNe(Emise'),
         d \notin DOMAIN domaines[r], NEW c, CompteVivant(r, c), Naissance(d) \in Emise',
         domaines' = [domaines EXCEPT ![r] = Poser(@, d, Domaine(c, Naissance(d)))],
         \/ poses' = poses
         \/ \E e \in Emise' :
              /\ e.compteur <= compteur'[r]
              /\ poses' = [poses EXCEPT ![r] =
                   Poser(@, AliasDe(d), [estampille |-> e, valeur |-> Aucune])],
         UNCHANGED <<comptes, tablesDesGroupes, droits>>
  PROVE  IInv'
<1>1. /\ ComptesJustes(r) /\ DomainesJustes(r) /\ DOMAIN domaines = Racine
      /\ c \in Connus
  BY TousConnus DEF IInv, Locale, Racines
<1> DEFINE t == domaines[r]
           rangee == Domaine(c, Naissance(d))
<1>2. /\ domaines'[r] = Poser(t, d, rangee) /\ DOMAIN domaines' = Racine
      /\ \A q \in Racine \ {r} : domaines'[q] = domaines[q]
  BY <1>1
<1>3. rangee \in RangeeDeDomaine(Emise') /\ rangee.proprietaire = c
      /\ rangee.estampille = Naissance(d)
  BY <1>1 DEF Domaine, RangeeDeDomaine, DateOuNon
<1> HIDE DEF rangee
<1>4. TableDe(domaines'[r], DomaineNe(Emise'), RangeeDeDomaine(Emise'))
  <2>1. TableDe(t, DomaineNe(Emise'), RangeeDeDomaine(Emise'))
    BY <1>1, RangeesLarges, TableLarge DEF Avance, DomainesJustes
  <2> QED BY <2>1, <1>2, <1>3, PoseeTable
<1>5. /\ DOMAIN domaines'[r] = DOMAIN t \cup {d} /\ domaines'[r][d] = rangee
      /\ \A x \in DOMAIN t : domaines'[r][x] = t[x]
  BY <1>2 DEF Poser
<1>6. UNCHANGED <<groupes, marques, adhesions>> BY DEF tablesDesGroupes
<1>7. \A x \in Connus : CompteVivant(r, x)' <=> CompteVivant(r, x) BY DEF CompteVivant
<1>8. Croit(r) BY <1>5, <1>6, <1>7 DEF Croit
<1>9. DomainesJustes(r)'
  <2>1. \A x \in DOMAIN t : t[x].proprietaire \in Connus
    BY <1>1 DEF DomainesJustes, TableDe, RangeeDeDomaine
  <2>2. (\A x \in DOMAIN domaines[r] :
           /\ domaines[r][x].estampille = Naissance(x)
           /\ CompteVivant(r, domaines[r][x].proprietaire))'
    BY <1>1, <1>3, <1>5, <1>7, <2>1 DEF DomainesJustes
  <2>3. ASSUME NEW x \in Connus, CompteVivant(r, x)' PROVE DomainesDe(r, x)' # {}
    <3>1. PICK y \in DOMAIN t : t[y].proprietaire = x
      BY <2>3, <1>1, <1>7 DEF DomainesJustes, DomainesDe
    <3> QED BY <3>1, <1>5 DEF DomainesDe
  <2> QED BY <2>2, <2>3, <1>4 DEF DomainesJustes
<1>10. /\ poses'[r] = poses[r] \/ PosesJustes(r)'
       /\ DOMAIN poses' = Racine /\ \A q \in Racine \ {r} : poses'[q] = poses[q]
  <2>1. CASE poses' = poses BY <2>1 DEF IInv, Racines
  <2>2. CASE \E e \in Emise' :
               /\ e.compteur <= compteur'[r]
               /\ poses' = [poses EXCEPT ![r] =
                    Poser(@, AliasDe(d), [estampille |-> e, valeur |-> Aucune])]
    <3>1. PICK e \in Emise' :
               /\ e.compteur <= compteur'[r]
               /\ poses' = [poses EXCEPT ![r] =
                    Poser(@, AliasDe(d), [estampille |-> e, valeur |-> Aucune])]
      BY <2>2
    <3>2. AliasDe(d) \in CleDe(Emise') BY DEF AliasDe, CleDe, DomaineNe
    <3>3. Accueille(r, AliasDe(d))' BY <1>5 DEF Accueille, AliasDe
    <3>4. Aucune \in DateOuNon(Emise') BY DEF DateOuNon
    <3> QED BY <3>1, <3>2, <3>3, <3>4, <1>8, UnePose
  <2> QED BY <2>1, <2>2
<1>11. \A q \in Racine \ {r} : MemesTables(q) BY <1>2, <1>6, <1>10 DEF MemesTables
<1>12. Racines' BY <1>2, <1>6, <1>10 DEF IInv, Racines
<1> QED BY <1>6, <1>8, <1>9, <1>10, <1>11, <1>12, PasQuiCroit

LEMMA PasDUneSuppression ==
  ASSUME IInv, NEW r \in Racine, Voies', Avance, NEW d \in DOMAIN domaines[r],
         NEW e \in Emise', domaines' = [domaines EXCEPT ![r][d].supprime = e],
         UNCHANGED <<comptes, poses, tablesDesGroupes, droits>>
  PROVE  IInv'
<1>1. DomainesJustes(r) /\ DOMAIN domaines = Racine BY DEF IInv, Locale, Racines
<1> DEFINE t == domaines[r]
           rangee == [t[d] EXCEPT !.supprime = e]
<1>2. /\ domaines'[r] = [t EXCEPT ![d] = rangee] /\ DOMAIN domaines' = Racine
      /\ \A q \in Racine \ {r} : domaines'[q] = domaines[q]
  BY <1>1
<1>3. TableDe(t, DomaineNe(Emise'), RangeeDeDomaine(Emise'))
  BY <1>1, RangeesLarges, TableLarge DEF Avance, DomainesJustes
<1>4. /\ rangee \in RangeeDeDomaine(Emise') /\ rangee.proprietaire = t[d].proprietaire
      /\ rangee.estampille = t[d].estampille
  <2>1. t[d] \in RangeeDeDomaine(Emise') BY <1>3 DEF TableDe
  <2> QED BY <2>1 DEF RangeeDeDomaine, DateOuNon
<1> HIDE DEF rangee
<1>5. /\ TableDe(domaines'[r], DomaineNe(Emise'), RangeeDeDomaine(Emise'))
      /\ DOMAIN domaines'[r] = DOMAIN t /\ domaines'[r][d] = rangee
      /\ \A x \in DOMAIN t : x # d => domaines'[r][x] = t[x]
  <2>1. d \in DOMAIN t OBVIOUS
  <2>2. PICK S, T : S = DomaineNe(Emise') /\ T = RangeeDeDomaine(Emise') OBVIOUS
  <2> HIDE DEF t
  <2>3. /\ TableDe([t EXCEPT ![d] = rangee], S, T)
        /\ DOMAIN [t EXCEPT ![d] = rangee] = DOMAIN t /\ [t EXCEPT ![d] = rangee][d] = rangee
        /\ \A x \in DOMAIN t : x # d => [t EXCEPT ![d] = rangee][x] = t[x]
    BY <2>1, <2>2, <1>3, <1>4, ChangeeTable
  <2> QED BY <2>2, <2>3, <1>2
<1>6. UNCHANGED <<groupes, marques, adhesions>> BY DEF tablesDesGroupes
<1>7. \A x : CompteVivant(r, x)' <=> CompteVivant(r, x) BY DEF CompteVivant
<1>8. Croit(r) BY <1>5, <1>6, <1>7 DEF Croit
<1>9. DomainesJustes(r)'
  <2>1. \A x \in DOMAIN t :
          /\ domaines'[r][x].estampille = t[x].estampille
          /\ domaines'[r][x].proprietaire = t[x].proprietaire
    BY <1>4, <1>5
  <2>2. (\A x \in DOMAIN domaines[r] :
           /\ domaines[r][x].estampille = Naissance(x)
           /\ CompteVivant(r, domaines[r][x].proprietaire))'
    BY <2>1, <1>1, <1>5, <1>7 DEF DomainesJustes
  <2>3. ASSUME NEW x \in Connus, CompteVivant(r, x)' PROVE DomainesDe(r, x)' # {}
    <3>1. PICK y \in DOMAIN t : t[y].proprietaire = x
      BY <2>3, <1>1, <1>7 DEF DomainesJustes, DomainesDe
    <3> QED BY <3>1, <2>1, <1>5 DEF DomainesDe
  <2> QED BY <2>2, <2>3, <1>5 DEF DomainesJustes
<1>10. \A q \in Racine \ {r} : MemesTables(q) BY <1>2, <1>6 DEF MemesTables
<1>11. Racines' BY <1>2, <1>6 DEF IInv, Racines
<1> QED BY <1>6, <1>8, <1>9, <1>10, <1>11, PasQuiCroit

\* The row of a group, new or not, or its label.
LEMMA PasDesGroupes ==
  ASSUME IInv, NEW r \in Racine, Voies', Avance, NEW g \in Emise',
         NEW rangee \in GroupeCree(Emise'), rangee.domaine \in DOMAIN domaines[r],
         groupes' = [groupes EXCEPT ![r] = Poser(@, g, rangee)],
         UNCHANGED <<tablesDesDomaines, marques, adhesions, droits>>
  PROVE  IInv'
<1>1. GroupesJustes(r) /\ DOMAIN groupes = Racine BY DEF IInv, Locale, Racines
<1> DEFINE t == groupes[r]
<1>2. /\ groupes'[r] = Poser(t, g, rangee) /\ DOMAIN groupes' = Racine
      /\ \A q \in Racine \ {r} : groupes'[q] = groupes[q]
  BY <1>1
<1>3. TableDe(t, Emise', GroupeCree(Emise'))
  <2>1. GroupeCree(Emise) \subseteq GroupeCree(Emise') BY RangeesLarges DEF Avance
  <2> QED BY <2>1, <1>1, TableLarge DEF Avance, GroupesJustes
<1>4. TableDe(groupes'[r], Emise', GroupeCree(Emise')) BY <1>2, <1>3, PoseeTable
<1>5. /\ DOMAIN groupes'[r] = DOMAIN t \cup {g} /\ groupes'[r][g] = rangee
      /\ \A x \in DOMAIN t : x # g => groupes'[r][x] = t[x]
  BY <1>2 DEF Poser
<1>6. UNCHANGED <<comptes, domaines, poses>> BY DEF tablesDesDomaines
<1>7. Croit(r) BY <1>5, <1>6 DEF Croit, CompteVivant
<1>8. GroupesJustes(r)'
  <2>1. TableDe(marques[r], Emise', Emise') BY <1>1, TableLarge DEF Avance, GroupesJustes
  <2>2. \A x \in DOMAIN groupes'[r] : groupes'[r][x].domaine \in DOMAIN domaines[r]
    BY <1>1, <1>5 DEF GroupesJustes
  <2> QED BY <2>1, <2>2, <1>4, <1>6 DEF GroupesJustes
<1>9. \A q \in Racine \ {r} : MemesTables(q) BY <1>2, <1>6 DEF MemesTables
<1>10. Racines' BY <1>2, <1>6 DEF IInv, Racines
<1> QED BY <1>6, <1>7, <1>8, <1>9, <1>10, PasQuiCroit

LEMMA PasDUneEtiquette ==
  ASSUME IInv, NEW r \in Racine, Voies', Avance, NEW g, NEW e \in Emise',
         PoserLEtiquette(r, g, e),
         UNCHANGED <<tablesDesDomaines, marques, adhesions, droits>>
  PROVE  IInv'
<1>1. GroupesJustes(r) /\ DOMAIN groupes = Racine BY DEF IInv, Locale, Racines
<1>2. CASE groupes' = groupes
  <2>1. UNCHANGED tables BY <1>2 DEF tables, tablesDesGroupes
  <2> QED BY <2>1, PasMuet
<1>3. CASE g \in DOMAIN groupes[r] /\ groupes' = [groupes EXCEPT ![r][g].etiquette = e]
  <2> DEFINE t == groupes[r]
             rangee == [t[g] EXCEPT !.etiquette = e]
  <2>1. t[g] \in GroupeCree(Emise) /\ g \in Emise /\ t[g].domaine \in DOMAIN domaines[r]
        /\ t = [x \in DOMAIN t |-> t[x]]
    BY <1>1, <1>3 DEF GroupesJustes, TableDe
  <2>2. rangee \in GroupeCree(Emise') /\ rangee.domaine = t[g].domaine
    <3>1. t[g] \in GroupeCree(Emise') BY <2>1, RangeesLarges DEF Avance
    <3> QED BY <3>1 DEF GroupeCree
  <2>3. [t EXCEPT ![g] = rangee] = Poser(t, g, rangee)
    <3> HIDE DEF rangee
    <3>1. DOMAIN t \cup {g} = DOMAIN t BY <1>3
    <3> QED BY <3>1, <2>1 DEF Poser
  <2>4. groupes' = [groupes EXCEPT ![r] = Poser(@, g, rangee)]
    <3>1. groupes' = [groupes EXCEPT ![r] = [t EXCEPT ![g] = rangee]] BY <1>3, <1>1
    <3> QED BY <3>1, <2>3
  <2>5. g \in Emise' BY <2>1 DEF Avance
  <2> HIDE DEF rangee
  <2> QED BY <2>1, <2>2, <2>4, <2>5, PasDesGroupes
<1> QED BY <1>2, <1>3 DEF PoserLEtiquette

\* The additions of a root, whatever is written: each one that was not there hangs on
\* what is there.
LEMMA PasDesAdhesions ==
  ASSUME IInv, NEW r \in Racine, Voies', Avance, NEW t,
         TableDe(t, AdhesionDe(Emise'), DateOuNon(Emise')),
         \A a \in DOMAIN t : \/ a \in DOMAIN adhesions[r]
                             \/ CompteVivant(r, a.compte) /\ GroupeLa(r, a.groupe),
         adhesions' = [adhesions EXCEPT ![r] = t],
         UNCHANGED <<tablesDesDomaines, groupes, marques, droits>>
  PROVE  IInv'
<1>1. AdhesionsJustes(r) /\ ComptesJustes(r) /\ DOMAIN adhesions = Racine
  BY DEF IInv, Locale, Racines
<1>2. /\ adhesions'[r] = t /\ DOMAIN adhesions' = Racine
      /\ \A q \in Racine \ {r} : adhesions'[q] = adhesions[q]
  BY <1>1
<1>3. UNCHANGED <<comptes, domaines, poses>> BY DEF tablesDesDomaines
<1>4. Croit(r) BY <1>3 DEF Croit, CompteVivant
<1>5. ASSUME NEW a \in DOMAIN t
      PROVE  CompteVivant(r, a.compte)' /\ GroupeLa(r, a.groupe)'
  <2>1. CompteVivant(r, a.compte) /\ GroupeLa(r, a.groupe) BY <1>1 DEF AdhesionsJustes
  <2>2. a.groupe.sorte \in SorteDeGroupe /\ a.compte \in Connus
    BY DEF TableDe, AdhesionDe, GroupeDe
  <2> QED BY <2>1, <2>2, <1>1, <1>4, GroupeReste DEF Croit
<1>6. AdhesionsJustes(r)' BY <1>2, <1>5 DEF AdhesionsJustes
<1>7. \A q \in Racine \ {r} : MemesTables(q) BY <1>2, <1>3 DEF MemesTables
<1>8. Racines' BY <1>2, <1>3 DEF IInv, Racines
<1> QED BY <1>3, <1>4, <1>6, <1>7, <1>8, PasQuiCroit

\* The same for the rights.
LEMMA PasDesDroits ==
  ASSUME IInv, NEW r \in Racine, Voies', Avance, NEW t,
         TableDe(t, Emise', DroitDe(Emise')),
         \A d \in DOMAIN t :
           \/ /\ d \in DOMAIN droits[r] /\ t[d].par = droits[r][d].par
              /\ t[d].groupe = droits[r][d].groupe /\ t[d].element = droits[r][d].element
           \/ /\ CompteVivant(r, t[d].par) /\ GroupeLa(r, t[d].groupe)
              /\ t[d].element \in Elements(r),
         droits' = [droits EXCEPT ![r] = t],
         UNCHANGED <<tablesDesDomaines, tablesDesGroupes>>
  PROVE  IInv'
<1>1. DroitsJustes(r) /\ ComptesJustes(r) /\ DOMAIN droits = Racine
  BY DEF IInv, Locale, Racines
<1>2. /\ droits'[r] = t /\ DOMAIN droits' = Racine
      /\ \A q \in Racine \ {r} : droits'[q] = droits[q]
  BY <1>1
<1>3. UNCHANGED <<comptes, domaines, poses, groupes, marques, adhesions>>
  BY DEF tablesDesDomaines, tablesDesGroupes
<1>4. Croit(r) BY <1>3 DEF Croit, CompteVivant
<1>5. ComptesJustes(r)' BY <1>1, <1>3, ComptesRestent
<1>6. ASSUME NEW d \in DOMAIN t
      PROVE  /\ CompteVivant(r, t[d].par)' /\ GroupeLa(r, t[d].groupe)'
             /\ t[d].element \in Elements(r)'
  <2>1. CompteVivant(r, t[d].par) /\ GroupeLa(r, t[d].groupe) /\ t[d].element \in Elements(r)
    BY <1>1 DEF DroitsJustes
  <2>2. t[d].groupe.sorte \in SorteDeGroupe /\ t[d].par \in Connus
    BY DEF TableDe, DroitDe, GroupeDe
  <2> QED BY <2>1, <2>2, <1>1, <1>4, <1>5, GroupeReste, ElementsRestent DEF Croit
<1>7. DroitsJustes(r)' BY <1>2, <1>6 DEF DroitsJustes
<1>8. \A q \in Racine \ {r} : MemesTables(q) BY <1>2, <1>3 DEF MemesTables
<1>9. Racines' BY <1>2, <1>3 DEF IInv, Racines
<1> QED BY <1>3, <1>4, <1>7, <1>8, <1>9, PasQuiCroit

\* A group is deleted: what hung on it leaves.
LEMMA PasDissous ==
  ASSUME IInv, NEW r \in Racine, Voies', Avance, NEW g \in Emise', NEW e \in Emise',
         Marquer(r, g, e), OublierLesDroits(r, DroitsDuGroupe(r, DuDomaine(g))),
         UNCHANGED tablesDesDomaines
  PROVE  IInv'
<1>1. /\ Locale(r) /\ DOMAIN marques = Racine /\ DOMAIN adhesions = Racine
      /\ DOMAIN droits = Racine /\ DOMAIN groupes = Racine
  BY DEF IInv, Racines
<1> DEFINE m == marques[r]
           v == IF g \in DOMAIN m THEN PlusTot(m[g], e) ELSE e
           partis == {a \in DOMAIN adhesions[r] : a.groupe = DuDomaine(g)}
           D == DroitsDuGroupe(r, DuDomaine(g))
<1>2. /\ marques'[r] = Poser(m, g, v) /\ adhesions'[r] = Sans(adhesions[r], partis)
      /\ droits'[r] = Sans(droits[r], D) /\ groupes' = groupes
      /\ DOMAIN marques' = Racine /\ DOMAIN adhesions' = Racine /\ DOMAIN droits' = Racine
      /\ \A q \in Racine \ {r} :
           marques'[q] = marques[q] /\ adhesions'[q] = adhesions[q] /\ droits'[q] = droits[q]
  BY <1>1 DEF Marquer, OublierLesDroits
<1>3. UNCHANGED <<comptes, domaines, poses>> BY DEF tablesDesDomaines
<1>4. \A x : CompteVivant(r, x)' <=> CompteVivant(r, x) BY <1>3 DEF CompteVivant
<1>5. ComptesJustes(r)' BY <1>1, <1>3, ComptesRestent DEF Locale
<1>6. ASSUME NEW x \in GroupeDe(Emise), GroupeLa(r, x), x # DuDomaine(g) PROVE GroupeLa(r, x)'
  <2>1. x.sorte = "domaine" => x.de # g
    <3>1. x = [sorte |-> x.sorte, de |-> x.de] BY DEF GroupeDe
    <3> QED BY <3>1, <1>6 DEF DuDomaine
  <2>2. DOMAIN marques'[r] = DOMAIN m \cup {g} BY <1>2 DEF Poser
  <2>3. ~Marque(r, x)' BY <2>1, <2>2, <1>6 DEF GroupeLa, Marque
  <2>4. Rangee(r, x)' BY <1>2, <1>3, <1>4, <1>6 DEF GroupeLa, Rangee, CompteVivant
  <2> QED BY <2>3, <2>4 DEF GroupeLa
<1>7. GroupesJustes(r)'
  <2>1. TableDe(m, Emise', Emise') BY <1>1, TableLarge DEF Avance, Locale, GroupesJustes
  <2>2. v \in Emise'
    <3>1. CASE g \in DOMAIN m
      <4>1. m[g] \in Emise' BY <2>1, <3>1 DEF TableDe
      <4> QED BY <4>1, <3>1 DEF PlusTot
    <3> QED BY <3>1
  <2> HIDE DEF v, m
  <2>3. TableDe(marques'[r], Emise', Emise') BY <2>1, <2>2, <1>2, PoseeTable
  <2>4. TableDe(groupes[r], Emise', GroupeCree(Emise'))
    <3>1. GroupeCree(Emise) \subseteq GroupeCree(Emise') BY RangeesLarges DEF Avance
    <3> QED BY <3>1, <1>1, TableLarge DEF Avance, Locale, GroupesJustes
  <2> QED BY <2>3, <2>4, <1>1, <1>2, <1>3 DEF Locale, GroupesJustes
<1>8. AdhesionsJustes(r)'
  <2>1. TableDe(adhesions[r], AdhesionDe(Emise'), DateOuNon(Emise'))
    <3>1. AdhesionDe(Emise) \subseteq AdhesionDe(Emise')
          /\ DateOuNon(Emise) \subseteq DateOuNon(Emise')
      BY RangeesLarges DEF Avance
    <3> QED BY <3>1, <1>1, TableLarge DEF Locale, AdhesionsJustes
  <2>2. TableDe(adhesions'[r], AdhesionDe(Emise'), DateOuNon(Emise'))
    BY <2>1, <1>2, RestreinteTable
  <2>3. DOMAIN adhesions'[r] = DOMAIN adhesions[r] \ partis BY <1>2 DEF Sans
  <2>4. ASSUME NEW a \in DOMAIN adhesions'[r]
        PROVE  CompteVivant(r, a.compte)' /\ GroupeLa(r, a.groupe)'
    <3>1. a \in DOMAIN adhesions[r] /\ a.groupe # DuDomaine(g) BY <2>3
    <3>2. a.groupe \in GroupeDe(Emise)
      BY <3>1, <1>1 DEF Locale, AdhesionsJustes, TableDe, AdhesionDe
    <3> QED BY <3>1, <3>2, <1>1, <1>4, <1>6 DEF Locale, AdhesionsJustes
  <2> QED BY <2>2, <2>4 DEF AdhesionsJustes
<1>9. DroitsJustes(r)'
  <2>1. TableDe(droits[r], Emise', DroitDe(Emise'))
    <3>1. DroitDe(Emise) \subseteq DroitDe(Emise') BY RangeesLarges DEF Avance
    <3> QED BY <3>1, <1>1, TableLarge DEF Avance, Locale, DroitsJustes
  <2>2. TableDe(droits'[r], Emise', DroitDe(Emise')) BY <2>1, <1>2, RestreinteTable
  <2>3. /\ DOMAIN droits'[r] = DOMAIN droits[r] \ D
        /\ \A d \in DOMAIN droits'[r] : droits'[r][d] = droits[r][d]
    BY <1>2 DEF Sans
  <2>4. Elements(r)' = Elements(r)
    BY <1>3 DEF Elements, MachineLa, CompteVivant
  <2>5. ASSUME NEW d \in DOMAIN droits'[r], NEW x, x = droits'[r][d]
        PROVE  CompteVivant(r, x.par)' /\ GroupeLa(r, x.groupe)' /\ x.element \in Elements(r)'
    <3>1. /\ d \in DOMAIN droits[r] /\ x = droits[r][d] /\ x.groupe # DuDomaine(g)
      BY <2>3, <2>5 DEF DroitsDuGroupe
    <3>2. x.groupe \in GroupeDe(Emise)
      BY <3>1, <1>1 DEF Locale, DroitsJustes, TableDe, DroitDe
    <3>3. CompteVivant(r, x.par) /\ GroupeLa(r, x.groupe) /\ x.element \in Elements(r)
      BY <3>1, <1>1 DEF Locale, DroitsJustes
    <3>4. GroupeLa(r, x.groupe)' BY <3>1, <3>2, <3>3, <1>6
    <3>5. CompteVivant(r, x.par)' BY <3>3, <1>4
    <3> QED BY <3>3, <3>4, <3>5, <2>4
  <2> QED BY <2>2, <2>5 DEF DroitsJustes
<1>10. /\ DomainesJustes(r)' /\ PosesJustes(r)'
  <2>1. DomainesJustes(r)'
    <3>1. TableDe(domaines[r], DomaineNe(Emise'), RangeeDeDomaine(Emise'))
      BY <1>1, RangeesLarges, TableLarge DEF Avance, Locale, DomainesJustes
    <3>2. DomainesJustes(r) BY <1>1 DEF Locale
    <3>3. \A x \in Connus : DomainesDe(r, x)' = DomainesDe(r, x) BY <1>3 DEF DomainesDe
    <3> QED BY <3>1, <3>2, <3>3, <1>3, <1>4 DEF DomainesJustes
  <2>2. PosesJustes(r)'
    <3>1. TableDe(poses[r], CleDe(Emise'), PoseDe(Emise'))
      BY <1>1, RangeesLarges, TableLarge DEF Avance, Locale, PosesJustes
    <3>2. PosesJustes(r) /\ Voies BY <1>1 DEF Locale, IInv
    <3>3. \A x \in DOMAIN poses[r] : Accueille(r, x)'
      BY <3>2, <1>3, <1>4 DEF PosesJustes, Accueille, MachineLa
    <3>4. \A x \in DOMAIN poses[r] : poses[r][x].estampille.compteur <= compteur'[r]
      <4>1. \A x \in DOMAIN poses[r] : poses[r][x].estampille.compteur \in Nat
        BY <3>2 DEF PosesJustes, TableDe, PoseDe, Emise, Estampille
      <4> QED BY <4>1, <3>2 DEF PosesJustes, Avance, Voies
    <3> QED BY <3>1, <3>3, <3>4, <1>3 DEF PosesJustes
  <2> QED BY <2>1, <2>2
<1>11. ASSUME NEW q \in Racine PROVE Locale(q)'
  <2>1. CASE q = r BY <2>1, <1>5, <1>7, <1>8, <1>9, <1>10 DEF Locale
  <2>2. CASE q # r
    <3>1. MemesTables(q) BY <2>2, <1>2, <1>3 DEF MemesTables
    <3> QED BY <3>1, LocaleReste
  <2> QED BY <2>1, <2>2
<1>12. Racines' BY <1>2, <1>3 DEF IInv, Racines
<1> QED BY <1>11, <1>12 DEF IInv

-----------------------------------------------------------------------------
(* An account leaves.                                                      *)

\* What is not of the account stays there.
LEMMA ResteApresEffacement ==
  ASSUME IInv, NEW r \in Racine, NEW c \in Connus, EffacerDans(r, c)
  PROVE  /\ Racines' /\ \A q \in Racine \ {r} : MemesTables(q)
         /\ DOMAIN comptes'[r] = Connus
         /\ \A x \in Connus : CompteVivant(r, x)' <=> CompteVivant(r, x) /\ x # c
         /\ domaines'[r] = Sans(domaines[r], DomainesDe(r, c))
         /\ DOMAIN domaines'[r] = DOMAIN domaines[r] \ DomainesDe(r, c)
         /\ \A g \in GroupeDe(Emise) :
              GroupeLa(r, g) /\ g \notin GroupesEmportes(r, c) => GroupeLa(r, g)'
<1>1. ComptesJustes(r) /\ Racines BY DEF IInv, Locale
<1>2. /\ comptes' = [comptes EXCEPT ![r] = Poser(@, c, [estampille |-> Aucune, efface |-> TRUE])]
      /\ domaines' = [domaines EXCEPT ![r] = Sans(@, DomainesDe(r, c))]
  BY DEF EffacerDans, EffacerLesDomaines
<1> DEFINE crees == {g.de : g \in {p \in GroupesEmportes(r, c) : p.sorte = "domaine"}}
<1>3. /\ groupes' = [groupes EXCEPT ![r] = Sans(@, crees)]
      /\ marques' = [marques EXCEPT ![r] = Sans(@, crees)]
  BY DEF EffacerDans, EffacerLesGroupes
<1>4. Racines' /\ \A q \in Racine \ {r} : MemesTables(q)
  BY <1>1, <1>2, <1>3
     DEF Racines, MemesTables, EffacerDans, EffacerLesGroupes, EffacerLesDomaines,
         OublierLesDroits
<1>5. DOMAIN comptes[r] = Connus BY <1>1, TousConnus
<1>6. /\ comptes'[r] = Poser(comptes[r], c, [estampille |-> Aucune, efface |-> TRUE])
      /\ domaines'[r] = Sans(domaines[r], DomainesDe(r, c))
      /\ groupes'[r] = Sans(groupes[r], crees) /\ marques'[r] = Sans(marques[r], crees)
  BY <1>1, <1>2, <1>3 DEF Racines
<1> HIDE DEF crees
<1>7. /\ DOMAIN comptes'[r] = Connus /\ comptes'[r][c].efface
      /\ \A x \in Connus : x # c => comptes'[r][x] = comptes[r][x]
  <2>1. DOMAIN comptes[r] \cup {c} = Connus BY <1>5
  <2> QED BY <2>1, <1>5, <1>6 DEF Poser
<1>8. \A x \in Connus : CompteVivant(r, x)' <=> CompteVivant(r, x) /\ x # c
  BY <1>5, <1>7 DEF CompteVivant
<1>9. /\ DOMAIN domaines'[r] = DOMAIN domaines[r] \ DomainesDe(r, c)
      /\ DOMAIN groupes'[r] = DOMAIN groupes[r] \ crees
      /\ DOMAIN marques'[r] = DOMAIN marques[r] \ crees
  BY <1>6 DEF Sans
<1>10. ASSUME NEW g \in GroupeDe(Emise), GroupeLa(r, g), g \notin GroupesEmportes(r, c)
       PROVE  GroupeLa(r, g)'
  <2>1. g = [sorte |-> g.sorte, de |-> g.de] /\ g.sorte \in SorteDeGroupe BY DEF GroupeDe
  <2>2. CASE g.sorte = "domaine"
    <3>1. g = DuDomaine(g.de) /\ g.de \in DOMAIN groupes[r] /\ g.de \notin DOMAIN marques[r]
      BY <2>1, <2>2, <1>10 DEF DuDomaine, GroupeLa, Rangee, Marque
    <3>2. g.de \notin crees
      <4> SUFFICES ASSUME NEW p \in GroupesEmportes(r, c), p.sorte = "domaine", p.de = g.de
                   PROVE FALSE
        BY DEF crees
      <4>1. p \in Groupes(r) BY DEF GroupesEmportes
      <4>2. p = DuDomaine(p.de)
        BY <4>1 DEF Groupes, DuDomaine, Administrateurs, Personnel
      <4> QED BY <4>2, <3>1, <1>10
    <3> QED BY <3>1, <3>2, <2>2, <1>9 DEF GroupeLa, Rangee, Marque
  <2>3. CASE g.sorte = "administrateurs"
    <3>1. g = Administrateurs(g.de) /\ g.de \in DOMAIN domaines[r]
      BY <2>1, <2>3, <1>10 DEF Administrateurs, GroupeLa, Rangee
    <3>2. g \in Groupes(r) /\ Rattache(r, g) = g.de
      BY <3>1, <2>3 DEF Groupes, Rattache
    <3>3. g.de \notin DomainesDe(r, c) BY <3>2, <2>3, <1>10 DEF GroupesEmportes
    <3> QED BY <3>1, <3>3, <2>3, <1>9 DEF GroupeLa, Rangee, Marque
  <2>4. CASE g.sorte = "personnel"
    <3>1. g = Personnel(g.de) /\ CompteVivant(r, g.de) /\ g.de \in Connus
      BY <2>1, <2>4, <1>1, <1>10, TousConnus DEF Personnel, GroupeLa, Rangee
    <3>2. g \in Groupes(r) BY <3>1, <1>5 DEF Groupes
    <3>3. g.de # c BY <3>2, <2>4, <1>10 DEF GroupesEmportes
    <3>4. CompteVivant(r, g.de)' BY <3>1, <3>3, <1>8
    <3> QED BY <3>4, <2>4 DEF GroupeLa, Rangee, Marque
  <2> QED BY <2>1, <2>2, <2>3, <2>4 DEF SorteDeGroupe
<1> QED BY <1>4, <1>6, <1>7, <1>8, <1>9, <1>10

LEMMA EffaceesDesDomaines ==
  ASSUME IInv, NEW r \in Racine, Avance, NEW c \in Connus, EffacerDans(r, c)
  PROVE  ComptesJustes(r)' /\ DomainesJustes(r)' /\ PosesJustes(r)'
<1>1. ComptesJustes(r) /\ DomainesJustes(r) /\ PosesJustes(r) /\ Racines /\ Voies
  BY DEF IInv, Locale
<1>2. /\ \A x \in Connus : CompteVivant(r, x)' <=> CompteVivant(r, x) /\ x # c
      /\ domaines'[r] = Sans(domaines[r], DomainesDe(r, c))
      /\ DOMAIN domaines'[r] = DOMAIN domaines[r] \ DomainesDe(r, c)
  BY ResteApresEffacement
<1>3. ComptesJustes(r)'
  <2> DEFINE rangee == [estampille |-> Aucune, efface |-> TRUE]
  <2>1. comptes'[r] = Poser(comptes[r], c, rangee)
    BY <1>1 DEF EffacerDans, EffacerLesDomaines, Racines
  <2>2. rangee \in CompteDe(Emise') BY DEF CompteDe, DateOuNon
  <2>3. comptes[r] \in [Connus -> CompteDe(Emise')]
    BY <1>1, RangeesLarges DEF ComptesJustes, Avance
  <2> HIDE DEF rangee
  <2>4. /\ comptes'[r] \in [Connus -> CompteDe(Emise')]
        /\ \A x \in Connus : x # c => comptes'[r][x] = comptes[r][x]
    <3>1. DOMAIN comptes[r] \cup {c} = Connus BY <2>3
    <3> QED BY <3>1, <2>1, <2>2, <2>3 DEF Poser
  <2>5. \A x \in Connus : CompteVivant(r, x)' => comptes'[r][x].estampille \in Emise'
    BY <2>4, <1>1, <1>2 DEF ComptesJustes, Avance
  <2> QED BY <2>4, <2>5 DEF ComptesJustes
<1>4. /\ DOMAIN domaines'[r] = DOMAIN domaines[r] \ DomainesDe(r, c)
      /\ \A d \in DOMAIN domaines'[r] :
           /\ d \in DOMAIN domaines[r] /\ domaines'[r][d] = domaines[r][d]
           /\ domaines[r][d].proprietaire # c
  BY <1>2 DEF Sans, DomainesDe
<1>5. DomainesJustes(r)'
  <2>1. TableDe(domaines'[r], DomaineNe(Emise'), RangeeDeDomaine(Emise'))
    <3>1. TableDe(domaines[r], DomaineNe(Emise'), RangeeDeDomaine(Emise'))
      BY <1>1, RangeesLarges, TableLarge DEF Avance, DomainesJustes
    <3> QED BY <3>1, <1>2, RestreinteTable
  <2>2. \A d \in DOMAIN domaines[r] :
          domaines[r][d].proprietaire \in Connus /\ domaines[r][d].estampille = Naissance(d)
          /\ CompteVivant(r, domaines[r][d].proprietaire)
    BY <1>1 DEF DomainesJustes, TableDe, RangeeDeDomaine
  <2>3. ASSUME NEW d \in DOMAIN domaines'[r], NEW x, x = domaines'[r][d]
        PROVE  x.estampille = Naissance(d) /\ CompteVivant(r, x.proprietaire)'
    <3>1. d \in DOMAIN domaines[r] /\ x = domaines[r][d] /\ x.proprietaire # c
      BY <2>3, <1>4
    <3> QED BY <3>1, <2>2, <1>2
  <2>4. ASSUME NEW x \in Connus, CompteVivant(r, x)' PROVE DomainesDe(r, x)' # {}
    <3>1. CompteVivant(r, x) /\ x # c BY <2>4, <1>2
    <3>2. PICK y \in DOMAIN domaines[r] : domaines[r][y].proprietaire = x
      BY <3>1, <1>1 DEF DomainesJustes, DomainesDe
    <3>3. y \in DOMAIN domaines'[r] BY <3>1, <3>2, <1>4 DEF DomainesDe
    <3> QED BY <3>2, <3>3, <1>4 DEF DomainesDe
  <2> QED BY <2>1, <2>3, <2>4 DEF DomainesJustes
<1>6. PosesJustes(r)'
  <2> DEFINE parties == {cle \in DOMAIN poses[r] :
                  IF cle.quoi = "alias" THEN cle.de \in DomainesDe(r, c)
                                        ELSE Machines[cle.de] = c}
  <2>1. poses'[r] = Sans(poses[r], parties)
    BY <1>1 DEF EffacerDans, EffacerLesDomaines, Racines
  <2>2. TableDe(poses'[r], CleDe(Emise'), PoseDe(Emise'))
    <3>1. TableDe(poses[r], CleDe(Emise'), PoseDe(Emise'))
      BY <1>1, RangeesLarges, TableLarge DEF Avance, PosesJustes
    <3> HIDE DEF parties
    <3> QED BY <3>1, <2>1, RestreinteTable
  <2>3. /\ DOMAIN poses'[r] = DOMAIN poses[r] \ parties
        /\ \A x \in DOMAIN poses'[r] : poses'[r][x] = poses[r][x]
    BY <2>1 DEF Sans
  <2>4. ASSUME NEW x \in DOMAIN poses'[r] PROVE Accueille(r, x)'
    <3>1. x \in DOMAIN poses[r] /\ x \notin parties /\ Accueille(r, x)
      BY <2>3, <1>1 DEF PosesJustes
    <3>2. CASE x.quoi = "alias" BY <3>1, <3>2, <1>4 DEF Accueille
    <3>3. CASE x.quoi # "alias"
      <4>1. MachineLa(r, x.de) /\ Machines[x.de] # c BY <3>1, <3>3 DEF Accueille
      <4>2. Machines[x.de] \in Connus BY <4>1, MachinesConnues
      <4>3. MachineLa(r, x.de)' BY <4>1, <4>2, <1>2 DEF MachineLa
      <4> QED BY <4>3, <3>3 DEF Accueille
    <3> QED BY <3>2, <3>3
  <2>5. \A x \in DOMAIN poses[r] : poses[r][x].estampille.compteur <= compteur'[r]
    <3>1. \A x \in DOMAIN poses[r] : poses[r][x].estampille.compteur \in Nat
      BY <1>1 DEF PosesJustes, TableDe, PoseDe, Emise, Estampille
    <3> QED BY <3>1, <1>1 DEF PosesJustes, Avance, Voies
  <2>6. \A x \in DOMAIN poses'[r] : poses'[r][x].estampille.compteur <= compteur'[r]
    BY <2>3, <2>5
  <2> QED BY <2>2, <2>4, <2>6 DEF PosesJustes
<1> QED BY <1>3, <1>5, <1>6

LEMMA EffaceesDesGroupes ==
  ASSUME IInv, NEW r \in Racine, Avance, NEW c \in Connus, EffacerDans(r, c)
  PROVE  GroupesJustes(r)' /\ AdhesionsJustes(r)' /\ DroitsJustes(r)'
<1>1. ComptesJustes(r) /\ GroupesJustes(r) /\ AdhesionsJustes(r) /\ DroitsJustes(r) /\ Racines
  BY DEF IInv, Locale
<1>2. /\ DOMAIN comptes'[r] = Connus
      /\ \A x \in Connus : CompteVivant(r, x)' <=> CompteVivant(r, x) /\ x # c
      /\ DOMAIN domaines'[r] = DOMAIN domaines[r] \ DomainesDe(r, c)
      /\ \A g \in GroupeDe(Emise) :
           GroupeLa(r, g) /\ g \notin GroupesEmportes(r, c) => GroupeLa(r, g)'
  BY ResteApresEffacement
<1>3. GroupesJustes(r)'
  <2> DEFINE crees == {g.de : g \in {p \in GroupesEmportes(r, c) : p.sorte = "domaine"}}
  <2>1. groupes'[r] = Sans(groupes[r], crees) /\ marques'[r] = Sans(marques[r], crees)
    BY <1>1 DEF EffacerDans, EffacerLesGroupes, Racines
  <2>2. ASSUME NEW g \in DOMAIN groupes[r], g \notin crees
        PROVE  groupes[r][g].domaine \in DOMAIN domaines'[r]
    <3>1. DuDomaine(g) \in Groupes(r) /\ DuDomaine(g).sorte = "domaine" /\ DuDomaine(g).de = g
      BY DEF Groupes, DuDomaine
    <3>2. DuDomaine(g) \notin GroupesEmportes(r, c) BY <3>1, <2>2
    <3>3. groupes[r][g].domaine \notin DomainesDe(r, c)
      BY <3>1, <3>2 DEF GroupesEmportes, Rattache
    <3> QED BY <3>3, <1>1, <1>2 DEF GroupesJustes
  <2> HIDE DEF crees
  <2>3. TableDe(groupes'[r], Emise', GroupeCree(Emise'))
    <3>1. GroupeCree(Emise) \subseteq GroupeCree(Emise') BY RangeesLarges DEF Avance
    <3>2. TableDe(groupes[r], Emise', GroupeCree(Emise'))
      BY <3>1, <1>1, TableLarge DEF Avance, GroupesJustes
    <3> QED BY <3>2, <2>1, RestreinteTable
  <2>4. TableDe(marques'[r], Emise', Emise')
    <3>1. TableDe(marques[r], Emise', Emise') BY <1>1, TableLarge DEF Avance, GroupesJustes
    <3> QED BY <3>1, <2>1, RestreinteTable
  <2>5. \A g \in DOMAIN groupes'[r] : groupes'[r][g].domaine \in DOMAIN domaines'[r]
    BY <2>1, <2>2 DEF Sans
  <2> QED BY <2>3, <2>4, <2>5 DEF GroupesJustes
<1>4. AdhesionsJustes(r)'
  <2> DEFINE partis == {a \in DOMAIN adhesions[r] :
                          a.groupe \in GroupesEmportes(r, c) \/ a.compte = c}
  <2>1. adhesions'[r] = Sans(adhesions[r], partis)
    BY <1>1 DEF EffacerDans, EffacerLesGroupes, Racines
  <2>2. DOMAIN adhesions'[r] = DOMAIN adhesions[r] \ partis BY <2>1 DEF Sans
  <2>3. TableDe(adhesions'[r], AdhesionDe(Emise'), DateOuNon(Emise'))
    <3>1. AdhesionDe(Emise) \subseteq AdhesionDe(Emise')
          /\ DateOuNon(Emise) \subseteq DateOuNon(Emise')
      BY RangeesLarges DEF Avance
    <3>2. TableDe(adhesions[r], AdhesionDe(Emise'), DateOuNon(Emise'))
      BY <3>1, <1>1, TableLarge DEF AdhesionsJustes
    <3> HIDE DEF partis
    <3> QED BY <3>2, <2>1, RestreinteTable
  <2>4. ASSUME NEW a \in DOMAIN adhesions'[r]
        PROVE  CompteVivant(r, a.compte)' /\ GroupeLa(r, a.groupe)'
    <3>1. /\ a \in DOMAIN adhesions[r] /\ a.groupe \notin GroupesEmportes(r, c)
          /\ a.compte # c
      BY <2>2
    <3>2. a.groupe \in GroupeDe(Emise) /\ a.compte \in Connus
      BY <3>1, <1>1 DEF AdhesionsJustes, TableDe, AdhesionDe
    <3> QED BY <3>1, <3>2, <1>1, <1>2 DEF AdhesionsJustes
  <2> QED BY <2>3, <2>4 DEF AdhesionsJustes
<1>5. DroitsJustes(r)'
  <2> DEFINE D == DroitsEmportes(r, c)
  <2>1. droits'[r] = Sans(droits[r], D) BY <1>1 DEF EffacerDans, OublierLesDroits, Racines
  <2>2. TableDe(droits'[r], Emise', DroitDe(Emise'))
    <3>1. DroitDe(Emise) \subseteq DroitDe(Emise') BY RangeesLarges DEF Avance
    <3>2. TableDe(droits[r], Emise', DroitDe(Emise'))
      BY <3>1, <1>1, TableLarge DEF Avance, DroitsJustes
    <3> QED BY <3>2, <2>1, RestreinteTable
  <2>3. /\ DOMAIN droits'[r] = DOMAIN droits[r] \ D
        /\ \A d \in DOMAIN droits'[r] : droits'[r][d] = droits[r][d]
    BY <2>1 DEF Sans
  <2>4. ASSUME NEW d \in DOMAIN droits'[r], NEW x, x = droits'[r][d]
        PROVE  CompteVivant(r, x.par)' /\ GroupeLa(r, x.groupe)' /\ x.element \in Elements(r)'
    <3>1. d \in DOMAIN droits[r] /\ x = droits[r][d] /\ d \notin D BY <2>3, <2>4
    <3>2. /\ x.par # c /\ x.groupe \notin GroupesEmportes(r, c)
          /\ x.element # LeCompte(c) /\ \A y \in DomainesDe(r, c) : x.element # LeDomaine(y)
          /\ \A m \in DOMAIN Machines : Machines[m] = c => x.element # LaMachine(m)
      BY <3>1 DEF DroitsEmportes
    <3>3. /\ CompteVivant(r, x.par) /\ GroupeLa(r, x.groupe) /\ x.element \in Elements(r)
          /\ x.par \in Connus /\ x.groupe \in GroupeDe(Emise)
      BY <3>1, <1>1 DEF DroitsJustes, TableDe, DroitDe
    <3>4. x.element \in Elements(r)'
      <4>1. CASE \E y \in DOMAIN domaines[r] : x.element = LeDomaine(y)
        <5>1. PICK y \in DOMAIN domaines[r] : x.element = LeDomaine(y) BY <4>1
        <5>2. y \in DOMAIN domaines'[r] BY <5>1, <3>2, <1>2
        <5> QED BY <5>1, <5>2 DEF Elements
      <4>2. CASE \E m \in DOMAIN Machines : MachineLa(r, m) /\ x.element = LaMachine(m)
        <5>1. PICK m \in DOMAIN Machines : MachineLa(r, m) /\ x.element = LaMachine(m)
          BY <4>2
        <5>2. Machines[m] \in Connus /\ Machines[m] # c
          BY <5>1, <3>2, MachinesConnues
        <5>3. MachineLa(r, m)' BY <5>1, <5>2, <1>2 DEF MachineLa
        <5> QED BY <5>1, <5>3 DEF Elements
      <4>3. CASE \E y \in DOMAIN comptes[r] : CompteVivant(r, y) /\ x.element = LeCompte(y)
        <5>1. PICK y \in DOMAIN comptes[r] : CompteVivant(r, y) /\ x.element = LeCompte(y)
          BY <4>3
        <5>2. y \in Connus /\ y # c BY <5>1, <3>2, <1>1, TousConnus
        <5>3. CompteVivant(r, y)' /\ y \in DOMAIN comptes'[r] BY <5>1, <5>2, <1>2
        <5> QED BY <5>1, <5>3 DEF Elements
      <4> QED BY <3>3, <4>1, <4>2, <4>3 DEF Elements
    <3> QED BY <3>2, <3>3, <3>4, <1>2
  <2> QED BY <2>2, <2>4 DEF DroitsJustes
<1> QED BY <1>3, <1>4, <1>5

LEMMA PasDUnEffacement ==
  ASSUME IInv, NEW r \in Racine, Voies', Avance, NEW c \in Connus, EffacerDans(r, c)
  PROVE  IInv'
<1>1. Racines' /\ \A q \in Racine \ {r} : MemesTables(q) BY ResteApresEffacement
<1>2. ASSUME NEW q \in Racine PROVE Locale(q)'
  <2>1. CASE q = r BY <2>1, EffaceesDesDomaines, EffaceesDesGroupes DEF Locale
  <2>2. CASE q # r BY <2>2, <1>1, LocaleReste
  <2> QED BY <2>1, <2>2
<1> QED BY <1>1, <1>2 DEF IInv

-----------------------------------------------------------------------------
(* What a root writes.                                                     *)

\* An operation of each part is an operation.
LEMMA Operations ==
  ASSUME NEW E
  PROVE  /\ AuxDomaines(E) \subseteq OperationDe(E) /\ AuxGroupes(E) \subseteq OperationDe(E)
         /\ AuxDroits(E) \subseteq OperationDe(E)
BY DEF OperationDe

\* What is known of the rows that a request names.
LEMMA DomaineType ==
  ASSUME IInv, NEW r \in Racine, NEW d \in DOMAIN domaines[r]
  PROVE  /\ d \in Emise /\ d \in DomaineNe(Emise) /\ domaines[r][d].proprietaire \in Connus
         /\ domaines[r][d].supprime \in DateOuNon(Emise)
         /\ domaines[r][d].estampille \in Emise /\ domaines[r][d].estampille = Naissance(d)
BY DEF IInv, Locale, DomainesJustes, TableDe, RangeeDeDomaine, DomaineNe

LEMMA MachineEmise ==
  ASSUME IInv, NEW m \in DOMAIN Machines
  PROVE  m \in Emise
<1>1. m \in DatesDeDepart BY DepartJuste
<1>2. m \in Estampille /\ m.compteur \in Nat /\ m.compteur <= Depart.compteur
      /\ m.racine \in Racine
  BY <1>1 DEF DatesDeDepart, Estampille
<1>3. Depart.compteur \in Nat /\ compteur[m.racine] \in Nat
      /\ Depart.compteur <= compteur[m.racine]
  BY <1>2, DepartJuste DEF IInv, Voies
<1> QED BY <1>2, <1>3 DEF Emise

LEMMA PasReclamerAlias ==
  ASSUME IInv, NEW r \in Racine, NEW c, ReclamerAlias(r, c),
         UNCHANGED <<tablesDesGroupes, droits>>
  PROVE  IInv'
<1> DEFINE o == [quoi |-> "alias", estampille |-> Suivante(r), compte |-> c]
<1>1. CompteVivant(r, c) /\ Journaliser(r, o) BY DEF ReclamerAlias
<1>2. Avance /\ Suivante(r) \in Emise' BY <1>1, AvanceeDUne
<1>3. c \in Connus BY <1>1, TousConnus DEF IInv, Locale
<1>4. o \in OperationDe(Emise')
  <2>1. o \in AuxDomaines(Emise') BY <1>2, <1>3 DEF AuxDomaines
  <2> QED BY <2>1, Operations
<1>5. Voies' BY <1>1, <1>4, VoiesEcritesUne
<1> QED BY <1>1, <1>2, <1>5, PasDUneEstampille DEF ReclamerAlias

LEMMA PasCreerDomaine ==
  ASSUME IInv, NEW r \in Racine, NEW c, CreerDomaine(r, c),
         UNCHANGED <<tablesDesGroupes, droits>>
  PROVE  IInv'
<1> DEFINE d == Suivante(r)
           ne == [quoi |-> "domaine", estampille |-> d, de |-> d, proprietaire |-> c]
           e == Prochaine(r, 2)
           pose == Pose(AliasDe(d), Aucune, e)
<1>1. /\ CompteVivant(r, c)
      /\ domaines' = [domaines EXCEPT ![r] = Poser(@, d, Domaine(c, d))]
      /\ \/ Journaliser(r, ne) /\ UNCHANGED poses
         \/ /\ JournaliserTout(r, <<ne, pose>>)
            /\ poses' = [poses EXCEPT ![r] =
                 Poser(@, pose.cle, [estampille |-> pose.estampille, valeur |-> Aucune])]
      /\ UNCHANGED comptes
  BY DEF CreerDomaine
<1>2. c \in Connus BY <1>1, TousConnus DEF IInv, Locale
<1>3. ASSUME d \in DomaineNe(Emise'), d \notin DOMAIN Depart.domaines, d \notin Emise
      PROVE  /\ Naissance(d) = d /\ d \notin DOMAIN domaines[r] /\ d \in Emise'
             /\ ne \in OperationDe(Emise')
  <2>1. d \notin DOMAIN domaines[r] BY <1>3, DomaineType
  <2>2. Naissance(d) = d /\ d \in Emise' BY <1>3 DEF Naissance, DomaineNe
  <2> HIDE DEF d
  <2>3. ne \in AuxDomaines(Emise') BY <2>2, <1>2, <1>3 DEF AuxDomaines
  <2> QED BY <2>1, <2>2, <2>3, Operations
<1>4. CASE Journaliser(r, ne) /\ UNCHANGED poses
  <2>1. /\ Avance /\ d \in DomaineNe(Emise') /\ d \notin DOMAIN Depart.domaines
        /\ d \notin Emise
    BY <1>4, AvanceeDUne
  <2>2. /\ Naissance(d) = d /\ d \notin DOMAIN domaines[r] /\ d \in Emise'
        /\ ne \in OperationDe(Emise')
    BY <2>1, <1>3
  <2> HIDE DEF d, ne
  <2>3. Voies' BY <1>4, <2>2, VoiesEcritesUne
  <2> QED BY <1>1, <1>4, <2>1, <2>2, <2>3, PasDUnDomaine
<1>5. CASE /\ JournaliserTout(r, <<ne, pose>>)
           /\ poses' = [poses EXCEPT ![r] =
                Poser(@, pose.cle, [estampille |-> pose.estampille, valeur |-> Aucune])]
  <2> DEFINE ops == <<ne, pose>>
  <2>1. Len(ops) = 2 /\ Len(ops) \in Nat OBVIOUS
  <2>2. JournaliserTout(r, ops) BY <1>5
  <2>3. /\ Avance /\ compteur'[r] = compteur[r] + Len(ops) /\ compteur[r] \in Nat
        /\ \A i \in 1..Len(ops) :
             /\ Prochaine(r, i) \in Emise' /\ Prochaine(r, i) \notin Emise
             /\ Prochaine(r, i) \in DomaineNe(Emise')
             /\ Prochaine(r, i) \notin DOMAIN Depart.domaines
    <3> HIDE DEF ops
    <3> QED BY <2>1, <2>2, Avancee
  <2>4. 1 \in 1..2 /\ 2 \in 1..2 /\ d = Prochaine(r, 1) BY DEF Suivante
  <2>5. /\ d \in DomaineNe(Emise') /\ d \notin DOMAIN Depart.domaines /\ d \notin Emise
        /\ e \in Emise' /\ e.compteur <= compteur'[r]
    <3>1. e.compteur = compteur[r] + 2 BY DEF Prochaine
    <3> HIDE DEF d, e, ops
    <3> QED BY <2>1, <2>3, <2>4, <3>1 DEF e
  <2>6. /\ Naissance(d) = d /\ d \notin DOMAIN domaines[r] /\ d \in Emise'
        /\ ne \in OperationDe(Emise')
    BY <2>5, <1>3
  <2>7. pose.cle = AliasDe(d) /\ pose.estampille = e BY DEF Pose
  <2>8. pose \in OperationDe(Emise')
    <3>1. AliasDe(d) \in CleDe(Emise') /\ Aucune \in DateOuNon(Emise')
      BY <2>6 DEF AliasDe, CleDe, DateOuNon
    <3> HIDE DEF d, e
    <3>2. pose \in AuxDomaines(Emise') BY <3>1, <2>5 DEF Pose, AuxDomaines
    <3> QED BY <3>2, Operations
  <2>9. ops \in Seq(OperationDe(Emise'))
    <3> DEFINE T == OperationDe(Emise')
    <3>1. PICK x, y : x = ne /\ y = pose OBVIOUS
    <3>2. x \in T /\ y \in T /\ ops = <<x, y>> BY <3>1, <2>6, <2>8
    <3> HIDE DEF T, ops
    <3>3. <<x, y>> \in Seq(T) BY <3>2
    <3> QED BY <3>2, <3>3 DEF T
  <2>10. Voies'
    <3> HIDE DEF ops
    <3> QED BY <2>2, <2>9, VoiesEcrites
  <2> HIDE DEF d, ne, e
  <2> QED BY <1>1, <1>5, <2>3, <2>5, <2>6, <2>7, <2>10, PasDUnDomaine
<1> QED BY <1>1, <1>4, <1>5

LEMMA PasSupprimerDomaine ==
  ASSUME IInv, NEW r \in Racine, NEW d, SupprimerDomaine(r, d),
         UNCHANGED <<tablesDesGroupes, droits>>
  PROVE  IInv'
<1> DEFINE o == [quoi |-> "supprime", estampille |-> Suivante(r), de |-> d]
<1>1. d \in DOMAIN domaines[r] /\ Journaliser(r, o) BY DEF SupprimerDomaine, Vivant
<1>2. Avance /\ Suivante(r) \in Emise' BY <1>1, AvanceeDUne
<1>3. d \in Emise' BY <1>1, <1>2, DomaineType DEF Avance
<1>4. o \in OperationDe(Emise')
  <2>1. o \in AuxDomaines(Emise') BY <1>2, <1>3 DEF AuxDomaines
  <2> QED BY <2>1, Operations
<1>5. Voies' BY <1>1, <1>4, VoiesEcritesUne
<1> QED BY <1>1, <1>2, <1>5, PasDUneSuppression DEF SupprimerDomaine

LEMMA PasPoserUneValeur ==
  ASSUME IInv, NEW r \in Racine, NEW cle \in CleDe(Emise), NEW v \in DateOuNon(Emise),
         Accueille(r, cle), PoserUneValeur(r, cle, v), UNCHANGED <<tablesDesGroupes, droits>>
  PROVE  IInv'
<1> DEFINE o == Pose(cle, v, Suivante(r))
           e == Suivante(r)
<1>1. /\ Journaliser(r, o)
      /\ poses' = [poses EXCEPT ![r] = Poser(@, cle, [estampille |-> e, valeur |-> v])]
      /\ UNCHANGED <<comptes, domaines>>
  BY DEF PoserUneValeur
<1>2. Avance /\ e \in Emise' /\ e.compteur = compteur'[r] BY <1>1, AvanceeDUne
<1>3. cle \in CleDe(Emise') /\ v \in DateOuNon(Emise') BY <1>2, RangeesLarges DEF Avance
<1>4. o \in OperationDe(Emise')
  <2> HIDE DEF e
  <2>1. o \in AuxDomaines(Emise') BY <1>2, <1>3 DEF Pose, AuxDomaines, e
  <2> QED BY <2>1, Operations
<1>5. Voies' BY <1>1, <1>4, VoiesEcritesUne
<1>6. e.compteur <= compteur'[r] BY <1>2 DEF Avance
<1> HIDE DEF e
<1> QED BY <1>1, <1>2, <1>3, <1>5, <1>6, PasDUnePose

LEMMA PasEcrireUnDomaine ==
  ASSUME IInv, NEW r \in Racine, NEW c, EcrireUnDomaine(r, c)
  PROVE  IInv'
<1>1. UNCHANGED <<tablesDesGroupes, droits>> BY DEF EcrireUnDomaine
<1>2. Aucune \in DateOuNon(Emise) BY DEF DateOuNon
<1>3. ASSUME NEW d, PoserAliasDeDomaine(r, d) PROVE IInv'
  <2>1. d \in DOMAIN domaines[r] BY <1>3 DEF PoserAliasDeDomaine, Vivant
  <2>2. AliasDe(d) \in CleDe(Emise) /\ Accueille(r, AliasDe(d))
    BY <2>1, DomaineType DEF AliasDe, CleDe, Accueille
  <2> QED BY <1>1, <1>2, <1>3, <2>2, PasPoserUneValeur DEF PoserAliasDeDomaine
<1>4. ASSUME NEW m \in DOMAIN Machines, PoserAliasDeMachine(r, m) PROVE IInv'
  <2>1. MachineLa(r, m) BY <1>4 DEF PoserAliasDeMachine
  <2>2. NomDe(m) \in CleDe(Emise) /\ Accueille(r, NomDe(m))
    BY <2>1, MachineEmise DEF NomDe, CleDe, Accueille
  <2> QED BY <1>1, <1>2, <1>4, <2>2, PasPoserUneValeur DEF PoserAliasDeMachine
<1>5. ASSUME NEW m \in DOMAIN Machines, NEW d, RattacherMachine(r, m, d) PROVE IInv'
  <2>1. MachineLa(r, m) BY <1>5 DEF RattacherMachine
  <2>2. LieuDe(m) \in CleDe(Emise) /\ Accueille(r, LieuDe(m))
    BY <2>1, MachineEmise DEF LieuDe, CleDe, Accueille
  <2>3. d \in DateOuNon(Emise) BY <1>5, DomaineType DEF RattacherMachine, Vivant, DateOuNon
  <2> QED BY <1>1, <1>5, <2>2, <2>3, PasPoserUneValeur DEF RattacherMachine
<1>6. \/ ReclamerAlias(r, c) \/ CreerDomaine(r, c) \/ \E d : SupprimerDomaine(r, d)
      \/ \E d : PoserAliasDeDomaine(r, d)
      \/ \E m \in DOMAIN Machines :
           PoserAliasDeMachine(r, m) \/ \E d : RattacherMachine(r, m, d)
  BY DEF EcrireUnDomaine
<1> QED BY <1>1, <1>3, <1>4, <1>5, <1>6, PasReclamerAlias, PasCreerDomaine,
           PasSupprimerDomaine

LEMMA DatesEmises == ASSUME Voies PROVE DatesDeDepart \subseteq Emise
<1> SUFFICES ASSUME NEW e \in DatesDeDepart PROVE e \in Emise OBVIOUS
<1>1. e \in Estampille /\ e.compteur \in Nat /\ e.compteur <= Depart.compteur
      /\ e.racine \in Racine
  BY DEF DatesDeDepart, Estampille
<1>2. Depart.compteur \in Nat /\ compteur[e.racine] \in Nat
      /\ Depart.compteur <= compteur[e.racine]
  BY <1>1, DepartJuste DEF Voies
<1> QED BY <1>1, <1>2 DEF Emise

LEMMA CompteEmis ==
  ASSUME Voies, NEW c \in Connus
  PROVE  c \in Emise
BY DatesEmises, DepartJuste DEF TableDe, Connus

\* A group that is read, as it is named.
LEMMA GroupeType ==
  ASSUME IInv, NEW r \in Racine, NEW g \in GroupesLus(r)
  PROVE  /\ g \in GroupeDe(Emise) /\ GroupeLa(r, g) /\ g.sorte \in SorteDeGroupe
         /\ g.sorte = "domaine" => g = DuDomaine(g.de) /\ g.de \in DOMAIN groupes[r]
<1>1. /\ ComptesJustes(r) /\ Voies /\ g \in Groupes(r) /\ GroupeLa(r, g)
      /\ GroupesJustes(r)
  BY DEF IInv, Locale, GroupesLus, Lu, GroupeLa
<1>2. CASE \E x \in DOMAIN groupes[r] : g = DuDomaine(x)
  <2>1. PICK x \in DOMAIN groupes[r] : g = DuDomaine(x) BY <1>2
  <2>2. x \in Emise BY <1>1 DEF GroupesJustes, TableDe
  <2> QED BY <1>1, <2>1, <2>2 DEF DuDomaine, GroupeDe, SorteDeGroupe
<1>3. CASE \E x \in DOMAIN domaines[r] : g = Administrateurs(x)
  <2>1. PICK x \in DOMAIN domaines[r] : g = Administrateurs(x) BY <1>3
  <2>2. x \in Emise BY DomaineType
  <2> QED BY <1>1, <2>1, <2>2 DEF Administrateurs, GroupeDe, SorteDeGroupe
<1>4. CASE \E x \in DOMAIN comptes[r] : g = Personnel(x)
  <2>1. PICK x \in DOMAIN comptes[r] : g = Personnel(x) BY <1>4
  <2>2. x \in Emise BY <1>1, CompteEmis, TousConnus
  <2> QED BY <1>1, <2>1, <2>2 DEF Personnel, GroupeDe, SorteDeGroupe
<1> QED BY <1>1, <1>2, <1>3, <1>4 DEF Groupes

LEMMA PasCreerGroupe ==
  ASSUME IInv, NEW r \in Racine, NEW d, CreerGroupe(r, d),
         UNCHANGED <<tablesDesDomaines, droits>>
  PROVE  IInv'
<1> DEFINE g == Suivante(r)
           o == [quoi |-> "groupe", estampille |-> g, de |-> g, domaine |-> d,
                 etiquette |-> g]
           rangee == [domaine |-> d, etiquette |-> g]
<1>1. /\ d \in DOMAIN domaines[r] /\ Journaliser(r, o)
      /\ groupes' = [groupes EXCEPT ![r] = Poser(@, g, rangee)]
      /\ UNCHANGED <<marques, adhesions>>
  BY DEF CreerGroupe, Vivant
<1>2. Avance /\ g \in Emise' BY <1>1, AvanceeDUne
<1>3. d \in Emise' BY <1>1, <1>2, DomaineType DEF Avance
<1> HIDE DEF g
<1>4. o \in OperationDe(Emise')
  <2>1. o \in AuxGroupes(Emise') BY <1>2, <1>3 DEF AuxGroupes
  <2> QED BY <2>1, Operations
<1>5. Voies' BY <1>1, <1>4, VoiesEcritesUne
<1>6. rangee \in GroupeCree(Emise') /\ rangee.domaine = d BY <1>2, <1>3 DEF GroupeCree
<1> HIDE DEF rangee, o
<1> QED BY <1>1, <1>2, <1>5, <1>6, PasDesGroupes

LEMMA PasEtiqueterGroupe ==
  ASSUME IInv, NEW r \in Racine, NEW g \in GroupesLus(r), EtiqueterGroupe(r, g),
         UNCHANGED <<tablesDesDomaines, droits>>
  PROVE  IInv'
<1> DEFINE e == Suivante(r)
           o == [quoi |-> "etiquette", estampille |-> e, de |-> g.de]
<1>1. /\ PoserLEtiquette(r, g.de, e) /\ Journaliser(r, o) /\ UNCHANGED <<marques, adhesions>>
  BY DEF EtiqueterGroupe
<1>2. Avance /\ e \in Emise' BY <1>1, AvanceeDUne
<1>3. g.de \in Emise' BY <1>2, GroupeType DEF Avance, GroupeDe
<1> HIDE DEF e
<1>4. o \in OperationDe(Emise')
  <2>1. o \in AuxGroupes(Emise') BY <1>2, <1>3 DEF AuxGroupes
  <2> QED BY <2>1, Operations
<1>5. Voies' BY <1>1, <1>4, VoiesEcritesUne
<1> QED BY <1>1, <1>2, <1>5, PasDUneEtiquette

LEMMA PasAjouterMembre ==
  ASSUME IInv, NEW r \in Racine, NEW g \in GroupesLus(r), NEW c, AjouterMembre(r, g, c),
         UNCHANGED <<tablesDesDomaines, droits>>
  PROVE  IInv'
<1> DEFINE e == Suivante(r)
           o == [quoi |-> "membre", estampille |-> e, groupe |-> g, compte |-> c]
           a == [groupe |-> g, compte |-> c, ajout |-> e]
           t == Poser(adhesions[r], a, Aucune)
<1>1. /\ CompteVivant(r, c) /\ Journaliser(r, o)
      /\ adhesions' = [adhesions EXCEPT ![r] = t] /\ UNCHANGED <<groupes, marques>>
  BY DEF AjouterMembre
<1>2. Avance /\ e \in Emise' BY <1>1, AvanceeDUne
<1>3. c \in Connus BY <1>1, TousConnus DEF IInv, Locale
<1>4. g \in GroupeDe(Emise') /\ GroupeLa(r, g)
  <2>1. g \in GroupeDe(Emise) /\ GroupeLa(r, g) BY GroupeType
  <2> QED BY <2>1, <1>2, RangeesLarges DEF Avance
<1> HIDE DEF e
<1>5. o \in OperationDe(Emise')
  <2>1. o \in AuxGroupes(Emise') BY <1>2, <1>3, <1>4 DEF AuxGroupes
  <2> QED BY <2>1, Operations
<1>6. Voies' BY <1>1, <1>5, VoiesEcritesUne
<1>7. a \in AdhesionDe(Emise') /\ Aucune \in DateOuNon(Emise')
  BY <1>2, <1>3, <1>4 DEF AdhesionDe, DateOuNon
<1>8. a.groupe = g /\ a.compte = c OBVIOUS
<1> HIDE DEF a
<1>9. TableDe(adhesions[r], AdhesionDe(Emise'), DateOuNon(Emise'))
  <2>1. /\ AdhesionDe(Emise) \subseteq AdhesionDe(Emise')
        /\ DateOuNon(Emise) \subseteq DateOuNon(Emise')
    BY <1>2, RangeesLarges DEF Avance
  <2> QED BY <2>1, TableLarge DEF IInv, Locale, AdhesionsJustes
<1>10. TableDe(t, AdhesionDe(Emise'), DateOuNon(Emise')) BY <1>7, <1>9, PoseeTable
<1>11. DOMAIN t = DOMAIN adhesions[r] \cup {a} BY DEF Poser
<1> HIDE DEF t, o
<1> QED BY <1>1, <1>2, <1>4, <1>6, <1>8, <1>10, <1>11, PasDesAdhesions

\* Every addition is removed under a stamp of its own.
LEMMA PasRetirerMembre ==
  ASSUME IInv, NEW r \in Racine, NEW g \in GroupesLus(r), NEW c \in Connus,
         RetirerMembre(r, g, c), UNCHANGED <<tablesDesDomaines, droits>>
  PROVE  IInv'
<1> DEFINE A == Ajouts(r, g, c)
           siens == SetToSeq(A)
           ops == [i \in DOMAIN siens |->
                    [quoi |-> "retire", estampille |-> Prochaine(r, i), groupe |-> g,
                     compte |-> c, ajout |-> siens[i].ajout]]
           t == [a \in DOMAIN adhesions[r] |->
                   IF a \notin A THEN adhesions[r][a]
                   ELSE Prochaine(r, CHOOSE i \in DOMAIN siens : siens[i] = a)]
<1>1. /\ JournaliserTout(r, ops) /\ adhesions' = [adhesions EXCEPT ![r] = t]
      /\ UNCHANGED <<groupes, marques>>
  BY DEF RetirerMembre
<1>2. /\ AdhesionsJustes(r) /\ A \subseteq DOMAIN adhesions[r]
      /\ \A a \in A : a \in AdhesionDe(Emise)
  BY DEF IInv, Locale, AdhesionsJustes, TableDe, Ajouts
<1>3. IsFiniteSet(A) BY <1>2, FS_Subset DEF AdhesionsJustes, TableDe
<1> HIDE DEF A
<1>4. siens \in Seq(A) /\ \A a \in A : \E i \in DOMAIN siens : siens[i] = a BY <1>3, SuiteDe
<1>5. /\ DOMAIN siens = 1..Len(siens) /\ Len(siens) \in Nat
      /\ \A i \in DOMAIN siens : siens[i] \in A
  <2> HIDE DEF siens
  <2> QED BY <1>4
<1>6. Len(ops) = Len(siens) /\ DOMAIN ops = 1..Len(siens) BY <1>5
<1>7. /\ Avance /\ \A i \in 1..Len(siens) : Prochaine(r, i) \in Emise'
  <2> HIDE DEF ops, siens
  <2> QED BY <1>1, <1>5, <1>6, Avancee
<1>8. /\ g \in GroupeDe(Emise') /\ AdhesionDe(Emise) \subseteq AdhesionDe(Emise')
      /\ DateOuNon(Emise) \subseteq DateOuNon(Emise')
  <2>1. g \in GroupeDe(Emise) BY GroupeType
  <2>2. GroupeDe(Emise) \subseteq GroupeDe(Emise') BY <1>7, RangeesLarges DEF Avance
  <2>3. /\ AdhesionDe(Emise) \subseteq AdhesionDe(Emise')
        /\ DateOuNon(Emise) \subseteq DateOuNon(Emise')
    BY <1>7, RangeesLarges DEF Avance
  <2> QED BY <2>1, <2>2, <2>3
<1>9. ops \in Seq(OperationDe(Emise'))
  <2> DEFINE T == OperationDe(Emise')
  <2>1. ASSUME NEW i \in DOMAIN ops PROVE ops[i] \in T
    <3>1. Prochaine(r, i) \in Emise' BY <1>6, <1>7, <2>1
    <3>2. siens[i].ajout \in Emise'
      <4>1. siens[i] \in AdhesionDe(Emise') BY <1>2, <1>5, <1>6, <1>8, <2>1
      <4> QED BY <4>1 DEF AdhesionDe
    <3>3. PICK e, x : e = Prochaine(r, i) /\ x = siens[i].ajout OBVIOUS
    <3>4. ops[i] = [quoi |-> "retire", estampille |-> e, groupe |-> g, compte |-> c,
                    ajout |-> x]
      BY <3>3, <2>1
    <3> HIDE DEF ops, siens
    <3>5. ops[i] \in AuxGroupes(Emise') BY <3>1, <3>2, <3>3, <3>4, <1>8 DEF AuxGroupes
    <3> QED BY <3>5, Operations
  <2>2. ops = [i \in 1..Len(siens) |-> ops[i]] BY <1>6
  <2> HIDE DEF ops, siens, T
  <2>3. ops \in Seq(T) BY <2>1, <2>2, <1>5, <1>6
  <2> QED BY <2>3 DEF T
<1>10. Voies'
  <2> HIDE DEF ops
  <2> QED BY <1>1, <1>9, VoiesEcrites
<1>11. TableDe(t, AdhesionDe(Emise'), DateOuNon(Emise')) /\ DOMAIN t = DOMAIN adhesions[r]
  <2>1. ASSUME NEW a \in DOMAIN adhesions[r] PROVE t[a] \in DateOuNon(Emise')
    <3>1. CASE a \notin A
      BY <3>1, <1>2, <1>8 DEF AdhesionsJustes, TableDe
    <3>2. CASE a \in A
      <4> DEFINE j == CHOOSE i \in DOMAIN siens : siens[i] = a
      <4>1. j \in 1..Len(siens) BY <3>2, <1>4, <1>5
      <4>2. t[a] = Prochaine(r, j) BY <3>2
      <4> HIDE DEF j, t, siens
      <4> QED BY <4>1, <4>2, <1>7 DEF DateOuNon
    <3> QED BY <3>1, <3>2
  <2>2. DOMAIN t = DOMAIN adhesions[r] /\ t = [a \in DOMAIN adhesions[r] |-> t[a]] OBVIOUS
  <2>3. DOMAIN adhesions[r] \subseteq AdhesionDe(Emise') /\ IsFiniteSet(DOMAIN adhesions[r])
    BY <1>2, <1>8 DEF AdhesionsJustes, TableDe
  <2> HIDE DEF t
  <2> QED BY <2>1, <2>2, <2>3 DEF TableDe
<1> HIDE DEF t, ops
<1> QED BY <1>1, <1>7, <1>10, <1>11, PasDesAdhesions

LEMMA PasEcrireUnGroupe ==
  ASSUME IInv, NEW r \in Racine, NEW c, EcrireUnGroupe(r, c)
  PROVE  IInv'
<1>1. UNCHANGED <<tablesDesDomaines, droits>> BY DEF EcrireUnGroupe
<1>2. DOMAIN comptes[r] = Connus BY TousConnus DEF IInv, Locale
<1>3. \/ \E d : CreerGroupe(r, d)
      \/ \E g \in GroupesLus(r) : EtiqueterGroupe(r, g)
      \/ \E g \in GroupesLus(r) : \E x : AjouterMembre(r, g, x)
      \/ \E g \in GroupesLus(r) : \E x \in Connus : RetirerMembre(r, g, x)
  BY <1>2 DEF EcrireUnGroupe
<1> QED BY <1>1, <1>3, PasCreerGroupe, PasEtiqueterGroupe, PasAjouterMembre, PasRetirerMembre

LEMMA PasSupprimerUnGroupe ==
  ASSUME IInv, NEW r \in Racine, NEW c, SupprimerUnGroupe(r, c)
  PROVE  IInv'
<1>1. PICK g \in GroupesLus(r) :
        /\ g.sorte = "domaine" /\ SupprimerGroupe(r, g)
        /\ OublierLesDroits(r, DroitsDuGroupe(r, g))
  BY DEF SupprimerUnGroupe
<1> DEFINE e == Suivante(r)
           o == [quoi |-> "dissous", estampille |-> e, de |-> g.de]
<1>2. Marquer(r, g.de, e) /\ Journaliser(r, o) BY <1>1 DEF SupprimerGroupe
<1>3. Avance /\ e \in Emise' BY <1>2, AvanceeDUne
<1>4. g.de \in Emise' BY <1>3, GroupeType DEF Avance, GroupeDe
<1>5. g = DuDomaine(g.de) BY <1>1, GroupeType
<1> HIDE DEF e
<1>6. o \in OperationDe(Emise')
  <2>1. o \in AuxGroupes(Emise') BY <1>3, <1>4 DEF AuxGroupes
  <2> QED BY <2>1, Operations
<1>7. Voies' BY <1>2, <1>6, VoiesEcritesUne
<1>8. OublierLesDroits(r, DroitsDuGroupe(r, DuDomaine(g.de))) BY <1>1, <1>5
<1> QED BY <1>2, <1>3, <1>4, <1>7, <1>8, PasDissous DEF SupprimerUnGroupe

LEMMA ElementType ==
  ASSUME IInv, NEW r \in Racine, NEW x \in Elements(r)
  PROVE  x \in ElementDe(Emise)
<1>1. CASE \E d \in DOMAIN domaines[r] : x = LeDomaine(d)
  <2>1. PICK d \in DOMAIN domaines[r] : x = LeDomaine(d) BY <1>1
  <2> QED BY <2>1, DomaineType DEF LeDomaine, ElementDe
<1>2. CASE \E m \in DOMAIN Machines : x = LaMachine(m)
  <2>1. PICK m \in DOMAIN Machines : x = LaMachine(m) BY <1>2
  <2> QED BY <2>1, MachineEmise DEF LaMachine, ElementDe
<1>3. CASE \E c \in DOMAIN comptes[r] : x = LeCompte(c)
  <2>1. PICK c \in DOMAIN comptes[r] : x = LeCompte(c) BY <1>3
  <2>2. c \in Emise BY <2>1, TousConnus, CompteEmis DEF IInv, Locale
  <2> QED BY <2>1, <2>2 DEF LeCompte, ElementDe
<1> QED BY <1>1, <1>2, <1>3 DEF Elements

\* The rights of a root, over the stamps given after a step.
LEMMA DroitsLarges ==
  ASSUME IInv, NEW r \in Racine, Avance
  PROVE  TableDe(droits[r], Emise', DroitDe(Emise'))
<1>1. DroitDe(Emise) \subseteq DroitDe(Emise') BY RangeesLarges DEF Avance
<1> QED BY <1>1, TableLarge DEF Avance, IInv, Locale, DroitsJustes

LEMMA AdhesionsLarges ==
  ASSUME IInv, NEW r \in Racine, Avance
  PROVE  TableDe(adhesions[r], AdhesionDe(Emise'), DateOuNon(Emise'))
<1>1. /\ AdhesionDe(Emise) \subseteq AdhesionDe(Emise')
      /\ DateOuNon(Emise) \subseteq DateOuNon(Emise')
  BY RangeesLarges DEF Avance
<1> QED BY <1>1, TableLarge DEF IInv, Locale, AdhesionsJustes

LEMMA PasAccorderDroit ==
  ASSUME IInv, NEW r \in Racine, NEW c, CompteVivant(r, c), AccorderDroit(r, c)
  PROVE  IInv'
<1>1. PICK element \in Elements(r), g \in GroupesLus(r), nom \in Donnables :
        LET droit == [par |-> c, groupe |-> g, element |-> element, droit |-> nom,
                      retire |-> Aucune]
        IN
        /\ PeutEntrer(r, droit)
        /\ droits' = [droits EXCEPT ![r] = Poser(@, Suivante(r), droit)]
        /\ Journaliser(r, [quoi |-> "droit", estampille |-> Suivante(r),
                           enregistrement |-> droit])
        /\ UNCHANGED <<tablesDesDomaines, tablesDesGroupes>>
  BY DEF AccorderDroit
<1> DEFINE e == Suivante(r)
           droit == [par |-> c, groupe |-> g, element |-> element, droit |-> nom,
                     retire |-> Aucune]
           o == [quoi |-> "droit", estampille |-> e, enregistrement |-> droit]
           t == Poser(droits[r], e, droit)
<1>2. /\ droits' = [droits EXCEPT ![r] = t] /\ Journaliser(r, o)
      /\ UNCHANGED <<tablesDesDomaines, tablesDesGroupes>>
  BY <1>1
<1>3. Avance /\ e \in Emise' /\ e \notin Emise BY <1>2, AvanceeDUne
<1>4. c \in Connus /\ nom \in NomsDeDroits /\ g \in GroupeDe(Emise) /\ GroupeLa(r, g)
      /\ element \in ElementDe(Emise)
  BY TousConnus, GroupeType, ElementType, DepartJuste DEF IInv, Locale
<1>5. droit \in DroitDe(Emise') /\ droit.par = c /\ droit.groupe = g
      /\ droit.element = element
  <2>1. GroupeDe(Emise) \subseteq GroupeDe(Emise') /\ ElementDe(Emise) \subseteq ElementDe(Emise')
    BY <1>3, RangeesLarges DEF Avance
  <2>2. Aucune \in DateOuNon(Emise') BY DEF DateOuNon
  <2> QED BY <1>4, <2>1, <2>2 DEF DroitDe
<1> HIDE DEF e, droit
<1>6. o \in OperationDe(Emise')
  <2>1. o \in AuxDroits(Emise') BY <1>3, <1>5 DEF AuxDroits
  <2> QED BY <2>1, Operations
<1>7. Voies' BY <1>2, <1>6, VoiesEcritesUne
<1>8. TableDe(droits[r], Emise', DroitDe(Emise')) BY <1>3, DroitsLarges
<1>9. TableDe(t, Emise', DroitDe(Emise')) BY <1>3, <1>5, <1>8, PoseeTable
<1>10. /\ DOMAIN t = DOMAIN droits[r] \cup {e} /\ t[e] = droit
       /\ \A d \in DOMAIN droits[r] : d # e => t[d] = droits[r][d]
  BY DEF Poser
<1> HIDE DEF t, o
<1>11. ASSUME NEW d \in DOMAIN t
       PROVE  \/ /\ d \in DOMAIN droits[r] /\ t[d].par = droits[r][d].par
                 /\ t[d].groupe = droits[r][d].groupe /\ t[d].element = droits[r][d].element
              \/ /\ CompteVivant(r, t[d].par) /\ GroupeLa(r, t[d].groupe)
                 /\ t[d].element \in Elements(r)
  <2>1. CASE d = e BY <2>1, <1>4, <1>5, <1>10
  <2>2. CASE d # e BY <2>2, <1>10
  <2> QED BY <2>1, <2>2
<1> QED BY <1>2, <1>3, <1>7, <1>9, <1>11, PasDesDroits

\* The mark of a right, by a request or from the peer.
LEMMA PasDUnRetrait ==
  ASSUME IInv, NEW r \in Racine, Voies', Avance, NEW d \in DOMAIN droits[r],
         NEW e \in DateOuNon(Emise'), droits' = [droits EXCEPT ![r][d].retire = e],
         UNCHANGED <<tablesDesDomaines, tablesDesGroupes>>
  PROVE  IInv'
<1> DEFINE t == droits[r]
           rangee == [t[d] EXCEPT !.retire = e]
           u == [t EXCEPT ![d] = rangee]
<1>1. droits' = [droits EXCEPT ![r] = u] BY DEF IInv, Racines
<1>2. TableDe(t, Emise', DroitDe(Emise')) BY DroitsLarges
<1>3. /\ rangee \in DroitDe(Emise') /\ rangee.par = t[d].par
      /\ rangee.groupe = t[d].groupe /\ rangee.element = t[d].element
  <2>1. t[d] \in DroitDe(Emise') BY <1>2 DEF TableDe
  <2> QED BY <2>1 DEF DroitDe
<1> HIDE DEF rangee
<1>4. /\ TableDe(u, Emise', DroitDe(Emise')) /\ DOMAIN u = DOMAIN t /\ u[d] = rangee
      /\ \A x \in DOMAIN t : x # d => u[x] = t[x]
  <2>1. PICK S, T : S = Emise' /\ T = DroitDe(Emise') OBVIOUS
  <2>2. d \in DOMAIN t OBVIOUS
  <2> HIDE DEF t
  <2>3. TableDe(t, S, T) /\ rangee \in T BY <1>2, <1>3, <2>1
  <2>4. /\ TableDe([t EXCEPT ![d] = rangee], S, T)
        /\ DOMAIN [t EXCEPT ![d] = rangee] = DOMAIN t
        /\ [t EXCEPT ![d] = rangee][d] = rangee
        /\ \A x \in DOMAIN t : x # d => [t EXCEPT ![d] = rangee][x] = t[x]
    BY <2>2, <2>3, ChangeeTable
  <2> QED BY <2>1, <2>4
<1> HIDE DEF u
<1>5. ASSUME NEW x \in DOMAIN u
      PROVE  /\ x \in DOMAIN droits[r] /\ u[x].par = droits[r][x].par
             /\ u[x].groupe = droits[r][x].groupe /\ u[x].element = droits[r][x].element
  <2>1. CASE x = d BY <2>1, <1>3, <1>4
  <2>2. CASE x # d BY <2>2, <1>4
  <2> QED BY <2>1, <2>2
<1>6. PICK f : f = u OBVIOUS
<1>7. TableDe(f, Emise', DroitDe(Emise')) /\ droits' = [droits EXCEPT ![r] = f]
  BY <1>1, <1>4, <1>6
<1>8. \A x \in DOMAIN f :
        \/ /\ x \in DOMAIN droits[r] /\ f[x].par = droits[r][x].par
           /\ f[x].groupe = droits[r][x].groupe /\ f[x].element = droits[r][x].element
        \/ /\ CompteVivant(r, f[x].par) /\ GroupeLa(r, f[x].groupe)
           /\ f[x].element \in Elements(r)
  BY <1>5, <1>6
<1> QED BY <1>7, <1>8, PasDesDroits

LEMMA PasRetirerDroit ==
  ASSUME IInv, NEW r \in Racine, NEW c, RetirerDroit(r, c)
  PROVE  IInv'
<1> DEFINE e == Suivante(r)
<1>1. PICK d \in DOMAIN droits[r] :
        /\ droits' = [droits EXCEPT ![r][d].retire = e]
        /\ Journaliser(r, [quoi |-> "droitRetire", estampille |-> e, droit |-> d])
        /\ UNCHANGED <<tablesDesDomaines, tablesDesGroupes>>
  BY DEF RetirerDroit
<1> DEFINE o == [quoi |-> "droitRetire", estampille |-> e, droit |-> d]
<1>2. Journaliser(r, o) BY <1>1
<1>3. Avance /\ e \in Emise' BY <1>2, AvanceeDUne
<1>4. d \in Emise' /\ e \in DateOuNon(Emise')
  BY <1>3, DroitType DEF Avance, IInv, Locale, DateOuNon
<1> HIDE DEF e
<1>5. o \in OperationDe(Emise')
  <2>1. o \in AuxDroits(Emise') BY <1>3, <1>4 DEF AuxDroits
  <2> QED BY <2>1, Operations
<1>6. Voies' BY <1>2, <1>5, VoiesEcritesUne
<1> QED BY <1>1, <1>3, <1>4, <1>6, PasDUnRetrait

LEMMA PasEffacerCompte ==
  ASSUME IInv, NEW r \in Racine, NEW c \in Connus, EffacerCompte(r, c)
  PROVE  IInv'
<1> DEFINE e == Suivante(r)
           o == [quoi |-> "efface", estampille |-> e, compte |-> c]
<1>1. EffacerDans(r, c) /\ Journaliser(r, o) BY DEF EffacerCompte
<1>2. Avance /\ e \in Emise' BY <1>1, AvanceeDUne
<1> HIDE DEF e
<1>3. o \in OperationDe(Emise')
  <2>1. o \in AuxDomaines(Emise') BY <1>2 DEF AuxDomaines, DateOuNon
  <2> QED BY <2>1, Operations
<1>4. Voies' BY <1>1, <1>3, VoiesEcritesUne
<1> QED BY <1>1, <1>2, <1>4, PasDUnEffacement

LEMMA PasDemander ==
  ASSUME IInv, NEW r \in Racine, NEW c, Demander(r, c)
  PROVE  IInv'
<1>1. CompteVivant(r, c) BY DEF Demander
<1>2. c \in Connus BY <1>1, TousConnus DEF IInv, Locale
<1> QED BY <1>1, <1>2, PasEcrireUnDomaine, PasEcrireUnGroupe, PasSupprimerUnGroupe,
           PasAccorderDroit, PasRetirerDroit, PasEffacerCompte DEF Demander

-----------------------------------------------------------------------------
(* What a root applies.                                                    *)

LEMMA PasSansEffet ==
  ASSUME IInv, NEW r \in Racine, Voies', Avance, Racines', \A q \in Racine : MemesTables(q)
  PROVE  IInv'
BY LocaleReste DEF IInv

LEMMA PasAppliquerAlias ==
  ASSUME IInv, NEW r \in Racine, Voies', Avance, NEW operation, operation.compte \in Connus,
         operation.estampille \in Emise', AppliquerAlias(r, operation),
         UNCHANGED <<tablesDesGroupes, droits>>
  PROVE  IInv'
<1> DEFINE c == operation.compte
           e == PlusTard(comptes[r][c].estampille, operation.estampille)
<1>1. CASE ~CompteVivant(r, c)
  <2>1. UNCHANGED tables BY <1>1 DEF AppliquerAlias, tables, tablesDesDomaines
  <2> QED BY <2>1, PasMuet
<1>2. CASE CompteVivant(r, c)
  <2>1. comptes[r][c].estampille \in Emise' BY <1>2 DEF IInv, Locale, ComptesJustes, Avance
  <2>2. e \in Emise' BY <2>1 DEF PlusTard
  <2>3. comptes' = [comptes EXCEPT ![r][c].estampille = e] /\ UNCHANGED <<domaines, poses>>
    BY <1>2 DEF AppliquerAlias
  <2> HIDE DEF e
  <2> QED BY <1>2, <2>2, <2>3, PasDUneEstampille
<1> QED BY <1>1, <1>2

LEMMA PasAppliquerDomaine ==
  ASSUME IInv, NEW r \in Racine, Voies', Avance, NEW operation,
         operation.de \in DomaineNe(Emise'), operation.proprietaire \in Connus,
         operation.estampille = Naissance(operation.de), operation.estampille \in Emise',
         AppliquerDomaine(r, operation), UNCHANGED <<tablesDesGroupes, droits>>
  PROVE  IInv'
<1> DEFINE d == operation.de
           c == operation.proprietaire
<1>1. UNCHANGED <<comptes, poses, groupes, marques, adhesions, droits>>
  BY DEF AppliquerDomaine, tablesDesGroupes
<1>2. CASE CompteEfface(r, c) \/ d \in DOMAIN domaines[r]
  <2>1. domaines' = [domaines EXCEPT ![r] = @] BY <1>2 DEF AppliquerDomaine, Garder
  <2>2. Racines' /\ \A q \in Racine : MemesTables(q)
    BY <1>1, <2>1 DEF IInv, Racines, MemesTables
  <2> QED BY <2>2, PasSansEffet
<1>3. CASE ~CompteEfface(r, c) /\ d \notin DOMAIN domaines[r]
  <2>1. CompteVivant(r, c) BY <1>3, TousConnus DEF IInv, Locale
  <2>2. domaines' = [domaines EXCEPT ![r] = Poser(@, d, Domaine(c, Naissance(d)))]
    BY <1>3 DEF AppliquerDomaine, Garder
  <2> QED BY <1>1, <1>3, <2>1, <2>2, PasDUnDomaine
<1> QED BY <1>2, <1>3

LEMMA PremiereDate ==
  ASSUME NEW E, NEW marque \in DateOuNon(E), NEW e \in E
  PROVE  PremiereMarque(marque, e) \in E
BY DEF PremiereMarque, PlusTot, DateOuNon

LEMMA PasAppliquerSuppression ==
  ASSUME IInv, NEW r \in Racine, Voies', Avance, NEW operation,
         operation.estampille \in Emise', AppliquerDomaineSupprime(r, operation),
         UNCHANGED <<tablesDesGroupes, droits>>
  PROVE  IInv'
<1> DEFINE d == operation.de
           e == PremiereMarque(domaines[r][d].supprime, operation.estampille)
<1>1. CASE d \notin DOMAIN domaines[r]
  <2>1. UNCHANGED tables BY <1>1 DEF AppliquerDomaineSupprime, tables, tablesDesDomaines
  <2> QED BY <2>1, PasMuet
<1>2. CASE d \in DOMAIN domaines[r]
  <2>1. domaines[r][d].supprime \in DateOuNon(Emise')
    BY <1>2, DomaineType, RangeesLarges DEF Avance
  <2>2. e \in Emise' BY <2>1, PremiereDate
  <2>3. domaines' = [domaines EXCEPT ![r][d].supprime = e] /\ UNCHANGED <<comptes, poses>>
    BY <1>2 DEF AppliquerDomaineSupprime
  <2> HIDE DEF e
  <2> QED BY <1>2, <2>2, <2>3, PasDUneSuppression
<1> QED BY <1>1, <1>2

LEMMA PasAppliquerPose ==
  ASSUME IInv, NEW r \in Racine, Voies', Avance, NEW operation,
         operation.estampille \in Emise', operation.estampille.compteur <= compteur'[r],
         operation.cle \in CleDe(Emise'), operation.valeur \in DateOuNon(Emise'),
         AppliquerPose(r, operation), UNCHANGED <<tablesDesGroupes, droits>>
  PROVE  IInv'
<1> DEFINE cle == operation.cle
           e == operation.estampille
           v == operation.valeur
<1>1. UNCHANGED <<comptes, domaines, groupes, marques, adhesions, droits>>
  BY DEF AppliquerPose, tablesDesGroupes
<1>2. CASE Accueille(r, cle) /\ Remplace(poses[r], cle, e)
  <2>1. poses' = [poses EXCEPT ![r] = Poser(@, cle, [estampille |-> e, valeur |-> v])]
    BY <1>2 DEF AppliquerPose
  <2> QED BY <1>1, <1>2, <2>1, PasDUnePose
<1>3. CASE ~(Accueille(r, cle) /\ Remplace(poses[r], cle, e))
  <2>1. poses' = [poses EXCEPT ![r] = @] BY <1>3 DEF AppliquerPose
  <2>2. Racines' /\ \A q \in Racine : MemesTables(q)
    BY <1>1, <2>1 DEF IInv, Racines, MemesTables
  <2> QED BY <2>2, PasSansEffet
<1> QED BY <1>2, <1>3

LEMMA PasAppliquerGroupe ==
  ASSUME IInv, NEW r \in Racine, Voies', Avance, NEW operation,
         operation.de \in Emise', operation.domaine \in Emise', operation.etiquette \in Emise',
         AppliquerGroupe(r, operation), UNCHANGED <<tablesDesDomaines, droits>>
  PROVE  IInv'
<1> DEFINE g == operation.de
           rangee == [domaine |-> operation.domaine, etiquette |-> operation.etiquette]
<1>1. UNCHANGED <<marques, adhesions>> BY DEF AppliquerGroupe
<1>2. CASE operation.domaine \notin DOMAIN domaines[r]
  <2>1. UNCHANGED tables BY <1>1, <1>2 DEF AppliquerGroupe, tables, tablesDesGroupes
  <2> QED BY <2>1, PasMuet
<1>3. CASE operation.domaine \in DOMAIN domaines[r] /\ g \in DOMAIN groupes[r]
  <2>1. PoserLEtiquette(r, g, operation.etiquette) BY <1>3 DEF AppliquerGroupe
  <2> QED BY <1>1, <2>1, PasDUneEtiquette
<1>4. CASE operation.domaine \in DOMAIN domaines[r] /\ g \notin DOMAIN groupes[r]
  <2>1. groupes' = [groupes EXCEPT ![r] = Poser(@, g, rangee)] BY <1>4 DEF AppliquerGroupe
  <2>2. rangee \in GroupeCree(Emise') /\ rangee.domaine = operation.domaine BY DEF GroupeCree
  <2> HIDE DEF rangee
  <2> QED BY <1>1, <1>4, <2>1, <2>2, PasDesGroupes
<1> QED BY <1>2, <1>3, <1>4

\* What the table of the members becomes with one more row.
LEMMA PasDUneAdhesion ==
  ASSUME IInv, NEW r \in Racine, Voies', Avance, NEW a \in AdhesionDe(Emise'),
         CompteVivant(r, a.compte), GroupeLa(r, a.groupe), NEW v \in DateOuNon(Emise'),
         NEW t, t = Poser(adhesions[r], a, v), adhesions' = [adhesions EXCEPT ![r] = t],
         UNCHANGED <<tablesDesDomaines, groupes, marques, droits>>
  PROVE  IInv'
<1>1. TableDe(adhesions[r], AdhesionDe(Emise'), DateOuNon(Emise')) BY AdhesionsLarges
<1>2. TableDe(t, AdhesionDe(Emise'), DateOuNon(Emise')) BY <1>1, PoseeTable
<1>3. DOMAIN t = DOMAIN adhesions[r] \cup {a} BY DEF Poser
<1> QED BY <1>2, <1>3, PasDesAdhesions

LEMMA PasAppliquerMembre ==
  ASSUME IInv, NEW r \in Racine, Voies', Avance, NEW operation,
         operation.estampille \in Emise', operation.groupe \in GroupeDe(Emise'),
         operation.compte \in Connus, AppliquerGroupeMembre(r, operation),
         UNCHANGED <<tablesDesDomaines, droits>>
  PROVE  IInv'
<1> DEFINE a == [groupe |-> operation.groupe, compte |-> operation.compte,
                 ajout |-> operation.estampille]
           entre == ~CompteEfface(r, a.compte) /\ PeutRecevoir(r, a.groupe)
           t == Poser(adhesions[r], a, Aucune)
<1>1. /\ adhesions' = [adhesions EXCEPT ![r] = IF entre THEN Garder(@, a, Aucune) ELSE @]
      /\ UNCHANGED <<groupes, marques>>
  BY DEF AppliquerGroupeMembre
<1>2. /\ a \in AdhesionDe(Emise') /\ a.groupe = operation.groupe /\ a.compte = operation.compte
      /\ Aucune \in DateOuNon(Emise')
  BY DEF AdhesionDe, DateOuNon
<1> HIDE DEF a
<1>3. CASE ~entre \/ a \in DOMAIN adhesions[r]
  <2>1. adhesions' = [adhesions EXCEPT ![r] = @] BY <1>1, <1>3 DEF Garder
  <2>2. Racines' /\ \A q \in Racine : MemesTables(q)
    BY <1>1, <2>1 DEF IInv, Racines, MemesTables, tablesDesDomaines
  <2> QED BY <2>2, PasSansEffet
<1>4. CASE entre /\ a \notin DOMAIN adhesions[r]
  <2>1. adhesions' = [adhesions EXCEPT ![r] = t] BY <1>1, <1>4 DEF Garder
  <2>2. CompteVivant(r, a.compte) BY <1>2, <1>4, TousConnus DEF IInv, Locale
  <2>3. GroupeLa(r, a.groupe) BY <1>4 DEF PeutRecevoir, GroupeLa
  <2> HIDE DEF t
  <2> QED BY <1>1, <1>2, <2>1, <2>2, <2>3, PasDUneAdhesion DEF t
<1> QED BY <1>3, <1>4

LEMMA PasAppliquerRetrait ==
  ASSUME IInv, NEW r \in Racine, Voies', Avance, NEW operation,
         operation.estampille \in Emise', operation.groupe \in GroupeDe(Emise'),
         operation.compte \in Connus, operation.ajout \in Emise',
         AppliquerGroupeMembreRetire(r, operation), UNCHANGED <<tablesDesDomaines, droits>>
  PROVE  IInv'
<1> DEFINE a == [groupe |-> operation.groupe, compte |-> operation.compte,
                 ajout |-> operation.ajout]
           entre == /\ ~CompteEfface(r, a.compte) /\ PeutRecevoir(r, a.groupe)
                    /\ a.compte \notin DOffice(r, a.groupe)
           marque == IF a \in DOMAIN adhesions[r] THEN adhesions[r][a] ELSE Aucune
           v == PremiereMarque(marque, operation.estampille)
           t == Poser(adhesions[r], a, v)
<1>1. /\ adhesions' = [adhesions EXCEPT ![r] = IF entre THEN t ELSE @]
      /\ UNCHANGED <<groupes, marques>>
  BY DEF AppliquerGroupeMembreRetire
<1>2. a \in AdhesionDe(Emise') /\ a.groupe = operation.groupe /\ a.compte = operation.compte
  BY DEF AdhesionDe
<1> HIDE DEF a
<1>3. CASE ~entre
  <2>1. adhesions' = [adhesions EXCEPT ![r] = @] BY <1>1, <1>3
  <2>2. Racines' /\ \A q \in Racine : MemesTables(q)
    BY <1>1, <2>1 DEF IInv, Racines, MemesTables, tablesDesDomaines
  <2> QED BY <2>2, PasSansEffet
<1>4. CASE entre
  <2>1. adhesions' = [adhesions EXCEPT ![r] = t] BY <1>1, <1>4
  <2>2. CompteVivant(r, a.compte) BY <1>2, <1>4, TousConnus DEF IInv, Locale
  <2>3. GroupeLa(r, a.groupe) BY <1>4 DEF PeutRecevoir, GroupeLa
  <2>4. marque \in DateOuNon(Emise')
    BY AdhesionsLarges DEF TableDe, DateOuNon
  <2> HIDE DEF marque
  <2>5. v \in DateOuNon(Emise') BY <2>4, PremiereDate DEF DateOuNon
  <2> HIDE DEF t, v
  <2> QED BY <1>1, <1>2, <2>1, <2>2, <2>3, <2>5, PasDUneAdhesion DEF t
<1> QED BY <1>3, <1>4

LEMMA PasAppliquerDroit ==
  ASSUME IInv, NEW r \in Racine, Voies', Avance, NEW operation,
         operation.estampille \in Emise', operation.enregistrement \in DroitDe(Emise'),
         AppliquerDroit(r, operation)
  PROVE  IInv'
<1> DEFINE e == operation.estampille
           droit == operation.enregistrement
           t == Poser(droits[r], e, droit)
<1>1. /\ droits' = [droits EXCEPT ![r] = IF PeutEntrer(r, droit) THEN Garder(@, e, droit) ELSE @]
      /\ UNCHANGED <<tablesDesDomaines, tablesDesGroupes>>
  BY DEF AppliquerDroit
<1>2. CASE ~PeutEntrer(r, droit) \/ e \in DOMAIN droits[r]
  <2>1. droits' = [droits EXCEPT ![r] = @] BY <1>1, <1>2 DEF Garder
  <2>2. Racines' /\ \A q \in Racine : MemesTables(q)
    BY <1>1, <2>1 DEF IInv, Racines, MemesTables, tablesDesDomaines, tablesDesGroupes
  <2> QED BY <2>2, PasSansEffet
<1>3. CASE PeutEntrer(r, droit) /\ e \notin DOMAIN droits[r]
  <2>1. droits' = [droits EXCEPT ![r] = t] BY <1>1, <1>3 DEF Garder
  <2>2. droit.par \in Connus BY DEF DroitDe
  <2>3. /\ CompteVivant(r, droit.par) /\ GroupeLa(r, droit.groupe)
        /\ droit.element \in Elements(r)
    BY <1>3, <2>2, TousConnus DEF PeutEntrer, GroupeLa, IInv, Locale
  <2>4. TableDe(droits[r], Emise', DroitDe(Emise')) BY DroitsLarges
  <2>5. TableDe(t, Emise', DroitDe(Emise')) BY <2>4, PoseeTable
  <2>6. /\ DOMAIN t = DOMAIN droits[r] \cup {e} /\ t[e] = droit
        /\ \A d \in DOMAIN droits[r] : d # e => t[d] = droits[r][d]
    BY DEF Poser
  <2> HIDE DEF t, e, droit
  <2>7. ASSUME NEW d \in DOMAIN t
        PROVE  \/ /\ d \in DOMAIN droits[r] /\ t[d].par = droits[r][d].par
                  /\ t[d].groupe = droits[r][d].groupe /\ t[d].element = droits[r][d].element
               \/ /\ CompteVivant(r, t[d].par) /\ GroupeLa(r, t[d].groupe)
                  /\ t[d].element \in Elements(r)
    <3>1. CASE d = e BY <3>1, <2>3, <2>6
    <3>2. CASE d # e BY <3>2, <2>6
    <3> QED BY <3>1, <3>2
  <2> QED BY <1>1, <2>1, <2>5, <2>7, PasDesDroits
<1> QED BY <1>2, <1>3

LEMMA PasAppliquerDroitRetire ==
  ASSUME IInv, NEW r \in Racine, Voies', Avance, NEW operation,
         operation.estampille \in Emise', AppliquerDroitRetire(r, operation)
  PROVE  IInv'
<1> DEFINE d == operation.droit
           e == PremiereMarque(droits[r][d].retire, operation.estampille)
<1>1. UNCHANGED <<tablesDesDomaines, tablesDesGroupes>> BY DEF AppliquerDroitRetire
<1>2. CASE d \notin DOMAIN droits[r]
  <2>1. UNCHANGED tables BY <1>1, <1>2 DEF AppliquerDroitRetire, tables
  <2> QED BY <2>1, PasMuet
<1>3. CASE d \in DOMAIN droits[r]
  <2>1. droits[r][d].retire \in DateOuNon(Emise')
    BY <1>3, DroitType, RangeesLarges DEF Avance, IInv, Locale
  <2>2. e \in DateOuNon(Emise') BY <2>1, PremiereDate DEF DateOuNon
  <2>3. droits' = [droits EXCEPT ![r][d].retire = e] BY <1>3 DEF AppliquerDroitRetire
  <2> HIDE DEF e
  <2> QED BY <1>1, <1>3, <2>2, <2>3, PasDUnRetrait
<1> QED BY <1>2, <1>3

\* The fields of what is applied, over the stamps given after the step.
LEMMA PasRecevoir ==
  ASSUME IInv, NEW r \in Racine, Recevoir(r)
  PROVE  IInv'
<1> DEFINE operation == Head(enRoute[r])
           E == Emise'
<1>1. /\ Voies' /\ Avance /\ operation \in OperationDe(Emise)
      /\ operation.estampille.compteur <= compteur'[r]
  BY Recue DEF Recevoir
<1>2. operation \in OperationDe(E) BY <1>1, Larges DEF Avance
<1>3. \/ AppliquerAuxDomaines(r, operation) \/ AppliquerAuxGroupes(r, operation)
      \/ /\ operation.quoi = "dissous" /\ AppliquerGroupeSupprime(r, operation)
         /\ OublierLesDroits(r, DroitsDuGroupe(r, DuDomaine(operation.de)))
         /\ UNCHANGED tablesDesDomaines
      \/ operation.quoi = "droit"       /\ AppliquerDroit(r, operation)
      \/ operation.quoi = "droitRetire" /\ AppliquerDroitRetire(r, operation)
      \/ operation.quoi = "efface"      /\ AppliquerCompteEfface(r, operation)
      \/ operation.quoi = "fin"         /\ UNCHANGED tables
  BY DEF Recevoir
<1> HIDE DEF operation, E
<1>4. /\ operation.quoi \in {"compte", "efface", "alias", "domaine", "supprime", "pose", "fin"}
           => operation \in AuxDomaines(E)
      /\ operation.quoi \in {"groupe", "etiquette", "dissous", "membre", "retire"}
           => operation \in AuxGroupes(E)
      /\ operation.quoi \in {"droit", "droitRetire"} => operation \in AuxDroits(E)
  <2>1. CASE operation \in AuxDomaines(E)
    <3>1. operation.quoi \in {"compte", "efface", "alias", "domaine", "supprime", "pose", "fin"}
      BY <2>1, ChampsDomaines
    <3> QED BY <2>1, <3>1
  <2>2. CASE operation \in AuxGroupes(E)
    <3>1. operation.quoi \in {"groupe", "etiquette", "dissous", "membre", "retire"}
      BY <2>2, ChampsGroupes
    <3> QED BY <2>2, <3>1
  <2>3. CASE operation \in AuxDroits(E)
    <3>1. operation.quoi \in {"droit", "droitRetire"} BY <2>3, ChampsDroits
    <3> QED BY <2>3, <3>1
  <2> QED BY <1>2, <2>1, <2>2, <2>3 DEF OperationDe
<1>5. CASE AppliquerAuxDomaines(r, operation)
  <2>1. UNCHANGED <<tablesDesGroupes, droits>> BY <1>5 DEF AppliquerAuxDomaines
  <2>2. operation \in AuxDomaines(E) BY <1>4, <1>5 DEF AppliquerAuxDomaines
  <2>3. CASE operation.quoi = "compte" /\ AppliquerCompte(r, operation)
    <3>1. operation.compte \in Connus BY <2>2, <2>3, ChampsDomaines
    <3>2. operation.compte \in DOMAIN comptes[r] BY <3>1, TousConnus DEF IInv, Locale
    <3>3. UNCHANGED tables BY <2>1, <2>3, <3>2 DEF AppliquerCompte, tables
    <3> QED BY <1>1, <3>3, PasMuet
  <2>4. CASE operation.quoi = "alias" /\ AppliquerAlias(r, operation)
    <3>1. operation.compte \in Connus /\ operation.estampille \in E
      BY <2>2, <2>4, ChampsDomaines
    <3> QED BY <1>1, <2>1, <2>4, <3>1, PasAppliquerAlias DEF E
  <2>5. CASE operation.quoi = "domaine" /\ AppliquerDomaine(r, operation)
    <3>1. /\ operation.de \in DomaineNe(E) /\ operation.proprietaire \in Connus
          /\ operation.estampille = Naissance(operation.de) /\ operation.estampille \in E
      BY <2>2, <2>5, ChampsDomaines
    <3> QED BY <1>1, <2>1, <2>5, <3>1, PasAppliquerDomaine DEF E
  <2>6. CASE operation.quoi = "supprime" /\ AppliquerDomaineSupprime(r, operation)
    <3>1. operation.estampille \in E BY <2>2, <2>6, ChampsDomaines
    <3> QED BY <1>1, <2>1, <2>6, <3>1, PasAppliquerSuppression DEF E
  <2>7. CASE operation.quoi = "pose" /\ AppliquerPose(r, operation)
    <3>1. /\ operation.estampille \in E /\ operation.cle \in CleDe(E)
          /\ operation.valeur \in DateOuNon(E)
      BY <2>2, <2>7, ChampsDomaines
    <3> QED BY <1>1, <2>1, <2>7, <3>1, PasAppliquerPose DEF E
  <2> QED BY <1>5, <2>3, <2>4, <2>5, <2>6, <2>7 DEF AppliquerAuxDomaines
<1>6. CASE AppliquerAuxGroupes(r, operation)
  <2>1. UNCHANGED <<tablesDesDomaines, droits>> BY <1>6 DEF AppliquerAuxGroupes
  <2>2. operation \in AuxGroupes(E) /\ operation.estampille \in E
    BY <1>4, <1>6, ChampsGroupes DEF AppliquerAuxGroupes
  <2>3. CASE operation.quoi = "groupe" /\ AppliquerGroupe(r, operation)
    <3>1. operation.de \in E /\ operation.domaine \in E /\ operation.etiquette \in E
      BY <2>2, <2>3, ChampsGroupes
    <3> QED BY <1>1, <2>1, <2>3, <3>1, PasAppliquerGroupe DEF E
  <2>4. CASE operation.quoi = "etiquette" /\ AppliquerGroupeEtiquette(r, operation)
    <3>1. PoserLEtiquette(r, operation.de, operation.estampille)
          /\ UNCHANGED <<marques, adhesions>>
      BY <2>4 DEF AppliquerGroupeEtiquette
    <3> QED BY <1>1, <2>1, <2>2, <3>1, PasDUneEtiquette DEF E
  <2>5. CASE operation.quoi = "membre" /\ AppliquerGroupeMembre(r, operation)
    <3>1. operation.groupe \in GroupeDe(E) /\ operation.compte \in Connus
      BY <2>2, <2>5, ChampsGroupes
    <3> QED BY <1>1, <2>1, <2>2, <2>5, <3>1, PasAppliquerMembre DEF E
  <2>6. CASE operation.quoi = "retire" /\ AppliquerGroupeMembreRetire(r, operation)
    <3>1. /\ operation.groupe \in GroupeDe(E) /\ operation.compte \in Connus
          /\ operation.ajout \in E
      BY <2>2, <2>6, ChampsGroupes
    <3> QED BY <1>1, <2>1, <2>2, <2>6, <3>1, PasAppliquerRetrait DEF E
  <2> QED BY <1>6, <2>3, <2>4, <2>5, <2>6 DEF AppliquerAuxGroupes
<1>7. CASE /\ operation.quoi = "dissous" /\ AppliquerGroupeSupprime(r, operation)
           /\ OublierLesDroits(r, DroitsDuGroupe(r, DuDomaine(operation.de)))
           /\ UNCHANGED tablesDesDomaines
  <2>1. operation.de \in E /\ operation.estampille \in E BY <1>4, <1>7, ChampsGroupes
  <2>2. Marquer(r, operation.de, operation.estampille) BY <1>7 DEF AppliquerGroupeSupprime
  <2> QED BY <1>1, <1>7, <2>1, <2>2, PasDissous DEF E
<1>8. CASE operation.quoi = "droit" /\ AppliquerDroit(r, operation)
  <2>1. operation.estampille \in E /\ operation.enregistrement \in DroitDe(E)
    BY <1>4, <1>8, ChampsDroits
  <2> QED BY <1>1, <1>8, <2>1, PasAppliquerDroit DEF E
<1>9. CASE operation.quoi = "droitRetire" /\ AppliquerDroitRetire(r, operation)
  <2>1. operation.estampille \in E BY <1>4, <1>9, ChampsDroits
  <2> QED BY <1>1, <1>9, <2>1, PasAppliquerDroitRetire DEF E
<1>10. CASE operation.quoi = "efface" /\ AppliquerCompteEfface(r, operation)
  <2>1. operation.compte \in Connus BY <1>4, <1>10, ChampsDomaines
  <2>2. CASE CompteEfface(r, operation.compte)
    BY <1>1, <1>10, <2>2, PasMuet DEF AppliquerCompteEfface
  <2>3. CASE ~CompteEfface(r, operation.compte)
    <3>1. EffacerDans(r, operation.compte) BY <1>10, <2>3 DEF AppliquerCompteEfface
    <3> QED BY <1>1, <2>1, <3>1, PasDUnEffacement
  <2> QED BY <2>2, <2>3
<1>11. CASE operation.quoi = "fin" /\ UNCHANGED tables BY <1>1, <1>11, PasMuet
<1> QED BY <1>3, <1>5, <1>6, <1>7, <1>8, <1>9, <1>10, <1>11

-----------------------------------------------------------------------------
(* A snapshot.                                                             *)

\* One operation for each element of a finite set.
LEMMA SuiteDite ==
  ASSUME NEW S, IsFiniteSet(S), NEW T, NEW g \in [S -> T], NEW d,
         d = [i \in DOMAIN SetToSeq(S) |-> g[SetToSeq(S)[i]]]
  PROVE  d \in Seq(T)
<1> DEFINE tous == SetToSeq(S)
           n == Cardinality(S)
<1>1. n \in Nat /\ tous \in [1..n -> S] BY SuiteDe
<1>2. d = [i \in DOMAIN tous |-> g[tous[i]]] OBVIOUS
<1> HIDE DEF tous, n
<1>3. d \in [1..n -> T] BY <1>1, <1>2
<1> QED BY <1>1, <1>3

LEMMA SuiteLue ==
  ASSUME NEW S, IsFiniteSet(S)
  PROVE  \A i \in DOMAIN SetToSeq(S) : SetToSeq(S)[i] \in S
BY SuiteDe

LEMMA DitsComptes ==
  ASSUME IInv, NEW q \in Racine, NEW d,
         d = [i \in DOMAIN SetToSeq(DOMAIN comptes[q]) |->
                [quoi |-> IF CompteEfface(q, SetToSeq(DOMAIN comptes[q])[i])
                            THEN "efface" ELSE "compte",
                 estampille |-> comptes[q][SetToSeq(DOMAIN comptes[q])[i]].estampille,
                 compte |-> SetToSeq(DOMAIN comptes[q])[i]]]
  PROVE  d \in Seq(OperationDe(Emise))
<1> DEFINE S == DOMAIN comptes[q]
           g == [c \in S |-> [quoi |-> IF CompteEfface(q, c) THEN "efface" ELSE "compte",
                              estampille |-> comptes[q][c].estampille, compte |-> c]]
           T == OperationDe(Emise)
<1>1. ComptesJustes(q) /\ S = Connus BY TousConnus DEF IInv, Locale
<1>2. IsFiniteSet(S) BY <1>1, DepartJuste DEF Connus, TableDe
<1>3. g \in [S -> T]
  <2> SUFFICES ASSUME NEW c \in S PROVE g[c] \in T OBVIOUS
  <2>1. c \in Connus /\ comptes[q][c].estampille \in DateOuNon(Emise)
    BY <1>1 DEF ComptesJustes, CompteDe
  <2>2. g[c] \in AuxDomaines(Emise) BY <2>1 DEF AuxDomaines
  <2> QED BY <2>2, Operations
<1>4. d = [i \in DOMAIN SetToSeq(S) |-> g[SetToSeq(S)[i]]] BY <1>2, SuiteLue
<1> HIDE DEF S, g, T
<1> QED BY <1>2, <1>3, <1>4, SuiteDite DEF T

LEMMA DitsDomaines ==
  ASSUME IInv, NEW q \in Racine
  PROVE  DitsDesDomaines(q) \in Seq(OperationDe(Emise))
<1> DEFINE T == OperationDe(Emise)
           S == DOMAIN domaines[q]
           M == {d \in DOMAIN domaines[q] : domaines[q][d].supprime # Aucune}
           g == [d \in S |-> [quoi |-> "domaine", estampille |-> domaines[q][d].estampille,
                              de |-> d, proprietaire |-> domaines[q][d].proprietaire]]
           h == [d \in M |-> [quoi |-> "supprime", estampille |-> domaines[q][d].supprime,
                              de |-> d]]
           a == [i \in DOMAIN SetToSeq(S) |->
                   [quoi |-> "domaine", estampille |-> domaines[q][SetToSeq(S)[i]].estampille,
                    de |-> SetToSeq(S)[i],
                    proprietaire |-> domaines[q][SetToSeq(S)[i]].proprietaire]]
           b == [i \in DOMAIN SetToSeq(M) |->
                   [quoi |-> "supprime", estampille |-> domaines[q][SetToSeq(M)[i]].supprime,
                    de |-> SetToSeq(M)[i]]]
<1>1. DitsDesDomaines(q) = a \o b BY DEF DitsDesDomaines
<1>2. IsFiniteSet(S) /\ M \subseteq S BY DEF IInv, Locale, DomainesJustes, TableDe
<1>3. IsFiniteSet(M) BY <1>2, FS_Subset
<1>4. g \in [S -> T]
  <2> SUFFICES ASSUME NEW d \in S PROVE g[d] \in T OBVIOUS
  <2>1. /\ d \in DomaineNe(Emise) /\ domaines[q][d].proprietaire \in Connus
        /\ domaines[q][d].estampille \in Emise /\ domaines[q][d].estampille = Naissance(d)
    BY DomaineType
  <2>2. g[d] = [quoi |-> "domaine", estampille |-> domaines[q][d].estampille, de |-> d,
                proprietaire |-> domaines[q][d].proprietaire]
    OBVIOUS
  <2> HIDE DEF g
  <2>3. g[d] \in AuxDomaines(Emise) BY <2>1, <2>2 DEF AuxDomaines
  <2> QED BY <2>3, Operations
<1>5. h \in [M -> T]
  <2> SUFFICES ASSUME NEW d \in M PROVE h[d] \in T OBVIOUS
  <2>1. d \in Emise /\ domaines[q][d].supprime \in Emise
    BY DomaineType DEF DateOuNon
  <2>2. h[d] = [quoi |-> "supprime", estampille |-> domaines[q][d].supprime, de |-> d]
    OBVIOUS
  <2> HIDE DEF h
  <2>3. h[d] \in AuxDomaines(Emise) BY <2>1, <2>2 DEF AuxDomaines
  <2> QED BY <2>3, Operations
<1>6. /\ \A i \in DOMAIN SetToSeq(S) : SetToSeq(S)[i] \in S
      /\ \A i \in DOMAIN SetToSeq(M) : SetToSeq(M)[i] \in M
  BY <1>2, <1>3, SuiteLue
<1>7. a = [i \in DOMAIN SetToSeq(S) |-> g[SetToSeq(S)[i]]]
  <2> HIDE DEF S
  <2> QED BY <1>6
<1>8. b = [i \in DOMAIN SetToSeq(M) |-> h[SetToSeq(M)[i]]]
  <2> HIDE DEF M
  <2> QED BY <1>6
<1> HIDE DEF S, M, g, h, T, a, b
<1>9. a \in Seq(T) BY <1>2, <1>4, <1>7, SuiteDite
<1>10. b \in Seq(T) BY <1>3, <1>5, <1>8, SuiteDite
<1>11. a \o b \in Seq(T) BY <1>9, <1>10
<1> QED BY <1>1, <1>11 DEF T

LEMMA DitsAdhesion ==
  ASSUME IInv, NEW q \in Racine, NEW a \in DOMAIN adhesions[q], NEW d,
         d = LET membre == [quoi |-> "membre", estampille |-> a.ajout, groupe |-> a.groupe,
                            compte |-> a.compte]
             IN IF adhesions[q][a] = Aucune THEN <<membre>>
                  ELSE <<membre, [quoi |-> "retire", estampille |-> adhesions[q][a],
                                  groupe |-> a.groupe, compte |-> a.compte,
                                  ajout |-> a.ajout]>>
  PROVE  d \in Seq(OperationDe(Emise))
<1> DEFINE T == OperationDe(Emise)
           m == [quoi |-> "membre", estampille |-> a.ajout, groupe |-> a.groupe,
                 compte |-> a.compte]
           o == [quoi |-> "retire", estampille |-> adhesions[q][a],
                 groupe |-> a.groupe, compte |-> a.compte, ajout |-> a.ajout]
<1>1. /\ a.ajout \in Emise /\ a.groupe \in GroupeDe(Emise) /\ a.compte \in Connus
      /\ adhesions[q][a] \in DateOuNon(Emise)
  BY DEF IInv, Locale, AdhesionsJustes, TableDe, AdhesionDe
<1>2. m \in T
  <2>1. m \in AuxGroupes(Emise) BY <1>1 DEF AuxGroupes
  <2> QED BY <2>1, Operations
<1>3. adhesions[q][a] # Aucune => o \in T
  <2> SUFFICES ASSUME adhesions[q][a] # Aucune PROVE o \in T OBVIOUS
  <2>1. adhesions[q][a] \in Emise BY <1>1 DEF DateOuNon
  <2>2. o \in AuxGroupes(Emise) BY <1>1, <2>1 DEF AuxGroupes
  <2> QED BY <2>2, Operations
<1>4. d = IF adhesions[q][a] = Aucune THEN <<m>> ELSE <<m, o>> OBVIOUS
<1>5. PICK x, y : x = m /\ y = o OBVIOUS
<1>6. d = IF adhesions[q][a] = Aucune THEN <<x>> ELSE <<x, y>> BY <1>4, <1>5
<1>7. x \in T /\ (adhesions[q][a] # Aucune => y \in T) BY <1>2, <1>3, <1>5
<1> HIDE DEF T
<1>8. <<x>> \in Seq(T) BY <1>7
<1>9. adhesions[q][a] # Aucune => <<x, y>> \in Seq(T) BY <1>7
<1> QED BY <1>6, <1>8, <1>9 DEF T

LEMMA DitsGroupes ==
  ASSUME IInv, NEW q \in Racine
  PROVE  DitsDesGroupes(q) \in Seq(OperationDe(Emise))
<1> DEFINE T == OperationDe(Emise)
           S == DOMAIN groupes[q]
           M == DOMAIN marques[q]
           A == DOMAIN adhesions[q]
           g == [x \in S |-> [quoi |-> "groupe", estampille |-> x, de |-> x,
                              domaine |-> groupes[q][x].domaine,
                              etiquette |-> groupes[q][x].etiquette]]
           h == [x \in M |-> [quoi |-> "dissous", estampille |-> marques[q][x], de |-> x]]
           dite(a) == LET membre == [quoi |-> "membre", estampille |-> a.ajout,
                                     groupe |-> a.groupe, compte |-> a.compte]
                      IN IF adhesions[q][a] = Aucune THEN <<membre>>
                           ELSE <<membre, [quoi |-> "retire", estampille |-> adhesions[q][a],
                                           groupe |-> a.groupe, compte |-> a.compte,
                                           ajout |-> a.ajout]>>
           k == [a \in A |-> dite(a)]
           b1 == [i \in DOMAIN SetToSeq(S) |->
                    [quoi |-> "groupe", estampille |-> SetToSeq(S)[i], de |-> SetToSeq(S)[i],
                     domaine |-> groupes[q][SetToSeq(S)[i]].domaine,
                     etiquette |-> groupes[q][SetToSeq(S)[i]].etiquette]]
           b2 == [i \in DOMAIN SetToSeq(M) |->
                    [quoi |-> "dissous", estampille |-> marques[q][SetToSeq(M)[i]],
                     de |-> SetToSeq(M)[i]]]
           b3 == [i \in DOMAIN SetToSeq(A) |-> dite(SetToSeq(A)[i])]
<1>1. DitsDesGroupes(q) = b1 \o b2 \o FlattenSeq(b3) BY DEF DitsDesGroupes
<1>2. GroupesJustes(q) /\ AdhesionsJustes(q) BY DEF IInv, Locale
<1>3. IsFiniteSet(S) /\ IsFiniteSet(M) /\ IsFiniteSet(A)
  BY <1>2 DEF GroupesJustes, AdhesionsJustes, TableDe
<1>4. g \in [S -> T]
  <2> SUFFICES ASSUME NEW x \in S PROVE g[x] \in T OBVIOUS
  <2>1. x \in Emise /\ groupes[q][x].domaine \in Emise /\ groupes[q][x].etiquette \in Emise
    BY <1>2 DEF GroupesJustes, TableDe, GroupeCree
  <2>2. g[x] \in AuxGroupes(Emise) BY <2>1 DEF AuxGroupes
  <2> QED BY <2>2, Operations
<1>5. h \in [M -> T]
  <2> SUFFICES ASSUME NEW x \in M PROVE h[x] \in T OBVIOUS
  <2>1. x \in Emise /\ marques[q][x] \in Emise BY <1>2 DEF GroupesJustes, TableDe
  <2>2. h[x] \in AuxGroupes(Emise) BY <2>1 DEF AuxGroupes
  <2> QED BY <2>2, Operations
<1>6. k \in [A -> Seq(T)]
  <2> SUFFICES ASSUME NEW a \in A PROVE dite(a) \in Seq(T) OBVIOUS
  <2> QED BY DitsAdhesion
<1>7. /\ \A i \in DOMAIN SetToSeq(S) : SetToSeq(S)[i] \in S
      /\ \A i \in DOMAIN SetToSeq(M) : SetToSeq(M)[i] \in M
      /\ \A i \in DOMAIN SetToSeq(A) : SetToSeq(A)[i] \in A
  BY <1>3, SuiteLue
<1> HIDE DEF S, M, A
<1>8. b1 = [i \in DOMAIN SetToSeq(S) |-> g[SetToSeq(S)[i]]] BY <1>7
<1>9. b2 = [i \in DOMAIN SetToSeq(M) |-> h[SetToSeq(M)[i]]] BY <1>7
<1>10. b3 = [i \in DOMAIN SetToSeq(A) |-> k[SetToSeq(A)[i]]]
  <2> HIDE DEF dite
  <2> QED BY <1>7
<1> HIDE DEF g, h, k, T, b1, b2, b3
<1>11. b1 \in Seq(T) BY <1>3, <1>4, <1>8, SuiteDite
<1>12. b2 \in Seq(T) BY <1>3, <1>5, <1>9, SuiteDite
<1>13. b3 \in Seq(Seq(T)) BY <1>3, <1>6, <1>10, SuiteDite
<1>14. FlattenSeq(b3) \in Seq(T) BY <1>13, Aplatie
<1>15. b1 \o b2 \o FlattenSeq(b3) \in Seq(T)
  <2>1. b1 \o b2 \in Seq(T) BY <1>11, <1>12
  <2> QED BY <2>1, <1>14
<1> QED BY <1>1, <1>15 DEF T

LEMMA DitsDroits ==
  ASSUME IInv, NEW q \in Racine, NEW d,
         d = [i \in DOMAIN SetToSeq(DOMAIN droits[q]) |->
                [quoi |-> "droit", estampille |-> SetToSeq(DOMAIN droits[q])[i],
                 enregistrement |-> droits[q][SetToSeq(DOMAIN droits[q])[i]]]]
  PROVE  d \in Seq(OperationDe(Emise))
<1> DEFINE S == DOMAIN droits[q]
           g == [x \in S |-> [quoi |-> "droit", estampille |-> x,
                              enregistrement |-> droits[q][x]]]
           T == OperationDe(Emise)
<1>1. DroitsJustes(q) /\ IsFiniteSet(S) BY DEF IInv, Locale, DroitsJustes, TableDe
<1>2. g \in [S -> T]
  <2> SUFFICES ASSUME NEW x \in S PROVE g[x] \in T OBVIOUS
  <2>1. x \in Emise /\ droits[q][x] \in DroitDe(Emise) BY <1>1, DroitType
  <2>2. g[x] \in AuxDroits(Emise) BY <2>1 DEF AuxDroits
  <2> QED BY <2>2, Operations
<1>3. d = [i \in DOMAIN SetToSeq(S) |-> g[SetToSeq(S)[i]]] BY <1>1, SuiteLue
<1> HIDE DEF S, g, T
<1> QED BY <1>1, <1>2, <1>3, SuiteDite DEF T

LEMMA DitsPoses ==
  ASSUME IInv, NEW q \in Racine
  PROVE  DitsDesPoses(q) \in Seq(OperationDe(Emise))
<1> DEFINE S == DOMAIN poses[q]
           g == [x \in S |-> Pose(x, poses[q][x].valeur, poses[q][x].estampille)]
           T == OperationDe(Emise)
<1>1. PosesJustes(q) /\ IsFiniteSet(S) BY DEF IInv, Locale, PosesJustes, TableDe
<1>2. g \in [S -> T]
  <2> SUFFICES ASSUME NEW x \in S PROVE g[x] \in T OBVIOUS
  <2>1. /\ x \in CleDe(Emise) /\ poses[q][x].valeur \in DateOuNon(Emise)
        /\ poses[q][x].estampille \in Emise
    BY <1>1 DEF PosesJustes, TableDe, PoseDe
  <2>2. g[x] \in AuxDomaines(Emise) BY <2>1 DEF Pose, AuxDomaines
  <2> QED BY <2>2, Operations
<1>3. DitsDesPoses(q) = [i \in DOMAIN SetToSeq(S) |-> g[SetToSeq(S)[i]]]
  BY <1>1, SuiteLue DEF DitsDesPoses
<1> HIDE DEF S, g, T
<1> QED BY <1>1, <1>2, <1>3, SuiteDite DEF T

LEMMA Instantanee ==
  ASSUME IInv, NEW q \in Racine
  PROVE  Instantane(q) \in Seq(OperationDe(Emise))
<1> DEFINE T == OperationDe(Emise)
           C == SetToSeq(DOMAIN comptes[q])
           D == SetToSeq(DOMAIN droits[q])
           a == [i \in DOMAIN C |->
                   [quoi |-> IF CompteEfface(q, C[i]) THEN "efface" ELSE "compte",
                    estampille |-> comptes[q][C[i]].estampille, compte |-> C[i]]]
           b == DitsDesDomaines(q)
           c == DitsDesGroupes(q)
           d == [i \in DOMAIN D |->
                   [quoi |-> "droit", estampille |-> D[i], enregistrement |-> droits[q][D[i]]]]
           e == DitsDesPoses(q)
<1>1. Instantane(q) = a \o b \o c \o d \o e BY DEF Instantane
<1>2. a \in Seq(T) BY DitsComptes
<1>3. b \in Seq(T) BY DitsDomaines
<1>4. c \in Seq(T) BY DitsGroupes
<1>5. d \in Seq(T) BY DitsDroits
<1>6. e \in Seq(T) BY DitsPoses
<1> HIDE DEF T, a, b, c, d, e
<1>7. a \o b \in Seq(T) BY <1>2, <1>3
<1>8. a \o b \o c \in Seq(T) BY <1>7, <1>4
<1>9. a \o b \o c \o d \in Seq(T) BY <1>8, <1>5
<1> QED BY <1>1, <1>9, <1>6 DEF T

\* The snapshot replaces the queue of the root that reads it, and nothing else.
LEMMA PasAmorcer ==
  ASSUME IInv, NEW r \in Racine, Amorcer(r)
  PROVE  IInv'
<1> DEFINE q == Pair[r]
           T == OperationDe(Emise)
           instantane == Instantane(q)
<1>1. q \in Racine /\ AmorcerPar(r, instantane) /\ UNCHANGED tables
  BY RepliqueAssumption DEF Amorcer
<1>2. instantane \in Seq(T) BY <1>1, Instantanee
<1>3. /\ compteur \in [Racine -> Nat] /\ amorcages \in Nat /\ enRoute \in [Racine -> Seq(T)]
      /\ \A x \in Racine : Depart.compteur <= compteur[x]
  BY DEF IInv, Voies
<1>4. Fin(q) \in T
  <2>1. Fin(q).estampille \in Emise BY <1>1, <1>3, FinEmise
  <2>2. Fin(q) \in AuxDomaines(Emise) BY <2>1 DEF Fin, AuxDomaines
  <2> QED BY <2>2, Operations
<1> HIDE DEF T, instantane
<1>5. /\ enRoute' \in [Racine -> Seq(T)] /\ amorcages' \in Nat /\ compteur' = compteur
  BY <1>1, <1>2, <1>3, <1>4, Amorcee
<1>6. Emise' = Emise BY <1>5 DEF Emise
<1>7. Voies'
  <2>1. (enRoute \in [Racine -> Seq(OperationDe(Emise))])' BY <1>5, <1>6 DEF T
  <2> QED BY <2>1, <1>3, <1>5 DEF Voies
<1>8. Avance
  <2>1. \A x \in Racine : compteur[x] <= compteur'[x]
    <3> SUFFICES ASSUME NEW x \in Racine PROVE compteur[x] <= compteur'[x] OBVIOUS
    <3>1. compteur[x] \in Nat /\ compteur'[x] = compteur[x] BY <1>3, <1>5
    <3> QED BY <3>1
  <2> QED BY <2>1, <1>3, <1>5, <1>6 DEF Avance
<1> QED BY <1>1, <1>7, <1>8, PasMuet

-----------------------------------------------------------------------------
(* The invariant.                                                          *)

\* The rows of the initial state, over the stamps that are given in it.
LEMMA DepartTypes ==
  ASSUME Voies
  PROVE  /\ TableDe(Depart.domaines, DomaineNe(Emise), RangeeDeDomaine(Emise))
         /\ TableDe(Depart.poses, CleDe(Emise), PoseDe(Emise))
         /\ TableDe(Depart.groupes, Emise, GroupeCree(Emise))
         /\ TableDe(Depart.adhesions, AdhesionDe(Emise), DateOuNon(Emise))
         /\ TableDe(Depart.droits, Emise, DroitDe(Emise))
<1> DEFINE D == DatesDeDepart
           places == {LieuDe(m) : m \in DOMAIN Machines} \cup {NomDe(m) : m \in DOMAIN Machines}
                       \cup {AliasDe(d) : d \in DOMAIN Depart.domaines}
           elements == {LeDomaine(d) : d \in DOMAIN Depart.domaines}
                         \cup {LaMachine(m) : m \in DOMAIN Machines}
                         \cup {LeCompte(c) : c \in Connus}
<1>1. /\ D \subseteq Emise /\ DateOuNon(D) \subseteq DateOuNon(Emise)
      /\ Connus \subseteq Emise /\ DOMAIN Machines \subseteq Emise
      /\ DOMAIN Depart.domaines \subseteq Emise
  BY DatesEmises, CompteEmis, DepartJuste DEF DateOuNon, TableDe
<1>2. /\ TableDe(Depart.domaines, D,
           [proprietaire : Connus, estampille : D, supprime : DateOuNon(D)])
      /\ TableDe(Depart.poses, places, [estampille : D, valeur : DateOuNon(D)])
      /\ TableDe(Depart.groupes, D, [domaine : DOMAIN Depart.domaines, etiquette : D])
      /\ TableDe(Depart.adhesions,
           [groupe : GroupesDeDepart, compte : Connus, ajout : D], DateOuNon(D))
      /\ TableDe(Depart.droits, D,
           [par : Connus, droit : NomsDeDroits, retire : DateOuNon(D),
            groupe : GroupesDeDepart \cup {Personnel(c) : c \in Connus}, element : elements])
  BY DroitsAssumption DEF EstTable, TableDe, Connus, DateOuNon
<1>3. GroupesDeDepart \cup {Personnel(c) : c \in Connus} \subseteq GroupeDe(Emise)
  <2>1. DOMAIN Depart.groupes \subseteq Emise BY <1>1, <1>2 DEF TableDe
  <2> HIDE DEF D
  <2>2. GroupesDeDepart \subseteq GroupeDe(Emise)
    BY <1>1, <2>1 DEF GroupesDeDepart, DuDomaine, Administrateurs, GroupeDe, SorteDeGroupe
  <2>3. {Personnel(c) : c \in Connus} \subseteq GroupeDe(Emise)
    BY <1>1 DEF Personnel, GroupeDe, SorteDeGroupe
  <2> QED BY <2>2, <2>3
<1>4. places \subseteq CleDe(Emise) BY <1>1 DEF LieuDe, NomDe, AliasDe, CleDe
<1>5. elements \subseteq ElementDe(Emise)
  BY <1>1 DEF LeDomaine, LaMachine, LeCompte, ElementDe
<1> HIDE DEF D, places, elements
<1>6. TableDe(Depart.domaines, DomaineNe(Emise), RangeeDeDomaine(Emise))
  <2>1. DOMAIN Depart.domaines \subseteq DomaineNe(Emise) BY <1>1 DEF DomaineNe
  <2>2. [proprietaire : Connus, estampille : D, supprime : DateOuNon(D)]
          \subseteq RangeeDeDomaine(Emise)
    BY <1>1 DEF RangeeDeDomaine
  <2>3. TableDe(Depart.domaines, DOMAIN Depart.domaines,
          [proprietaire : Connus, estampille : D, supprime : DateOuNon(D)])
    BY <1>2 DEF TableDe
  <2> QED BY <2>1, <2>2, <2>3, TableLarge
<1>7. TableDe(Depart.poses, CleDe(Emise), PoseDe(Emise))
  <2>1. [estampille : D, valeur : DateOuNon(D)] \subseteq PoseDe(Emise) BY <1>1 DEF PoseDe
  <2> QED BY <2>1, <1>2, <1>4, TableLarge
<1>8. TableDe(Depart.groupes, Emise, GroupeCree(Emise))
  <2>1. [domaine : DOMAIN Depart.domaines, etiquette : D] \subseteq GroupeCree(Emise)
    BY <1>1 DEF GroupeCree
  <2> QED BY <2>1, <1>1, <1>2, TableLarge
<1>9. TableDe(Depart.adhesions, AdhesionDe(Emise), DateOuNon(Emise))
  <2>1. [groupe : GroupesDeDepart, compte : Connus, ajout : D] \subseteq AdhesionDe(Emise)
    BY <1>1, <1>3 DEF AdhesionDe
  <2> QED BY <2>1, <1>1, <1>2, TableLarge
<1>10. TableDe(Depart.droits, Emise, DroitDe(Emise))
  <2>1. [par : Connus, droit : NomsDeDroits, retire : DateOuNon(D),
         groupe : GroupesDeDepart \cup {Personnel(c) : c \in Connus}, element : elements]
          \subseteq DroitDe(Emise)
    BY <1>1, <1>3, <1>5 DEF DroitDe
  <2> QED BY <2>1, <1>1, <1>2, TableLarge
<1> QED BY <1>6, <1>7, <1>8, <1>9, <1>10

LEMMA PasInit ==
  ASSUME Neuves = {}, Init
  PROVE  IInv
<1>1. /\ compteur = [q \in Racine |-> Depart.compteur] /\ enRoute = [q \in Racine |-> <<>>]
      /\ amorcages = 0
      /\ comptes = [q \in Racine |-> Depart.comptes]
      /\ domaines = [q \in Racine |-> Depart.domaines]
      /\ poses = [q \in Racine |-> Depart.poses]
      /\ groupes = [q \in Racine |-> Depart.groupes]
      /\ marques = [q \in Racine |-> <<>>]
      /\ adhesions = [q \in Racine |-> Depart.adhesions]
      /\ droits = [q \in Racine |-> Depart.droits]
  BY DEF Init, Au
<1>2. Racines BY <1>1 DEF Racines
<1>3. Voies
  <2>1. Depart.compteur \in Nat BY DepartJuste
  <2>2. compteur \in [Racine -> Nat] /\ amorcages \in Nat
        /\ \A q \in Racine : Depart.compteur <= compteur[q]
    BY <1>1, <2>1
  <2> DEFINE T == OperationDe(Emise)
             vide == <<>>
  <2>3. vide \in Seq(T) /\ enRoute = [q \in Racine |-> vide]
    <3> HIDE DEF T
    <3> QED BY <1>1
  <2>4. enRoute \in [Racine -> Seq(T)]
    <3> HIDE DEF T, vide
    <3> QED BY <2>3
  <2> QED BY <2>2, <2>4 DEF Voies
<1> SUFFICES ASSUME NEW r \in Racine PROVE Locale(r) BY <1>2, <1>3 DEF IInv
<1>4. /\ comptes[r] = Depart.comptes /\ domaines[r] = Depart.domaines
      /\ poses[r] = Depart.poses /\ groupes[r] = Depart.groupes /\ marques[r] = <<>>
      /\ adhesions[r] = Depart.adhesions /\ droits[r] = Depart.droits
      /\ compteur[r] = Depart.compteur
  BY <1>1
<1>5. /\ DatesDeDepart \subseteq Emise /\ DOMAIN Depart.comptes = Connus
      /\ TableDe(Depart.comptes, DatesDeDepart, [estampille : DatesDeDepart, efface : {FALSE}])
  BY <1>3, DatesEmises, DepartJuste DEF Connus
<1>6. ASSUME NEW c \in Connus PROVE CompteVivant(r, c)
  BY <1>4, <1>5 DEF CompteVivant, TableDe
<1>7. ComptesJustes(r)
  <2>1. [estampille : DatesDeDepart, efface : {FALSE}] \subseteq CompteDe(Emise)
    BY <1>5 DEF CompteDe, DateOuNon
  <2>2. comptes[r] \in [Connus -> CompteDe(Emise)] BY <2>1, <1>4, <1>5 DEF TableDe
  <2>3. \A c \in Connus : comptes[r][c].estampille \in Emise BY <1>4, <1>5 DEF TableDe
  <2> QED BY <2>2, <2>3 DEF ComptesJustes
<1>8. DomainesJustes(r)
  <2>1. TableDe(domaines[r], DomaineNe(Emise), RangeeDeDomaine(Emise))
    BY <1>3, <1>4, DepartTypes
  <2>2. \A d \in DOMAIN domaines[r] :
          /\ domaines[r][d].estampille = Naissance(d) /\ domaines[r][d].proprietaire \in Connus
    BY <2>1, <1>4 DEF Naissance, TableDe, RangeeDeDomaine
  <2>3. \A c \in Connus : DomainesDe(r, c) # {} BY <1>4, DepartJuste DEF DomainesDe
  <2> QED BY <2>1, <2>2, <2>3, <1>6 DEF DomainesJustes
<1>9. ASSUME NEW m \in DOMAIN Machines PROVE MachineLa(r, m)
  BY <1>6, DepartJuste DEF MachineLa
<1>10. PosesJustes(r)
  <2>1. TableDe(poses[r], CleDe(Emise), PoseDe(Emise)) BY <1>3, <1>4, DepartTypes
  <2> DEFINE places == {LieuDe(m) : m \in DOMAIN Machines} \cup {NomDe(m) : m \in DOMAIN Machines}
                         \cup {AliasDe(d) : d \in DOMAIN Depart.domaines}
  <2>2. TableDe(poses[r], places,
          [estampille : DatesDeDepart, valeur : DateOuNon(DatesDeDepart)])
    BY <1>4, DroitsAssumption DEF EstTable, TableDe, DateOuNon
  <2>3. \A cle \in places : Accueille(r, cle)
    BY <1>4, <1>9 DEF LieuDe, NomDe, AliasDe, Accueille
  <2> HIDE DEF places
  <2>4. ASSUME NEW cle \in DOMAIN poses[r]
        PROVE  Accueille(r, cle) /\ poses[r][cle].estampille.compteur <= compteur[r]
    <3>1. cle \in places /\ poses[r][cle].estampille \in DatesDeDepart BY <2>2 DEF TableDe
    <3> QED BY <3>1, <2>3, <1>4 DEF DatesDeDepart
  <2> QED BY <2>1, <2>4 DEF PosesJustes
<1>11. GroupesJustes(r)
  <2>1. TableDe(groupes[r], Emise, GroupeCree(Emise)) BY <1>3, <1>4, DepartTypes
  <2>2. TableDe(marques[r], Emise, Emise) BY <1>4, Vide
  <2>3. \A g \in DOMAIN groupes[r] : groupes[r][g].domaine \in DOMAIN domaines[r]
    BY <1>4, DroitsAssumption DEF EstTable
  <2> QED BY <2>1, <2>2, <2>3 DEF GroupesJustes
<1>12. ASSUME NEW g \in GroupesDeDepart \cup {Personnel(c) : c \in Connus}
       PROVE  GroupeLa(r, g)
  <2> DEFINE vide == <<>>
  <2>1. DOMAIN vide = {} /\ marques[r] = vide BY <1>4
  <2> HIDE DEF vide
  <2>2. ~Marque(r, g) BY <2>1 DEF Marque
  <2>3. Rangee(r, g)
    <3>1. CASE \E x \in DOMAIN Depart.groupes : g = DuDomaine(x)
      BY <3>1, <1>4 DEF DuDomaine, Rangee
    <3>2. CASE \E x \in DOMAIN Depart.domaines : g = Administrateurs(x)
      BY <3>2, <1>4 DEF Administrateurs, Rangee
    <3>3. CASE \E c \in Connus : g = Personnel(c)
      BY <3>3, <1>6 DEF Personnel, Rangee
    <3> QED BY <3>1, <3>2, <3>3 DEF GroupesDeDepart
  <2> QED BY <2>2, <2>3 DEF GroupeLa
<1>13. AdhesionsJustes(r)
  <2>1. TableDe(adhesions[r], AdhesionDe(Emise), DateOuNon(Emise)) BY <1>3, <1>4, DepartTypes
  <2>2. \A a \in DOMAIN adhesions[r] : a.groupe \in GroupesDeDepart /\ a.compte \in Connus
    BY <1>4, DroitsAssumption DEF EstTable, Connus
  <2> QED BY <2>1, <2>2, <1>6, <1>12 DEF AdhesionsJustes
<1>14. DroitsJustes(r)
  <2>1. TableDe(droits[r], Emise, DroitDe(Emise)) BY <1>3, <1>4, DepartTypes
  <2> DEFINE elements == {LeDomaine(d) : d \in DOMAIN Depart.domaines}
                           \cup {LaMachine(m) : m \in DOMAIN Machines}
                           \cup {LeCompte(c) : c \in Connus}
  <2>2. \A d \in DOMAIN droits[r] :
          /\ droits[r][d].par \in Connus /\ droits[r][d].element \in elements
          /\ droits[r][d].groupe \in GroupesDeDepart \cup {Personnel(c) : c \in Connus}
    BY <1>4, DroitsAssumption DEF EstTable, Connus
  <2>3. elements \subseteq Elements(r) BY <1>4, <1>5, <1>6, <1>9 DEF Elements
  <2> HIDE DEF elements
  <2> QED BY <2>1, <2>2, <2>3, <1>6, <1>12 DEF DroitsJustes
<1> QED BY <1>7, <1>8, <1>10, <1>11, <1>13, <1>14 DEF Locale

LEMMA PasSuivant == IInv /\ [Next]_vars => IInv'
<1> SUFFICES ASSUME IInv, [Next]_vars PROVE IInv' OBVIOUS
<1>1. CASE UNCHANGED vars
  <2>1. UNCHANGED <<compteur, enRoute, amorcages>> /\ UNCHANGED tables
    BY <1>1 DEF vars, voie
  <2>2. Emise' = Emise BY <2>1 DEF Emise
  <2>3. Voies' BY <2>1, <2>2 DEF IInv, Voies
  <2>4. UNCHANGED <<comptes, domaines, poses, groupes, marques, adhesions, droits>>
    BY <2>1 DEF tables, tablesDesDomaines, tablesDesGroupes
  <2>5. Racines' /\ \A q \in Racine : MemesTables(q)
    BY <2>4 DEF IInv, Racines, MemesTables
  <2>6. Avance
    <3>1. compteur \in [Racine -> Nat] BY DEF IInv, Voies
    <3>2. \A q \in Racine : compteur[q] <= compteur'[q]
      <4> SUFFICES ASSUME NEW q \in Racine PROVE compteur[q] <= compteur'[q] OBVIOUS
      <4>1. compteur[q] \in Nat /\ compteur'[q] = compteur[q] BY <3>1, <2>1
      <4> QED BY <4>1
    <3> QED BY <3>1, <3>2, <2>1, <2>2 DEF Avance
  <2>7. \A q \in Racine : Locale(q)' BY <2>5, <2>6, LocaleReste
  <2> QED BY <2>3, <2>5, <2>7 DEF IInv
<1>2. CASE Next
  <2>1. PICK r \in Racine : (\E c : Demander(r, c)) \/ Recevoir(r) \/ Amorcer(r)
    BY <1>2 DEF Next
  <2> QED BY <2>1, PasDemander, PasRecevoir, PasAmorcer
<1> QED BY <1>1, <1>2

LEMMA DroitsInvariant ==
  ASSUME Neuves = {}
  PROVE  Spec => []IInv
<1>1. Init => IInv BY PasInit
<1> QED BY <1>1, PasSuivant, PTL DEF Spec

-----------------------------------------------------------------------------
(* The tables.                                                             *)

LEMMA IInvTypeOK == IInv => TypeOK
<1> SUFFICES ASSUME IInv PROVE TypeOK OBVIOUS
<1> DEFINE ea == Estampille \cup {Aucune}
           g == [sorte : {"domaine", "administrateurs", "personnel"}, de : Estampille]
<1>1. compteur \in [Racine -> Nat] /\ amorcages \in Nat BY DEF IInv, Voies
<1>2. Emise \subseteq Estampille /\ DateOuNon(Emise) \subseteq ea BY DEF Emise, DateOuNon
<1>3. Connus \subseteq Estampille BY DepartJuste DEF TableDe, Connus, DatesDeDepart
<1>4. ASSUME NEW r \in Racine, NEW i \in DOMAIN enRoute[r]
      PROVE  enRoute[r][i].estampille \in ea
  <2> DEFINE T == OperationDe(Emise)
             s == enRoute[r]
  <2>1. s \in Seq(T) /\ i \in DOMAIN s BY <1>4 DEF IInv, Voies
  <2>2. s[i] \in T
    <3> HIDE DEF T, s
    <3> QED BY <2>1
  <2> QED BY <2>2, <1>2, OperationDatee DEF DateOuNon
<1>5. ASSUME NEW r \in Racine
      PROVE  EstTable(comptes[r], Estampille, [estampille : ea, efface : BOOLEAN])
  <2>1. comptes[r] \in [Connus -> CompteDe(Emise)] BY DEF IInv, Locale, ComptesJustes
  <2>2. CompteDe(Emise) \subseteq [estampille : ea, efface : BOOLEAN] BY <1>2 DEF CompteDe
  <2>3. IsFiniteSet(Connus) BY DepartJuste DEF TableDe, Connus
  <2>4. comptes[r] \in [Connus -> [estampille : ea, efface : BOOLEAN]] BY <2>1, <2>2
  <2> QED BY <2>1, <2>3, <2>4, <1>3 DEF EstTable
<1>6. ASSUME NEW r \in Racine
      PROVE  EstTable(domaines[r], Estampille,
               [proprietaire : Estampille, estampille : Estampille, supprime : ea])
  <2>1. RangeeDeDomaine(Emise)
          \subseteq [proprietaire : Estampille, estampille : Estampille, supprime : ea]
    BY <1>2, <1>3 DEF RangeeDeDomaine
  <2>2. DomaineNe(Emise) \subseteq Estampille BY <1>2 DEF DomaineNe
  <2>3. TableDe(domaines[r], DomaineNe(Emise), RangeeDeDomaine(Emise))
    BY DEF IInv, Locale, DomainesJustes
  <2> QED BY <2>1, <2>2, <2>3 DEF TableDe, EstTable
<1>7. ASSUME NEW r \in Racine
      PROVE  EstTable(poses[r], [quoi : {"alias", "nom", "lieu"}, de : Estampille],
                      [estampille : Estampille, valeur : ea])
  <2>1. PoseDe(Emise) \subseteq [estampille : Estampille, valeur : ea] BY <1>2 DEF PoseDe
  <2>2. CleDe(Emise) \subseteq [quoi : {"alias", "nom", "lieu"}, de : Estampille]
    BY <1>2 DEF CleDe
  <2>3. TableDe(poses[r], CleDe(Emise), PoseDe(Emise)) BY DEF IInv, Locale, PosesJustes
  <2> QED BY <2>1, <2>2, <2>3 DEF TableDe, EstTable
<1>8. ASSUME NEW r \in Racine
      PROVE  /\ EstTable(groupes[r], Estampille, [domaine : Estampille, etiquette : Estampille])
             /\ EstTable(marques[r], Estampille, Estampille)
  <2>1. GroupeCree(Emise) \subseteq [domaine : Estampille, etiquette : Estampille]
    BY <1>2 DEF GroupeCree
  <2>2. TableDe(groupes[r], Emise, GroupeCree(Emise)) /\ TableDe(marques[r], Emise, Emise)
    BY DEF IInv, Locale, GroupesJustes
  <2> QED BY <2>1, <2>2, <1>2 DEF TableDe, EstTable
<1>9. GroupeDe(Emise) \subseteq g BY <1>2 DEF GroupeDe, SorteDeGroupe
<1> HIDE DEF g
<1>10. ASSUME NEW r \in Racine
       PROVE  EstTable(adhesions[r], [groupe : g, compte : Estampille, ajout : Estampille], ea)
  <2>1. AdhesionDe(Emise) \subseteq [groupe : g, compte : Estampille, ajout : Estampille]
    BY <1>2, <1>3, <1>9 DEF AdhesionDe
  <2>2. TableDe(adhesions[r], AdhesionDe(Emise), DateOuNon(Emise))
    BY DEF IInv, Locale, AdhesionsJustes
  <2> QED BY <2>1, <2>2, <1>2 DEF TableDe, EstTable
<1>11. ASSUME NEW r \in Racine
       PROVE  EstTable(droits[r], Estampille,
                [par : Estampille, groupe : g, droit : NomsDeDroits, retire : ea,
                 element : [sorte : {"domaine", "machine", "compte"}, de : Estampille]])
  <2>1. ElementDe(Emise) \subseteq [sorte : {"domaine", "machine", "compte"}, de : Estampille]
    BY <1>2 DEF ElementDe
  <2>2. DroitDe(Emise) \subseteq
          [par : Estampille, groupe : g, droit : NomsDeDroits, retire : ea,
           element : [sorte : {"domaine", "machine", "compte"}, de : Estampille]]
    BY <2>1, <1>2, <1>3, <1>9 DEF DroitDe
  <2>3. TableDe(droits[r], Emise, DroitDe(Emise)) BY DEF IInv, Locale, DroitsJustes
  <2> QED BY <2>2, <2>3, <1>2 DEF TableDe, EstTable
<1> QED BY <1>1, <1>4, <1>5, <1>6, <1>7, <1>8, <1>10, <1>11 DEF TypeOK, g

LEMMA IInvTablesJustes == IInv => TablesJustes
<1> SUFFICES ASSUME IInv PROVE RienNePend BY IInvTypeOK DEF TablesJustes
<1> QED BY DEF IInv, Locale, AdhesionsJustes, DroitsJustes, GroupesJustes, GroupeLa, RienNePend

\* Every row of every table is of its type; no member of a group that is deleted or gone,
\* no right given to it, by an account that is erased, or on an element that is gone, also
\* when the operations of the peer arrive after the deletion (groupes.rs 550, droits.rs 238).
THEOREM DroitsTablesJustes ==
  ASSUME Neuves = {}
  PROVE  Spec => []TablesJustes
BY IInvTablesJustes, DroitsInvariant, PTL

-----------------------------------------------------------------------------
(* The survivor.                                                           *)

\* Two domains of an account never have the same stamp: the oldest is one.
LEMMA EstampillesDistinctes ==
  ASSUME IInv, NEW r \in Racine, NEW a \in DOMAIN domaines[r], NEW b \in DOMAIN domaines[r],
         ~Avant(domaines[r][a].estampille, domaines[r][b].estampille),
         ~Avant(domaines[r][b].estampille, domaines[r][a].estampille)
  PROVE  a = b
<1>1. /\ domaines[r][a].estampille \in Estampille /\ domaines[r][b].estampille \in Estampille
      /\ domaines[r][a].estampille = Naissance(a) /\ domaines[r][b].estampille = Naissance(b)
      /\ a \in DomaineNe(Emise) /\ b \in DomaineNe(Emise) /\ Emise \subseteq Estampille
  BY DomaineType DEF Emise
<1>2. Naissance(a) = Naissance(b) BY <1>1, OrdreTotal
<1> QED BY <1>1, <1>2, NaissanceUnique

LEMMA LePlusAncien ==
  ASSUME IInv, NEW r \in Racine, NEW c \in Connus, CompteVivant(r, c)
  PROVE  \E d \in DomainesDe(r, c) : \A f \in DomainesDe(r, c) :
           ~Avant(domaines[r][f].estampille, domaines[r][d].estampille)
<1> DEFINE S == {domaines[r][d].estampille : d \in DomainesDe(r, c)}
<1>1. DomainesDe(r, c) # {} /\ DomainesDe(r, c) \subseteq DOMAIN domaines[r]
  BY DEF IInv, Locale, DomainesJustes, DomainesDe
<1>2. S \in SUBSET Estampille /\ S # {}
  <2>1. \A d \in DomainesDe(r, c) : domaines[r][d].estampille \in Estampille
    BY <1>1, DomaineType DEF Emise
  <2> QED BY <1>1, <2>1
<1>3. PICK e \in S : \A autre \in S : ~Avant(autre, e)
  <2> HIDE DEF S
  <2> QED BY <1>2, PremiereEstampille
<1> QED BY <1>3

LEMMA IInvToujoursUnDomaine == IInv => ToujoursUnDomaine
<1> SUFFICES ASSUME IInv, NEW r \in Racine, NEW c \in DOMAIN comptes[r], CompteVivant(r, c)
             PROVE  LET siens == {d \in DomainesDe(r, c) : Vivant(r, d)} IN
                    /\ siens # {}
                    /\ (\A d \in DomainesDe(r, c) : domaines[r][d].supprime # Aucune)
                         => Cardinality(siens) = 1
  BY DEF ToujoursUnDomaine
<1> DEFINE tous == DomainesDe(r, c)
           siens == {d \in tous : Vivant(r, d)}
<1>1. c \in Connus BY TousConnus DEF IInv, Locale
<1>2. tous # {} /\ \A d \in tous : d \in DOMAIN domaines[r] /\ Freres(r, d) = tous
  BY <1>1 DEF IInv, Locale, DomainesJustes, DomainesDe, Freres
<1>3. PICK ancien \in tous :
        \A f \in tous : ~Avant(domaines[r][f].estampille, domaines[r][ancien].estampille)
  BY <1>1, LePlusAncien
<1> HIDE DEF tous
<1>4. CASE \E d \in tous : domaines[r][d].supprime = Aucune
  <2>1. PICK d \in tous : domaines[r][d].supprime = Aucune BY <1>4
  <2>2. Vivant(r, d) BY <2>1, <1>2 DEF Vivant
  <2> QED BY <2>1, <2>2 DEF tous
<1>5. CASE \A d \in tous : domaines[r][d].supprime # Aucune
  <2>1. Vivant(r, ancien) BY <1>2, <1>3, <1>5 DEF Vivant
  <2>2. ASSUME NEW d \in siens PROVE d = ancien
    <3>1. d \in tous /\ Vivant(r, d) /\ d \in DOMAIN domaines[r] /\ Freres(r, d) = tous
      BY <1>2
    <3>2. ~Avant(domaines[r][ancien].estampille, domaines[r][d].estampille)
      BY <3>1, <1>5 DEF Vivant
    <3>3. ~Avant(domaines[r][d].estampille, domaines[r][ancien].estampille) BY <3>1, <1>3
    <3> QED BY <3>1, <3>2, <3>3, <1>2, EstampillesDistinctes
  <2>3. siens = {ancien} BY <2>1, <2>2
  <2>4. Cardinality({ancien}) = 1 BY FS_Singleton
  <2> QED BY <2>3, <2>4 DEF tous
<1> QED BY <1>4, <1>5

\* An account that is alive always has a domain that is alive, and exactly one when all of
\* its domains were deleted, on one root or on both: two roots that each delete one of the
\* last two, or an operation of the peer that arrives late, never leave it without
\* (domaines.rs 137).
THEOREM DroitsToujoursUnDomaine ==
  ASSUME Neuves = {}
  PROVE  Spec => []ToujoursUnDomaine
BY IInvToujoursUnDomaine, DroitsInvariant, PTL

-----------------------------------------------------------------------------
(* What is withdrawn stays so.                                             *)

DateTenue(x, y) == x # Aucune => y # Aucune /\ ~Avant(x, y)

DroitsTenus(q) ==
  \A d \in DOMAIN droits[q] \cap DOMAIN droits'[q] :
    DateTenue(droits[q][d].retire, droits'[q][d].retire)
AdhesionsTenues(q) ==
  \A a \in DOMAIN adhesions[q] \cap DOMAIN adhesions'[q] :
    DateTenue(adhesions[q][a], adhesions'[q][a])
DomainesTenus(q) ==
  \A d \in DOMAIN domaines[q] \cap DOMAIN domaines'[q] :
    DateTenue(domaines[q][d].supprime, domaines'[q][d].supprime)
MarquesTenues(q) ==
  \A g \in DOMAIN marques[q] : g \in DOMAIN groupes'[q] => g \in DOMAIN marques'[q]

Tenus(q) == DroitsTenus(q) /\ AdhesionsTenues(q) /\ DomainesTenus(q) /\ MarquesTenues(q)

\* A date is kept, or is the first one of a mark.
LEMMA PremiereTenue ==
  ASSUME NEW x \in DateOuNon(Estampille)
  PROVE  /\ DateTenue(x, x)
         /\ \A e \in Estampille : DateTenue(x, PremiereMarque(x, e))
<1>1. CASE x = Aucune BY <1>1 DEF DateTenue
<1>2. CASE x \in Estampille
  <2>1. ~Avant(x, x) BY <1>2, OrdreTotal
  <2>2. ASSUME NEW e \in Estampille PROVE DateTenue(x, PremiereMarque(x, e))
    <3>1. x # Aucune /\ e # Aucune BY <1>2, PasDEstampille
    <3>2. ~Avant(x, PlusTot(x, e))
      <4>1. CASE Avant(e, x)
        <5>1. ~Avant(x, e) BY <1>2, <4>1, OrdreTotal
        <5> QED BY <4>1, <5>1 DEF PlusTot
      <4>2. CASE ~Avant(e, x) BY <4>2, <2>1 DEF PlusTot
      <4> QED BY <4>1, <4>2
    <3>3. PlusTot(x, e) # Aucune BY <3>1 DEF PlusTot
    <3> QED BY <3>1, <3>2, <3>3 DEF DateTenue, PremiereMarque
  <2> QED BY <2>1, <2>2 DEF DateTenue
<1> QED BY <1>1, <1>2 DEF DateOuNon

\* What the tables hold is dated.
LEMMA DatesDesTables ==
  ASSUME IInv, NEW q \in Racine
  PROVE  /\ \A d \in DOMAIN droits[q] : droits[q][d].retire \in DateOuNon(Estampille)
         /\ \A a \in DOMAIN adhesions[q] : adhesions[q][a] \in DateOuNon(Estampille)
         /\ \A d \in DOMAIN domaines[q] : domaines[q][d].supprime \in DateOuNon(Estampille)
<1>1. Emise \subseteq Estampille BY DEF Emise
<1>2. DateOuNon(Emise) \subseteq DateOuNon(Estampille) BY <1>1 DEF DateOuNon
<1>3. DroitsJustes(q) /\ AdhesionsJustes(q) BY DEF IInv, Locale
<1> QED BY <1>2, <1>3, DroitType, AdhesionTypee, DomaineType

\* A table that only gets or loses rows keeps its dates.
LEMMA DatesLaissees ==
  ASSUME IInv, NEW q \in Racine
  PROVE  /\ (\A d \in DOMAIN droits[q] \cap DOMAIN droits'[q] :
               droits'[q][d].retire = droits[q][d].retire \/ droits[q][d].retire = Aucune)
              => DroitsTenus(q)
         /\ (\A a \in DOMAIN adhesions[q] \cap DOMAIN adhesions'[q] :
               adhesions'[q][a] = adhesions[q][a] \/ adhesions[q][a] = Aucune)
              => AdhesionsTenues(q)
         /\ (\A d \in DOMAIN domaines[q] \cap DOMAIN domaines'[q] :
               \/ domaines'[q][d].supprime = domaines[q][d].supprime
               \/ domaines[q][d].supprime = Aucune)
              => DomainesTenus(q)
<1>1. \A x, y : x = Aucune => DateTenue(x, y) BY DEF DateTenue
<1>2. \A x \in DateOuNon(Estampille) : DateTenue(x, x) BY PremiereTenue
<1>3. ASSUME \A d \in DOMAIN droits[q] \cap DOMAIN droits'[q] :
               droits'[q][d].retire = droits[q][d].retire \/ droits[q][d].retire = Aucune
      PROVE  DroitsTenus(q)
  BY <1>1, <1>2, <1>3, DatesDesTables DEF DroitsTenus
<1>4. ASSUME \A a \in DOMAIN adhesions[q] \cap DOMAIN adhesions'[q] :
               adhesions'[q][a] = adhesions[q][a] \/ adhesions[q][a] = Aucune
      PROVE  AdhesionsTenues(q)
  BY <1>1, <1>2, <1>4, DatesDesTables DEF AdhesionsTenues
<1>5. ASSUME \A d \in DOMAIN domaines[q] \cap DOMAIN domaines'[q] :
               \/ domaines'[q][d].supprime = domaines[q][d].supprime
               \/ domaines[q][d].supprime = Aucune
      PROVE  DomainesTenus(q)
  BY <1>1, <1>2, <1>5, DatesDesTables DEF DomainesTenus
<1> QED BY <1>3, <1>4, <1>5

\* The tables that a step leaves.
LEMMA TablesLaissees ==
  ASSUME IInv, NEW q \in Racine
  PROVE  /\ droits'[q] = droits[q] => DroitsTenus(q)
         /\ adhesions'[q] = adhesions[q] => AdhesionsTenues(q)
         /\ domaines'[q] = domaines[q] => DomainesTenus(q)
         /\ DOMAIN marques[q] \subseteq DOMAIN marques'[q] => MarquesTenues(q)
BY DatesLaissees DEF MarquesTenues

\* Rows that leave, on a root.
LEMMA DroitsPartis ==
  ASSUME IInv, NEW r \in Racine, NEW q \in Racine, NEW S,
         droits' = [droits EXCEPT ![r] = Sans(@, S)]
  PROVE  DroitsTenus(q)
<1>1. \A d \in DOMAIN droits[q] \cap DOMAIN droits'[q] :
        droits'[q][d].retire = droits[q][d].retire
  BY DEF IInv, Racines, Sans
<1> QED BY <1>1, DatesLaissees

LEMMA AdhesionsParties ==
  ASSUME IInv, NEW r \in Racine, NEW q \in Racine, NEW S,
         adhesions' = [adhesions EXCEPT ![r] = Sans(@, S)]
  PROVE  AdhesionsTenues(q)
<1>1. \A a \in DOMAIN adhesions[q] \cap DOMAIN adhesions'[q] :
        adhesions'[q][a] = adhesions[q][a]
  BY DEF IInv, Racines, Sans
<1> QED BY <1>1, DatesLaissees

LEMMA DomainesPartis ==
  ASSUME IInv, NEW r \in Racine, NEW q \in Racine, NEW S,
         domaines' = [domaines EXCEPT ![r] = Sans(@, S)]
  PROVE  DomainesTenus(q)
<1>1. \A d \in DOMAIN domaines[q] \cap DOMAIN domaines'[q] :
        domaines'[q][d].supprime = domaines[q][d].supprime
  BY DEF IInv, Racines, Sans
<1> QED BY <1>1, DatesLaissees

\* The erasure of an account: the mark of a group leaves with its group.
LEMMA EffacementTenu ==
  ASSUME IInv, NEW r \in Racine, NEW q \in Racine, NEW c, EffacerDans(r, c)
  PROVE  Tenus(q)
<1> DEFINE partis == GroupesEmportes(r, c)
           crees == {g.de : g \in {p \in partis : p.sorte = "domaine"}}
<1>1. /\ groupes' = [groupes EXCEPT ![r] = Sans(@, crees)]
      /\ marques' = [marques EXCEPT ![r] = Sans(@, crees)]
      /\ \E S : adhesions' = [adhesions EXCEPT ![r] = Sans(@, S)]
      /\ droits' = [droits EXCEPT ![r] = Sans(@, DroitsEmportes(r, c))]
      /\ domaines' = [domaines EXCEPT ![r] = Sans(@, DomainesDe(r, c))]
  BY DEF EffacerDans, EffacerLesGroupes, EffacerLesDomaines, OublierLesDroits
<1> HIDE DEF crees
<1>2. MarquesTenues(q) BY <1>1 DEF IInv, Racines, Sans, MarquesTenues
<1> QED BY <1>1, <1>2, DroitsPartis, AdhesionsParties, DomainesPartis DEF Tenus

\* The deletion of a group, by a request or from the peer.
LEMMA DissolutionTenue ==
  ASSUME IInv, NEW r \in Racine, NEW q \in Racine, NEW g, NEW e, NEW S, Marquer(r, g, e),
         OublierLesDroits(r, S), UNCHANGED tablesDesDomaines
  PROVE  Tenus(q)
<1>1. /\ \E rangee : marques' = [marques EXCEPT ![r] = Poser(@, g, rangee)]
      /\ \E X : adhesions' = [adhesions EXCEPT ![r] = Sans(@, X)]
      /\ droits' = [droits EXCEPT ![r] = Sans(@, S)]
      /\ domaines' = domaines
  BY DEF Marquer, OublierLesDroits, tablesDesDomaines, IInv, Racines
<1>2. DOMAIN marques[q] \subseteq DOMAIN marques'[q] BY <1>1 DEF IInv, Racines, Poser
<1> QED BY <1>1, <1>2, TablesLaissees, DroitsPartis, AdhesionsParties DEF Tenus

-----------------------------------------------------------------------------
(* What a request writes.                                                  *)

\* A request only deletes a domain that is not marked: marked and alive, it would be the
\* oldest of its account, and so would be the other one that stays.
LEMMA SuppressionPremiere ==
  ASSUME IInv, NEW r \in Racine, NEW d, SupprimerDomaine(r, d)
  PROVE  domaines[r][d].supprime = Aucune
<1> SUFFICES ASSUME domaines[r][d].supprime # Aucune PROVE FALSE OBVIOUS
<1>1. Vivant(r, d) /\ d \in DOMAIN domaines[r] BY DEF SupprimerDomaine, Vivant
<1>2. PICK x \in Freres(r, d) \ {d} : Vivant(r, x) BY DEF SupprimerDomaine
<1>3. /\ x \in DOMAIN domaines[r] /\ x # d /\ x \in Freres(r, d) /\ d \in Freres(r, x)
      /\ domaines[r][x].supprime # Aucune
      /\ ~Avant(domaines[r][x].estampille, domaines[r][d].estampille)
  BY <1>1, <1>2 DEF Vivant, Freres
<1>4. ~Avant(domaines[r][d].estampille, domaines[r][x].estampille)
  BY <1>2, <1>3 DEF Vivant
<1> QED BY <1>1, <1>3, <1>4, EstampillesDistinctes

LEMMA SuivanteInedite ==
  ASSUME IInv, NEW r \in Racine
  PROVE  Suivante(r) \notin Emise
<1>1. compteur[r] \in Nat BY DEF IInv, Voies
<1>2. Suivante(r).racine = r /\ Suivante(r).compteur = compteur[r] + 1
  BY DEF Suivante, Prochaine
<1>3. ~(Suivante(r).compteur <= compteur[Suivante(r).racine]) BY <1>1, <1>2
<1> QED BY <1>3 DEF Emise

LEMMA EcritDomainesTenus ==
  ASSUME IInv, NEW r \in Racine, NEW q \in Racine, NEW c, EcrireUnDomaine(r, c)
  PROVE  Tenus(q)
<1>1. UNCHANGED <<groupes, marques, adhesions, droits>>
  BY DEF EcrireUnDomaine, tablesDesGroupes
<1>2. \/ domaines' = domaines \/ CreerDomaine(r, c) \/ \E d : SupprimerDomaine(r, d)
  BY DEF EcrireUnDomaine, ReclamerAlias, PoserAliasDeDomaine, PoserAliasDeMachine,
         RattacherMachine, PoserUneValeur
<1>3. ASSUME CreerDomaine(r, c) PROVE DomainesTenus(q)
  <2>1. PICK rangee : domaines' = [domaines EXCEPT ![r] = Poser(@, Suivante(r), rangee)]
    BY <1>3 DEF CreerDomaine
  <2>2. Suivante(r) \notin DOMAIN domaines[r]
    <3>1. Suivante(r) \notin Emise BY SuivanteInedite
    <3> QED BY <3>1, DomaineType
  <2>3. \A d \in DOMAIN domaines[q] \cap DOMAIN domaines'[q] :
          domaines'[q][d].supprime = domaines[q][d].supprime
    BY <2>1, <2>2 DEF IInv, Racines, Poser
  <2> QED BY <2>3, DatesLaissees
<1>4. ASSUME NEW d, SupprimerDomaine(r, d) PROVE DomainesTenus(q)
  <2>1. /\ d \in DOMAIN domaines[r] /\ domaines[r][d].supprime = Aucune
        /\ domaines' = [domaines EXCEPT ![r][d].supprime = Suivante(r)]
    BY <1>4, SuppressionPremiere DEF SupprimerDomaine, Vivant
  <2>2. \A x \in DOMAIN domaines[q] \cap DOMAIN domaines'[q] :
          \/ domaines'[q][x].supprime = domaines[q][x].supprime
          \/ domaines[q][x].supprime = Aucune
    BY <2>1 DEF IInv, Racines
  <2> QED BY <2>2, DatesLaissees
<1> QED BY <1>1, <1>2, <1>3, <1>4, TablesLaissees DEF Tenus

LEMMA EcritGroupesTenus ==
  ASSUME IInv, NEW r \in Racine, NEW q \in Racine, NEW c, EcrireUnGroupe(r, c)
  PROVE  Tenus(q)
<1>1. UNCHANGED <<comptes, domaines, poses, droits>> BY DEF EcrireUnGroupe, tablesDesDomaines
<1>2. \/ \E d : CreerGroupe(r, d)
      \/ \E g : EtiqueterGroupe(r, g)
      \/ \E g, x : AjouterMembre(r, g, x)
      \/ \E g, x : RetirerMembre(r, g, x)
  BY DEF EcrireUnGroupe
<1>3. marques' = marques
  BY <1>2 DEF CreerGroupe, EtiqueterGroupe, AjouterMembre, RetirerMembre
<1>4. AdhesionsTenues(q)
  <2>1. CASE adhesions' = adhesions BY <2>1, TablesLaissees
  <2>2. ASSUME NEW g, NEW x, AjouterMembre(r, g, x) PROVE AdhesionsTenues(q)
    <3> DEFINE a == [groupe |-> g, compte |-> x, ajout |-> Suivante(r)]
    <3>1. adhesions' = [adhesions EXCEPT ![r] = Poser(@, a, Aucune)]
      BY <2>2 DEF AjouterMembre
    <3>2. a \notin DOMAIN adhesions[r]
      <4>1. Suivante(r) \notin Emise BY SuivanteInedite
      <4>2. a.ajout = Suivante(r) OBVIOUS
      <4>3. \A b \in DOMAIN adhesions[r] : b.ajout \in Emise
        BY AdhesionTypee DEF IInv, Locale, AdhesionDe
      <4> HIDE DEF a
      <4> QED BY <4>1, <4>2, <4>3
    <3> HIDE DEF a
    <3>3. \A b \in DOMAIN adhesions[q] \cap DOMAIN adhesions'[q] :
            adhesions'[q][b] = adhesions[q][b]
      BY <3>1, <3>2 DEF IInv, Racines, Poser
    <3> QED BY <3>3, DatesLaissees
  <2>3. ASSUME NEW g, NEW x, RetirerMembre(r, g, x) PROVE AdhesionsTenues(q)
    <3> DEFINE t == [a \in DOMAIN adhesions[r] |-> IF a \notin Ajouts(r, g, x)
                      THEN adhesions[r][a]
                      ELSE Prochaine(r, CHOOSE i \in DOMAIN SetToSeq(Ajouts(r, g, x)) :
                                          SetToSeq(Ajouts(r, g, x))[i] = a)]
    <3>1. adhesions' = [adhesions EXCEPT ![r] = t] BY <2>3 DEF RetirerMembre
    <3>2. \A a \in DOMAIN adhesions[r] : t[a] = adhesions[r][a] \/ adhesions[r][a] = Aucune
      BY DEF Ajouts
    <3> HIDE DEF t
    <3>3. \A b \in DOMAIN adhesions[q] \cap DOMAIN adhesions'[q] :
            adhesions'[q][b] = adhesions[q][b] \/ adhesions[q][b] = Aucune
      BY <3>1, <3>2 DEF IInv, Racines
    <3> QED BY <3>3, DatesLaissees
  <2> QED BY <1>2, <2>1, <2>2, <2>3 DEF CreerGroupe, EtiqueterGroupe
<1> QED BY <1>1, <1>3, <1>4, TablesLaissees DEF Tenus

LEMMA DroitsEcritsTenus ==
  ASSUME IInv, NEW r \in Racine, NEW q \in Racine, NEW c,
         AccorderDroit(r, c) \/ RetirerDroit(r, c)
  PROVE  Tenus(q)
<1>1. UNCHANGED <<comptes, domaines, poses, groupes, marques, adhesions>>
  BY DEF AccorderDroit, RetirerDroit, tablesDesDomaines, tablesDesGroupes
<1>2. CASE AccorderDroit(r, c)
  <2>1. PICK droit : droits' = [droits EXCEPT ![r] = Poser(@, Suivante(r), droit)]
    BY <1>2 DEF AccorderDroit
  <2>2. Suivante(r) \notin DOMAIN droits[r]
    <3>1. \A d \in DOMAIN droits[r] : d \in Emise BY DroitType DEF IInv, Locale
    <3> QED BY <3>1, SuivanteInedite
  <2>3. \A d \in DOMAIN droits[q] \cap DOMAIN droits'[q] :
          droits'[q][d].retire = droits[q][d].retire
    BY <2>1, <2>2 DEF IInv, Racines, Poser
  <2> QED BY <1>1, <2>3, DatesLaissees, TablesLaissees DEF Tenus
<1>3. CASE RetirerDroit(r, c)
  <2>1. PICK d \in DOMAIN droits[r] : /\ droits[r][d].retire = Aucune
                                      /\ droits' = [droits EXCEPT ![r][d].retire = Suivante(r)]
    BY <1>3 DEF RetirerDroit
  <2>2. \A x \in DOMAIN droits[q] \cap DOMAIN droits'[q] :
          droits'[q][x].retire = droits[q][x].retire \/ droits[q][x].retire = Aucune
    BY <2>1 DEF IInv, Racines
  <2> QED BY <1>1, <2>2, DatesLaissees, TablesLaissees DEF Tenus
<1> QED BY <1>2, <1>3

LEMMA DemandeTenue ==
  ASSUME IInv, NEW r \in Racine, NEW q \in Racine, NEW c, Demander(r, c)
  PROVE  Tenus(q)
<1>1. CASE SupprimerUnGroupe(r, c)
  <2>1. PICK g : SupprimerGroupe(r, g) /\ OublierLesDroits(r, DroitsDuGroupe(r, g))
    BY <1>1 DEF SupprimerUnGroupe
  <2>2. Marquer(r, g.de, Suivante(r)) /\ UNCHANGED tablesDesDomaines
    BY <1>1, <2>1 DEF SupprimerGroupe, SupprimerUnGroupe
  <2> QED BY <2>1, <2>2, DissolutionTenue
<1>2. CASE EffacerCompte(r, c) BY <1>2, EffacementTenu DEF EffacerCompte
<1> QED BY <1>1, <1>2, EcritDomainesTenus, EcritGroupesTenus, DroitsEcritsTenus DEF Demander

-----------------------------------------------------------------------------
(* What a root applies.                                                    *)

LEMMA DomainesRecusTenus ==
  ASSUME IInv, NEW r \in Racine, NEW q \in Racine, NEW operation,
         operation \in OperationDe(Emise), AppliquerAuxDomaines(r, operation)
  PROVE  Tenus(q)
<1>1. UNCHANGED <<groupes, marques, adhesions, droits>>
  BY DEF AppliquerAuxDomaines, tablesDesGroupes
<1>2. operation \in AuxDomaines(Emise)
  BY ChampsGroupes, ChampsDroits DEF AppliquerAuxDomaines, OperationDe
<1>3. CASE operation.quoi = "compte" /\ AppliquerCompte(r, operation)
  <2>1. operation.compte \in DOMAIN comptes[r]
    BY <1>2, <1>3, ChampsDomaines, TousConnus DEF IInv, Locale
  <2>2. domaines' = domaines BY <1>3, <2>1 DEF AppliquerCompte, tablesDesDomaines
  <2> QED BY <1>1, <2>2, TablesLaissees DEF Tenus
<1>4. CASE AppliquerAlias(r, operation) \/ AppliquerPose(r, operation)
  <2>1. domaines' = domaines BY <1>4 DEF AppliquerAlias, AppliquerPose
  <2> QED BY <1>1, <2>1, TablesLaissees DEF Tenus
<1>5. CASE AppliquerDomaine(r, operation)
  <2>1. \A d \in DOMAIN domaines[q] \cap DOMAIN domaines'[q] : domaines'[q][d] = domaines[q][d]
    BY <1>5 DEF AppliquerDomaine, Garder, Poser, IInv, Racines
  <2> QED BY <1>1, <2>1, DatesLaissees, TablesLaissees DEF Tenus
<1>6. CASE operation.quoi = "supprime" /\ AppliquerDomaineSupprime(r, operation)
  <2> DEFINE d == operation.de
             e == operation.estampille
  <2>1. e \in Estampille BY <1>2, <1>6, ChampsDomaines DEF Emise
  <2>2. CASE d \notin DOMAIN domaines[r]
    <3>1. domaines' = domaines BY <1>6, <2>2 DEF AppliquerDomaineSupprime
    <3> QED BY <1>1, <3>1, TablesLaissees DEF Tenus
  <2>3. CASE d \in DOMAIN domaines[r]
    <3> DEFINE y == PremiereMarque(domaines[r][d].supprime, e)
    <3>1. domaines' = [domaines EXCEPT ![r][d].supprime = y]
      BY <1>6, <2>3 DEF AppliquerDomaineSupprime
    <3>2. DateTenue(domaines[r][d].supprime, y)
      BY <2>1, <2>3, DatesDesTables, PremiereTenue
    <3> HIDE DEF y, e
    <3>3. ASSUME NEW x \in DOMAIN domaines[q] \cap DOMAIN domaines'[q]
          PROVE  DateTenue(domaines[q][x].supprime, domaines'[q][x].supprime)
      <4>1. CASE q = r /\ x = d
        <5>1. domaines'[q][x].supprime = y BY <2>3, <3>1, <4>1 DEF IInv, Racines
        <5> QED BY <3>2, <4>1, <5>1
      <4>2. CASE q # r \/ x # d
        <5>1. domaines'[q][x].supprime = domaines[q][x].supprime
          BY <3>1, <4>2 DEF IInv, Racines
        <5> QED BY <5>1, DatesDesTables, PremiereTenue
      <4> QED BY <4>1, <4>2
    <3> QED BY <1>1, <3>3, TablesLaissees DEF Tenus, DomainesTenus
  <2> QED BY <2>2, <2>3
<1> QED BY <1>3, <1>4, <1>5, <1>6 DEF AppliquerAuxDomaines

LEMMA GroupesRecusTenus ==
  ASSUME IInv, NEW r \in Racine, NEW q \in Racine, NEW operation,
         operation \in OperationDe(Emise), AppliquerAuxGroupes(r, operation)
  PROVE  Tenus(q)
<1>1. UNCHANGED <<comptes, domaines, poses, droits>>
  BY DEF AppliquerAuxGroupes, tablesDesDomaines
<1>2. marques' = marques
  BY DEF AppliquerAuxGroupes, AppliquerGroupe, AppliquerGroupeEtiquette, AppliquerGroupeMembre,
         AppliquerGroupeMembreRetire
<1>3. CASE adhesions'[q] = adhesions[q] BY <1>1, <1>2, <1>3, TablesLaissees DEF Tenus
<1>4. CASE AppliquerGroupeMembre(r, operation)
  <2>1. \A a \in DOMAIN adhesions[q] \cap DOMAIN adhesions'[q] : adhesions'[q][a] = adhesions[q][a]
    BY <1>4 DEF AppliquerGroupeMembre, Garder, Poser, IInv, Racines
  <2> QED BY <1>1, <1>2, <2>1, DatesLaissees, TablesLaissees DEF Tenus
<1>5. CASE operation.quoi = "retire" /\ AppliquerGroupeMembreRetire(r, operation)
  <2> DEFINE a == [groupe |-> operation.groupe, compte |-> operation.compte,
                   ajout |-> operation.ajout]
             e == operation.estampille
             x == IF a \in DOMAIN adhesions[r] THEN adhesions[r][a] ELSE Aucune
             y == PremiereMarque(x, e)
  <2>1. e \in Estampille
    <3>1. operation \in AuxGroupes(Emise)
      BY <1>5, ChampsDomaines, ChampsDroits DEF OperationDe
    <3> QED BY <3>1, ChampsGroupes DEF Emise
  <2>2. \/ adhesions'[q] = adhesions[q]
        \/ adhesions' = [adhesions EXCEPT ![r] = Poser(@, a, y)]
    <3> DEFINE entre == /\ ~CompteEfface(r, a.compte) /\ PeutRecevoir(r, a.groupe)
                        /\ a.compte \notin DOffice(r, a.groupe)
    <3>1. adhesions' = [adhesions EXCEPT ![r] =
            IF entre THEN Poser(adhesions[r], a, y) ELSE adhesions[r]]
      BY <1>5 DEF AppliquerGroupeMembreRetire
    <3> HIDE DEF entre, a, y
    <3>2. CASE entre BY <3>1, <3>2
    <3>3. CASE ~entre
      <4>1. adhesions' = [adhesions EXCEPT ![r] = adhesions[r]] BY <3>1, <3>3
      <4> QED BY <4>1 DEF IInv, Racines
    <3> QED BY <3>2, <3>3
  <2>3. CASE adhesions' = [adhesions EXCEPT ![r] = Poser(@, a, y)]
    <3>1. DateTenue(x, y)
      <4>1. x \in DateOuNon(Estampille) BY DatesDesTables DEF DateOuNon
      <4> HIDE DEF x, e
      <4> QED BY <2>1, <4>1, PremiereTenue
    <3>2. a \in DOMAIN adhesions[r] => x = adhesions[r][a] OBVIOUS
    <3> HIDE DEF y, e, x, a
    <3>3. ASSUME NEW b \in DOMAIN adhesions[q] \cap DOMAIN adhesions'[q]
          PROVE  DateTenue(adhesions[q][b], adhesions'[q][b])
      <4>1. CASE q = r /\ b = a
        <5>1. adhesions'[q][b] = y BY <2>3, <4>1 DEF IInv, Racines, Poser
        <5> QED BY <3>1, <3>2, <4>1, <5>1
      <4>2. CASE q # r \/ b # a
        <5>1. adhesions'[q][b] = adhesions[q][b]
          BY <2>3, <4>2 DEF IInv, Racines, Poser
        <5> QED BY <5>1, DatesDesTables, PremiereTenue
      <4> QED BY <4>1, <4>2
    <3> QED BY <1>1, <1>2, <3>3, TablesLaissees DEF Tenus, AdhesionsTenues
  <2> HIDE DEF y
  <2> QED BY <1>3, <2>2, <2>3
<1> QED BY <1>3, <1>4, <1>5 DEF AppliquerAuxGroupes, AppliquerGroupe, AppliquerGroupeEtiquette

LEMMA DroitsRecusTenus ==
  ASSUME IInv, NEW r \in Racine, NEW q \in Racine, NEW operation,
         operation \in OperationDe(Emise),
         \/ operation.quoi = "droit" /\ AppliquerDroit(r, operation)
         \/ operation.quoi = "droitRetire" /\ AppliquerDroitRetire(r, operation)
  PROVE  Tenus(q)
<1>1. UNCHANGED <<comptes, domaines, poses, groupes, marques, adhesions>>
  BY DEF AppliquerDroit, AppliquerDroitRetire, tablesDesDomaines, tablesDesGroupes
<1>2. operation \in AuxDroits(Emise)
  BY ChampsGroupes, ChampsDomaines DEF OperationDe
<1>3. CASE AppliquerDroit(r, operation)
  <2>1. \A d \in DOMAIN droits[q] \cap DOMAIN droits'[q] : droits'[q][d] = droits[q][d]
    BY <1>3 DEF AppliquerDroit, Garder, Poser, IInv, Racines
  <2> QED BY <1>1, <2>1, DatesLaissees, TablesLaissees DEF Tenus
<1>4. CASE operation.quoi = "droitRetire" /\ AppliquerDroitRetire(r, operation)
  <2> DEFINE d == operation.droit
             e == operation.estampille
  <2>1. e \in Estampille BY <1>2, ChampsDroits DEF Emise
  <2>2. CASE d \notin DOMAIN droits[r]
    <3>1. droits' = droits BY <1>4, <2>2 DEF AppliquerDroitRetire
    <3> QED BY <1>1, <3>1, TablesLaissees DEF Tenus
  <2>3. CASE d \in DOMAIN droits[r]
    <3> DEFINE y == PremiereMarque(droits[r][d].retire, e)
    <3>1. droits' = [droits EXCEPT ![r][d].retire = y] BY <1>4, <2>3 DEF AppliquerDroitRetire
    <3>2. DateTenue(droits[r][d].retire, y) BY <2>1, <2>3, DatesDesTables, PremiereTenue
    <3> HIDE DEF y, e
    <3>3. ASSUME NEW x \in DOMAIN droits[q] \cap DOMAIN droits'[q]
          PROVE  DateTenue(droits[q][x].retire, droits'[q][x].retire)
      <4>1. CASE q = r /\ x = d
        <5>1. droits'[q][x].retire = y BY <2>3, <3>1, <4>1 DEF IInv, Racines
        <5> QED BY <3>2, <4>1, <5>1
      <4>2. CASE q # r \/ x # d
        <5>1. droits'[q][x].retire = droits[q][x].retire BY <3>1, <4>2 DEF IInv, Racines
        <5> QED BY <5>1, DatesDesTables, PremiereTenue
      <4> QED BY <4>1, <4>2
    <3> QED BY <1>1, <3>3, TablesLaissees DEF Tenus, DroitsTenus
  <2> QED BY <2>2, <2>3
<1> QED BY <1>3, <1>4

LEMMA RecueTenue ==
  ASSUME IInv, NEW r \in Racine, NEW q \in Racine, Recevoir(r)
  PROVE  Tenus(q)
<1> DEFINE operation == Head(enRoute[r])
<1>1. operation \in OperationDe(Emise) BY Recue DEF Recevoir
<1>2. CASE UNCHANGED tables
  BY <1>2, TablesLaissees DEF Tenus, tables, tablesDesDomaines, tablesDesGroupes
<1>3. CASE AppliquerCompteEfface(r, operation)
  <2> HIDE DEF operation
  <2> QED BY <1>2, <1>3, EffacementTenu DEF AppliquerCompteEfface
<1>4. CASE /\ AppliquerGroupeSupprime(r, operation)
           /\ OublierLesDroits(r, DroitsDuGroupe(r, DuDomaine(operation.de)))
           /\ UNCHANGED tablesDesDomaines
  <2> HIDE DEF operation
  <2> QED BY <1>4, DissolutionTenue DEF AppliquerGroupeSupprime
<1>5. \/ AppliquerAuxDomaines(r, operation) \/ AppliquerAuxGroupes(r, operation)
      \/ /\ AppliquerGroupeSupprime(r, operation)
         /\ OublierLesDroits(r, DroitsDuGroupe(r, DuDomaine(operation.de)))
         /\ UNCHANGED tablesDesDomaines
      \/ operation.quoi = "droit" /\ AppliquerDroit(r, operation)
      \/ operation.quoi = "droitRetire" /\ AppliquerDroitRetire(r, operation)
      \/ AppliquerCompteEfface(r, operation)
      \/ UNCHANGED tables
  BY DEF Recevoir
<1> HIDE DEF operation
<1> QED BY <1>1, <1>2, <1>3, <1>4, <1>5, DomainesRecusTenus, GroupesRecusTenus,
           DroitsRecusTenus

LEMMA PasTenu ==
  ASSUME IInv, [Next]_vars, NEW q \in Racine
  PROVE  Tenus(q)
<1>1. CASE UNCHANGED tables
  BY <1>1, TablesLaissees DEF Tenus, tables, tablesDesDomaines, tablesDesGroupes
<1>2. CASE UNCHANGED vars BY <1>1, <1>2 DEF vars
<1>3. CASE Next
  <2>1. PICK r \in Racine : (\E c : Demander(r, c)) \/ Recevoir(r) \/ Amorcer(r)
    BY <1>3 DEF Next
  <2> QED BY <1>1, <2>1, DemandeTenue, RecueTenue DEF Amorcer
<1> QED BY <1>2, <1>3

\* A right that was withdrawn, an addition that was removed, a domain that was deleted
\* stay so, at the first date known, on each root and whatever its peer sends, snapshots
\* included; the mark of a group stays as long as the group (groupes.rs 550, droits.rs
\* 238, domaines.rs 137).
THEOREM DroitsIrreversible ==
  ASSUME Neuves = {}
  PROVE  Spec => Irreversible
<1>1. IInv /\ [Next]_vars =>
        \A r \in Racine :
          /\ \A d \in DOMAIN droits[r] \cap DOMAIN droits'[r] : droits[r][d].retire # Aucune =>
               /\ droits'[r][d].retire # Aucune
               /\ ~Avant(droits[r][d].retire, droits'[r][d].retire)
          /\ \A a \in DOMAIN adhesions[r] \cap DOMAIN adhesions'[r] : adhesions[r][a] # Aucune =>
               /\ adhesions'[r][a] # Aucune
               /\ ~Avant(adhesions[r][a], adhesions'[r][a])
          /\ \A d \in DOMAIN domaines[r] \cap DOMAIN domaines'[r] :
               domaines[r][d].supprime # Aucune =>
                 /\ domaines'[r][d].supprime # Aucune
                 /\ ~Avant(domaines[r][d].supprime, domaines'[r][d].supprime)
          /\ \A g \in DOMAIN marques[r] : g \in DOMAIN groupes'[r] => g \in DOMAIN marques'[r]
  BY PasTenu DEF Tenus, DroitsTenus, AdhesionsTenues, DomainesTenus, MarquesTenues, DateTenue
<1> QED BY <1>1, DroitsInvariant, PTL DEF Spec, Irreversible
=============================================================================
