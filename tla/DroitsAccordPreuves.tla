------------------------- MODULE DroitsAccordPreuves -------------------------
(***************************************************************************)
(* Proofs about Droits.tla, on top of DroitsPreuves.tla and for the same   *)
(* two roots: what is withdrawn, removed or deleted on a root is in effect *)
(* on the other one once nothing brings it any more, and both roots agree  *)
(* when nothing is on its way.                                             *)
(*                                                                         *)
(* The inductive invariant Accord follows facts: that a row exists, the    *)
(* date of a mark or of a value.  A fact of a root is known to its peer, or *)
(* will never be taken there because what it hangs on is gone for good, or *)
(* is on its way; and what an operation needs to be taken is known or      *)
(* comes before it.                                                        *)
(***************************************************************************)
EXTENDS DroitsPreuves

-----------------------------------------------------------------------------
(* What the rows and the operations say and what never changes: the owner  *)
(* of a domain, the domain of a group, a right, the value of a pose; and    *)
(* which additions there are.                                              *)

SansSonRetrait(droit) == [droit EXCEPT !.retire = Aucune]

DitIci(r, quoi, cle, valeur) ==
  \/ quoi = "domaine" /\ cle \in DOMAIN domaines[r] /\ valeur = domaines[r][cle].proprietaire
  \/ quoi = "groupe" /\ cle \in DOMAIN groupes[r] /\ valeur = groupes[r][cle].domaine
  \/ quoi = "adhesion" /\ cle \in DOMAIN adhesions[r] /\ valeur = cle
  \/ quoi = "droit" /\ cle \in DOMAIN droits[r] /\ valeur = SansSonRetrait(droits[r][cle])
  \/ /\ quoi = "pose" /\ cle.de \in DOMAIN poses[r]
     /\ cle.date = poses[r][cle.de].estampille /\ valeur = poses[r][cle.de].valeur

AjoutDe(operation) ==
  [groupe |-> operation.groupe, compte |-> operation.compte,
   ajout |-> IF operation.quoi = "membre" THEN operation.estampille ELSE operation.ajout]

DitPar(operation, quoi, cle, valeur) ==
  \/ /\ quoi = "domaine" /\ operation.quoi = "domaine"
     /\ cle = operation.de /\ valeur = operation.proprietaire
  \/ /\ quoi = "groupe" /\ operation.quoi = "groupe"
     /\ cle = operation.de /\ valeur = operation.domaine
  \/ /\ quoi = "adhesion" /\ operation.quoi \in {"membre", "retire"}
     /\ cle = AjoutDe(operation) /\ valeur = cle
  \/ /\ quoi = "droit" /\ operation.quoi = "droit"
     /\ cle = operation.estampille /\ valeur = SansSonRetrait(operation.enregistrement)
  \/ /\ quoi = "pose" /\ operation.quoi = "pose"
     /\ cle.de = operation.cle /\ cle.date = operation.estampille
     /\ valeur = operation.valeur

EstDit(quoi, cle, valeur) ==
  \E r \in Racine :
    \/ DitIci(r, quoi, cle, valeur)
    \/ \E i \in DOMAIN enRoute[r] : DitPar(enRoute[r][i], quoi, cle, valeur)

\* The stamp under which it was said first.
DateDite(quoi, cle) ==
  IF quoi = "pose" THEN cle.date ELSE IF quoi = "adhesion" THEN cle.ajout ELSE cle

DitUneFois ==
  \A quoi, cle, v, w : EstDit(quoi, cle, v) /\ EstDit(quoi, cle, w) => v = w

\* An owner is never added to the administrators of a domain of his.
JamaisDOffice ==
  \A a : EstDit("adhesion", a, a) =>
    /\ a.groupe.sorte # "personnel"
    /\ a.groupe.sorte = "administrateurs" => ~EstDit("domaine", a.groupe.de, a.compte)

-----------------------------------------------------------------------------
(* What a root will never take again.                                      *)

DomaineClos(r, d) == \A c : EstDit("domaine", d, c) => ~CompteVivant(r, c)

CreeClos(r, g) == \A d : EstDit("groupe", g, d) => DomaineClos(r, d)

GroupeClos(r, g) ==
  \/ g.sorte = "domaine" /\ (g.de \in DOMAIN marques[r] \/ CreeClos(r, g.de))
  \/ g.sorte = "administrateurs" /\ DomaineClos(r, g.de)
  \/ g.sorte = "personnel" /\ ~CompteVivant(r, g.de)

ElementClos(r, x) ==
  \/ x.sorte = "domaine" /\ DomaineClos(r, x.de)
  \/ x.sorte = "machine" /\ ~MachineLa(r, x.de)
  \/ x.sorte = "compte"  /\ ~CompteVivant(r, x.de)

AjoutClos(r, a) == ~CompteVivant(r, a.compte) \/ GroupeClos(r, a.groupe)

RangeeClose(r, droit) ==
  ~CompteVivant(r, droit.par) \/ GroupeClos(r, droit.groupe) \/ ElementClos(r, droit.element)

DroitClos(r, d) == \A droit : EstDit("droit", d, droit) => RangeeClose(r, droit)

CleClose(r, cle) ==
  IF cle.quoi = "alias" THEN DomaineClos(r, cle.de) ELSE ~MachineLa(r, cle.de)

-----------------------------------------------------------------------------
(* What a root knows and its peer must come to know, fact by fact.         *)

FaitDe(E) ==
  [quoi : {"efface"}, de : Connus, date : {Aucune}]
    \cup [quoi : {"domaine", "groupe", "dissous", "droit"}, de : E, date : {Aucune}]
    \cup [quoi : {"supprime", "etiquette", "droitRetire"}, de : E, date : E]
    \cup [quoi : {"membre"}, de : AdhesionDe(E), date : {Aucune}]
    \cup [quoi : {"retire"}, de : AdhesionDe(E), date : E]
    \cup [quoi : {"pose"}, de : CleDe(E), date : E]

\* The fact is in the tables of q, as it is.
Sait(q, f) ==
  \/ f.quoi = "efface" /\ ~CompteVivant(q, f.de)
  \/ f.quoi = "domaine" /\ f.de \in DOMAIN domaines[q]
  \/ f.quoi = "supprime" /\ f.de \in DOMAIN domaines[q] /\ domaines[q][f.de].supprime = f.date
  \/ f.quoi = "groupe" /\ f.de \in DOMAIN groupes[q]
  \/ f.quoi = "etiquette" /\ f.de \in DOMAIN groupes[q] /\ groupes[q][f.de].etiquette = f.date
  \/ f.quoi = "dissous" /\ f.de \in DOMAIN marques[q]
  \/ f.quoi = "membre" /\ f.de \in DOMAIN adhesions[q]
  \/ f.quoi = "retire" /\ f.de \in DOMAIN adhesions[q] /\ adhesions[q][f.de] = f.date
  \/ f.quoi = "droit" /\ f.de \in DOMAIN droits[q]
  \/ f.quoi = "droitRetire" /\ f.de \in DOMAIN droits[q] /\ droits[q][f.de].retire = f.date
  \/ f.quoi = "pose" /\ f.de \in DOMAIN poses[q] /\ poses[q][f.de].estampille = f.date

\* A mark that is not later.
Marquee(marque, e) == marque # Aucune /\ ~Avant(e, marque)

\* The tables of r hold the fact, or what is stronger.
Tient(r, f) ==
  \/ f.quoi = "efface" /\ ~CompteVivant(r, f.de)
  \/ f.quoi = "domaine" /\ f.de \in DOMAIN domaines[r]
  \/ /\ f.quoi = "supprime" /\ f.de \in DOMAIN domaines[r]
     /\ Marquee(domaines[r][f.de].supprime, f.date)
  \/ f.quoi = "groupe" /\ f.de \in DOMAIN groupes[r]
  \/ /\ f.quoi = "etiquette" /\ f.de \in DOMAIN groupes[r]
     /\ ~Avant(groupes[r][f.de].etiquette, f.date)
  \/ f.quoi = "dissous" /\ f.de \in DOMAIN marques[r]
  \/ f.quoi = "membre" /\ f.de \in DOMAIN adhesions[r]
  \/ f.quoi = "retire" /\ f.de \in DOMAIN adhesions[r] /\ Marquee(adhesions[r][f.de], f.date)
  \/ f.quoi = "droit" /\ f.de \in DOMAIN droits[r]
  \/ /\ f.quoi = "droitRetire" /\ f.de \in DOMAIN droits[r]
     /\ Marquee(droits[r][f.de].retire, f.date)
  \/ /\ f.quoi = "pose" /\ f.de \in DOMAIN poses[r]
     /\ ~Avant(poses[r][f.de].estampille, f.date)

Clos(r, f) ==
  \/ f.quoi \in {"domaine", "supprime"} /\ DomaineClos(r, f.de)
  \/ f.quoi \in {"groupe", "etiquette", "dissous"} /\ CreeClos(r, f.de)
  \/ f.quoi \in {"membre", "retire"} /\ AjoutClos(r, f.de)
  \/ f.quoi \in {"droit", "droitRetire"} /\ DroitClos(r, f.de)
  \/ f.quoi = "pose" /\ CleClose(r, f.de)

Su(r, f) == Tient(r, f) \/ Clos(r, f)

\* The operation brings the fact.
Porte(operation, f) ==
  \/ f.quoi = "efface" /\ operation.quoi = "efface" /\ f.de = operation.compte
  \/ /\ f.quoi \in {"domaine", "groupe", "dissous"} /\ operation.quoi = f.quoi
     /\ f.de = operation.de
  \/ /\ f.quoi \in {"supprime", "etiquette"} /\ operation.quoi = f.quoi
     /\ f.de = operation.de /\ f.date = operation.estampille
  \/ /\ f.quoi = "etiquette" /\ operation.quoi = "groupe"
     /\ f.de = operation.de /\ f.date = operation.etiquette
  \/ /\ f.quoi = "membre" /\ operation.quoi \in {"membre", "retire"}
     /\ f.de = AjoutDe(operation)
  \/ /\ f.quoi = "retire" /\ operation.quoi = "retire"
     /\ f.de = AjoutDe(operation) /\ f.date = operation.estampille
  \/ f.quoi = "droit" /\ operation.quoi = "droit" /\ f.de = operation.estampille
  \/ /\ f.quoi = "droitRetire" /\ operation.quoi = "droitRetire"
     /\ f.de = operation.droit /\ f.date = operation.estampille
  \/ /\ f.quoi = "pose" /\ operation.quoi = "pose"
     /\ f.de = operation.cle /\ f.date = operation.estampille

\* The root of what an operation is about: a group is of a domain, or is one.
DuGroupe(g, f) ==
  \/ g.sorte = "domaine" /\ f.quoi = "groupe" /\ f.de = g.de
  \/ g.sorte = "administrateurs" /\ f.quoi = "domaine" /\ f.de = g.de

\* The fact must be known for the operation to be taken.
Requiert(operation, f) ==
  \/ operation.quoi = "supprime" /\ f.quoi = "domaine" /\ f.de = operation.de
  \/ operation.quoi = "groupe" /\ f.quoi = "domaine" /\ f.de = operation.domaine
  \/ operation.quoi = "etiquette" /\ f.quoi = "groupe" /\ f.de = operation.de
  \/ operation.quoi \in {"membre", "retire"} /\ DuGroupe(operation.groupe, f)
  \/ operation.quoi = "droit" /\ DuGroupe(operation.enregistrement.groupe, f)
  \/ /\ operation.quoi = "droit" /\ operation.enregistrement.element.sorte = "domaine"
     /\ f.quoi = "domaine" /\ f.de = operation.enregistrement.element.de
  \/ operation.quoi = "droitRetire" /\ f.quoi = "droit" /\ f.de = operation.droit
  \/ /\ operation.quoi = "pose" /\ operation.cle.quoi = "alias"
     /\ f.quoi = "domaine" /\ f.de = operation.cle.de

-----------------------------------------------------------------------------
(* The invariant of agreement.                                             *)

\* A root knows what it wrote.
Ecrit(r) ==
  \A i \in DOMAIN enRoute[Pair[r]] : \A f \in FaitDe(Emise) :
    Porte(enRoute[Pair[r]][i], f) => Su(r, f)

\* What its peer knows is known or on its way; a snapshot loses the withdrawal of a
\* right that is there.
Couvert(r) ==
  \A f \in FaitDe(Emise) :
    Sait(Pair[r], f) /\ (f.quoi = "droitRetire" => amorcages = 0) =>
      Su(r, f) \/ \E i \in DOMAIN enRoute[r] : Porte(enRoute[r][i], f)

\* What an operation needs comes before it.
Precede(r, s, i) ==
  \A f \in FaitDe(Emise) :
    Requiert(s[i], f) => Su(r, f) \/ \E j \in DOMAIN s : j < i /\ Porte(s[j], f)

Ordonne(r) == \A i \in DOMAIN enRoute[r] : Precede(r, enRoute[r], i)

\* The journal tells a right before its withdrawal.
SansRetraits ==
  amorcages = 0 =>
    \A r \in Racine : \A i \in DOMAIN enRoute[r] :
      enRoute[r][i].quoi = "droit" => enRoute[r][i].enregistrement.retire = Aucune

Accord ==
  /\ DitUneFois /\ JamaisDOffice /\ SansRetraits
  /\ \A r \in Racine : Ecrit(r) /\ Couvert(r) /\ Ordonne(r)

-----------------------------------------------------------------------------
(* Types of what is said and of the facts.                                 *)

LEMMA FaitLu ==
  ASSUME NEW E, NEW f \in FaitDe(E)
  PROVE  /\ f.quoi \in {"efface", "domaine", "supprime", "groupe", "etiquette", "dissous",
                        "membre", "retire", "droit", "droitRetire", "pose"}
         /\ f.quoi = "efface" => f.de \in Connus
         /\ f.quoi \in {"domaine", "groupe", "dissous", "droit", "supprime", "etiquette",
                        "droitRetire"} => f.de \in E
         /\ f.quoi \in {"supprime", "etiquette", "droitRetire", "retire", "pose"} => f.date \in E
         /\ f.quoi \in {"membre", "retire"} => f.de \in AdhesionDe(E)
         /\ f.quoi = "pose" => f.de \in CleDe(E)
BY DEF FaitDe

LEMMA FaitRelu ==
  ASSUME NEW E, NEW F, NEW f \in FaitDe(F),
         f.quoi \in {"domaine", "groupe", "dissous", "droit", "supprime", "etiquette",
                     "droitRetire"} => f.de \in E,
         f.quoi \in {"supprime", "etiquette", "droitRetire", "retire", "pose"} => f.date \in E,
         f.quoi \in {"membre", "retire"} => f.de \in AdhesionDe(E),
         f.quoi = "pose" => f.de \in CleDe(E)
  PROVE  f \in FaitDe(E)
<1>1. CASE f \in [quoi : {"efface"}, de : Connus, date : {Aucune}] BY <1>1 DEF FaitDe
<1>2. CASE f \in [quoi : {"domaine", "groupe", "dissous", "droit"}, de : F, date : {Aucune}]
  <2>1. f \in [quoi : {"domaine", "groupe", "dissous", "droit"}, de : E, date : {Aucune}] BY <1>2
  <2> QED BY <2>1 DEF FaitDe
<1>3. CASE f \in [quoi : {"supprime", "etiquette", "droitRetire"}, de : F, date : F]
  <2>1. f \in [quoi : {"supprime", "etiquette", "droitRetire"}, de : E, date : E] BY <1>3
  <2> QED BY <2>1 DEF FaitDe
<1>4. CASE f \in [quoi : {"membre"}, de : AdhesionDe(F), date : {Aucune}]
  <2>1. f \in [quoi : {"membre"}, de : AdhesionDe(E), date : {Aucune}] BY <1>4
  <2> QED BY <2>1 DEF FaitDe
<1>5. CASE f \in [quoi : {"retire"}, de : AdhesionDe(F), date : F]
  <2>1. f \in [quoi : {"retire"}, de : AdhesionDe(E), date : E] BY <1>5
  <2> QED BY <2>1 DEF FaitDe
<1>6. CASE f \in [quoi : {"pose"}, de : CleDe(F), date : F]
  <2>1. f \in [quoi : {"pose"}, de : CleDe(E), date : E] BY <1>6
  <2> QED BY <2>1 DEF FaitDe
<1> QED BY <1>1, <1>2, <1>3, <1>4, <1>5, <1>6 DEF FaitDe

LEMMA FaitsLarges ==
  ASSUME NEW E, NEW F, E \subseteq F
  PROVE  FaitDe(E) \subseteq FaitDe(F)
<1> SUFFICES ASSUME NEW f \in FaitDe(E) PROVE f \in FaitDe(F) OBVIOUS
<1>1. AdhesionDe(E) \subseteq AdhesionDe(F) /\ CleDe(E) \subseteq CleDe(F) BY RangeesLarges
<1> QED BY <1>1, FaitLu, FaitRelu

\* The kind of an operation tells its type.
LEMMA SorteDOperation ==
  ASSUME NEW E, NEW operation \in OperationDe(E)
  PROVE  /\ operation.quoi \in {"compte", "efface", "alias", "domaine", "supprime", "pose", "fin"}
              => operation \in AuxDomaines(E)
         /\ operation.quoi \in {"groupe", "etiquette", "dissous", "membre", "retire"}
              => operation \in AuxGroupes(E)
         /\ operation.quoi \in {"droit", "droitRetire"} => operation \in AuxDroits(E)
<1>1. CASE operation \in AuxDomaines(E)
  <2>1. operation.quoi \in {"compte", "efface", "alias", "domaine", "supprime", "pose", "fin"}
    BY <1>1, ChampsDomaines
  <2> QED BY <1>1, <2>1
<1>2. CASE operation \in AuxGroupes(E)
  <2>1. operation.quoi \in {"groupe", "etiquette", "dissous", "membre", "retire"}
    BY <1>2, ChampsGroupes
  <2> QED BY <1>2, <2>1
<1>3. CASE operation \in AuxDroits(E)
  <2>1. operation.quoi \in {"droit", "droitRetire"} BY <1>3, ChampsDroits
  <2> QED BY <1>3, <2>1
<1> QED BY <1>1, <1>2, <1>3 DEF OperationDe

LEMMA AjoutType ==
  ASSUME NEW E, NEW operation \in OperationDe(E), operation.quoi \in {"membre", "retire"}
  PROVE  /\ AjoutDe(operation) \in AdhesionDe(E)
         /\ AjoutDe(operation).groupe = operation.groupe
         /\ AjoutDe(operation).compte = operation.compte
<1>1. operation \in AuxGroupes(E) BY SorteDOperation
<1>2. /\ operation.groupe \in GroupeDe(E) /\ operation.compte \in Connus
      /\ operation.estampille \in E
      /\ operation.quoi = "retire" => operation.ajout \in E
  BY <1>1, ChampsGroupes
<1> QED BY <1>2 DEF AjoutDe, AdhesionDe

LEMMA PorteType ==
  ASSUME NEW E, NEW F, NEW operation \in OperationDe(E), NEW f \in FaitDe(F), Porte(operation, f)
  PROVE  f \in FaitDe(E)
<1>1. CASE f.quoi = "efface" BY <1>1, FaitRelu
<1>2. CASE f.quoi \in {"domaine", "supprime", "pose"}
  <2>1. operation \in AuxDomaines(E) BY <1>2, SorteDOperation DEF Porte
  <2>2. /\ operation.quoi # "efface" /\ operation.quoi # "compte"
        /\ operation.quoi = f.quoi
    BY <1>2 DEF Porte
  <2>3. /\ operation.estampille \in E
        /\ operation.quoi # "pose" => operation.de \in E
        /\ operation.quoi = "pose" => operation.cle \in CleDe(E)
    BY <1>2, <2>1, <2>2, ChampsDomaines DEF DomaineNe
  <2>4. /\ f.quoi # "pose" => f.de \in E
        /\ f.quoi # "domaine" => f.date \in E
        /\ f.quoi = "pose" => f.de \in CleDe(E)
    BY <1>2, <2>2, <2>3 DEF Porte
  <2> QED BY <1>2, <2>4, FaitRelu
<1>3. CASE f.quoi \in {"groupe", "etiquette", "dissous"}
  <2>1. operation \in AuxGroupes(E) /\ operation.quoi \in {"groupe", "etiquette", "dissous"}
    BY <1>3, SorteDOperation DEF Porte
  <2>2. /\ operation.estampille \in E /\ operation.de \in E
        /\ operation.quoi = "groupe" => operation.etiquette \in E
    BY <2>1, ChampsGroupes
  <2>3. f.de \in E /\ (f.quoi = "etiquette" => f.date \in E) BY <1>3, <2>2 DEF Porte
  <2> QED BY <1>3, <2>2, <2>3, FaitRelu DEF Porte
<1>4. CASE f.quoi \in {"membre", "retire"}
  <2>1. operation \in AuxGroupes(E) /\ operation.quoi \in {"membre", "retire"}
    BY <1>4, SorteDOperation DEF Porte
  <2>2. operation.estampille \in E BY <2>1, ChampsGroupes
  <2>3. f.de \in AdhesionDe(E) /\ (f.quoi = "retire" => f.date \in E)
    BY <1>4, <2>1, <2>2, AjoutType DEF Porte
  <2> QED BY <1>4, <2>3, <2>2, FaitRelu DEF Porte
<1>5. CASE f.quoi \in {"droit", "droitRetire"}
  <2>1. operation \in AuxDroits(E) BY <1>5, SorteDOperation DEF Porte
  <2>2. operation.estampille \in E /\ (operation.quoi = "droitRetire" => operation.droit \in E)
    BY <2>1, ChampsDroits
  <2> QED BY <1>5, <2>2, FaitRelu DEF Porte
<1> QED BY <1>1, <1>2, <1>3, <1>4, <1>5, FaitLu

LEMMA RequiertType ==
  ASSUME NEW E, NEW F, NEW operation \in OperationDe(E), NEW f \in FaitDe(F),
         Requiert(operation, f)
  PROVE  f \in FaitDe(E) /\ f.quoi \in {"domaine", "groupe", "droit"}
<1>1. f.quoi \in {"domaine", "groupe", "droit"} BY DEF Requiert, DuGroupe
<1>2. f.de \in E
  <2>1. CASE operation.quoi \in {"supprime", "pose"}
    <3>1. operation \in AuxDomaines(E) BY <2>1, SorteDOperation
    <3>2. /\ operation.quoi = "supprime" => operation.de \in E
          /\ operation.quoi = "pose" => operation.cle.de \in E
      BY <3>1, ChampsDomaines DEF CleDe
    <3> QED BY <2>1, <3>2 DEF Requiert
  <2>2. CASE operation.quoi \in {"groupe", "etiquette", "membre", "retire"}
    <3>1. operation \in AuxGroupes(E) BY <2>2, SorteDOperation
    <3>2. /\ operation.quoi = "groupe" => operation.domaine \in E
          /\ operation.quoi = "etiquette" => operation.de \in E
          /\ operation.quoi \in {"membre", "retire"} => operation.groupe.de \in E
      BY <3>1, ChampsGroupes DEF GroupeDe
    <3> QED BY <2>2, <3>2 DEF Requiert, DuGroupe
  <2>3. CASE operation.quoi \in {"droit", "droitRetire"}
    <3>1. operation \in AuxDroits(E) BY <2>3, SorteDOperation
    <3>2. /\ operation.quoi = "droitRetire" => operation.droit \in E
          /\ operation.quoi = "droit" => operation.enregistrement \in DroitDe(E)
      BY <3>1, ChampsDroits
    <3>3. operation.quoi = "droit" => /\ operation.enregistrement.groupe.de \in E
                                      /\ operation.enregistrement.element.de \in E
      BY <3>2 DEF DroitDe, GroupeDe, ElementDe
    <3> QED BY <2>3, <3>2, <3>3 DEF Requiert, DuGroupe
  <2> QED BY <2>1, <2>2, <2>3 DEF Requiert
<1> QED BY <1>1, <1>2, FaitRelu

LEMMA RangeesLues ==
  ASSUME IInv, NEW q \in Racine
  PROVE  /\ \A d \in DOMAIN domaines[q] :
              d \in Emise /\ domaines[q][d].supprime \in DateOuNon(Emise)
         /\ \A g \in DOMAIN groupes[q] : g \in Emise /\ groupes[q][g].etiquette \in Emise
         /\ \A g \in DOMAIN marques[q] : g \in Emise
         /\ \A a \in DOMAIN adhesions[q] :
              a \in AdhesionDe(Emise) /\ adhesions[q][a] \in DateOuNon(Emise)
         /\ \A d \in DOMAIN droits[q] :
              d \in Emise /\ droits[q][d] \in DroitDe(Emise)
              /\ droits[q][d].retire \in DateOuNon(Emise)
         /\ \A k \in DOMAIN poses[q] :
              k \in CleDe(Emise) /\ poses[q][k].estampille \in Emise
              /\ poses[q][k].valeur \in DateOuNon(Emise)
<1>1. /\ TableDe(domaines[q], DomaineNe(Emise), RangeeDeDomaine(Emise))
      /\ TableDe(poses[q], CleDe(Emise), PoseDe(Emise))
      /\ TableDe(groupes[q], Emise, GroupeCree(Emise)) /\ TableDe(marques[q], Emise, Emise)
      /\ TableDe(adhesions[q], AdhesionDe(Emise), DateOuNon(Emise))
      /\ TableDe(droits[q], Emise, DroitDe(Emise))
  BY DEF IInv, Locale, DomainesJustes, PosesJustes, GroupesJustes, AdhesionsJustes, DroitsJustes
<1>2. \A d \in DOMAIN domaines[q] :
        d \in Emise /\ domaines[q][d].supprime \in DateOuNon(Emise)
  BY <1>1 DEF TableDe, DomaineNe, RangeeDeDomaine
<1>3. \A g \in DOMAIN groupes[q] : g \in Emise /\ groupes[q][g].etiquette \in Emise
  BY <1>1 DEF TableDe, GroupeCree
<1>4. \A g \in DOMAIN marques[q] : g \in Emise BY <1>1 DEF TableDe
<1>5. \A a \in DOMAIN adhesions[q] :
        a \in AdhesionDe(Emise) /\ adhesions[q][a] \in DateOuNon(Emise)
  BY <1>1 DEF TableDe
<1>6. \A d \in DOMAIN droits[q] : d \in Emise /\ droits[q][d] \in DroitDe(Emise)
  BY <1>1 DEF TableDe
<1>7. \A droit \in DroitDe(Emise) : droit.retire \in DateOuNon(Emise) BY DEF DroitDe
<1>8. \A k \in DOMAIN poses[q] :
        k \in CleDe(Emise) /\ poses[q][k].estampille \in Emise
        /\ poses[q][k].valeur \in DateOuNon(Emise)
  BY <1>1 DEF TableDe, PoseDe
<1> QED BY <1>2, <1>3, <1>4, <1>5, <1>6, <1>7, <1>8

LEMMA SaitType ==
  ASSUME IInv, NEW q \in Racine, NEW F \in SUBSET Estampille, NEW f \in FaitDe(F), Sait(q, f)
  PROVE  f \in FaitDe(Emise)
<1>1. f.quoi \in {"supprime", "etiquette", "droitRetire", "retire", "pose"} => f.date # Aucune
  BY FaitLu, PasDEstampille
<1>2. f.quoi \in {"domaine", "groupe", "dissous", "droit", "supprime", "etiquette",
                  "droitRetire"} => f.de \in Emise
  BY RangeesLues DEF Sait
<1>3. f.quoi \in {"membre", "retire"} => f.de \in AdhesionDe(Emise) BY RangeesLues DEF Sait
<1>4. f.quoi = "pose" => f.de \in CleDe(Emise) BY RangeesLues DEF Sait
<1>5. f.quoi \in {"supprime", "etiquette", "droitRetire", "retire", "pose"} => f.date \in Emise
  BY <1>1, RangeesLues DEF Sait, DateOuNon
<1> QED BY <1>2, <1>3, <1>4, <1>5, FaitRelu

LEMMA DitPasType ==
  ASSUME NEW E, NEW operation \in OperationDe(E), NEW quoi, NEW cle, NEW valeur,
         DitPar(operation, quoi, cle, valeur)
  PROVE  /\ quoi \in {"domaine", "groupe", "adhesion", "droit", "pose"}
         /\ quoi = "domaine" => cle \in E /\ valeur \in Connus
         /\ quoi = "groupe" => cle \in E /\ valeur \in E
         /\ quoi = "adhesion" => cle \in AdhesionDe(E) /\ valeur = cle
         /\ quoi = "droit" => /\ cle \in E /\ valeur.par \in Connus
                              /\ valeur.groupe \in GroupeDe(E) /\ valeur.element \in ElementDe(E)
         /\ quoi = "pose" => cle.de \in CleDe(E) /\ cle.date \in E
<1>1. CASE quoi = "domaine"
  <2>1. operation.quoi = "domaine" /\ operation \in AuxDomaines(E)
    BY <1>1, SorteDOperation DEF DitPar
  <2> QED BY <1>1, <2>1, ChampsDomaines DEF DitPar, DomaineNe
<1>2. CASE quoi = "groupe"
  <2>1. operation.quoi = "groupe" /\ operation \in AuxGroupes(E)
    BY <1>2, SorteDOperation DEF DitPar
  <2> QED BY <1>2, <2>1, ChampsGroupes DEF DitPar
<1>3. CASE quoi = "adhesion" BY <1>3, AjoutType DEF DitPar
<1>4. CASE quoi = "droit"
  <2>1. operation.quoi = "droit" /\ operation \in AuxDroits(E)
    BY <1>4, SorteDOperation DEF DitPar
  <2>2. operation.estampille \in E /\ operation.enregistrement \in DroitDe(E)
    BY <2>1, ChampsDroits
  <2>3. /\ valeur.par = operation.enregistrement.par
        /\ valeur.groupe = operation.enregistrement.groupe
        /\ valeur.element = operation.enregistrement.element
    BY <1>4, <2>2 DEF DitPar, SansSonRetrait, DroitDe
  <2> QED BY <1>4, <2>2, <2>3 DEF DitPar, DroitDe
<1>5. CASE quoi = "pose"
  <2>1. operation.quoi = "pose" /\ operation \in AuxDomaines(E)
    BY <1>5, SorteDOperation DEF DitPar
  <2> QED BY <1>5, <2>1, ChampsDomaines DEF DitPar
<1> QED BY <1>1, <1>2, <1>3, <1>4, <1>5 DEF DitPar

LEMMA DitIciType ==
  ASSUME IInv, NEW r \in Racine, NEW quoi, NEW cle, NEW valeur, DitIci(r, quoi, cle, valeur)
  PROVE  /\ quoi \in {"domaine", "groupe", "adhesion", "droit", "pose"}
         /\ quoi = "domaine" => cle \in Emise /\ valeur \in Connus
         /\ quoi = "groupe" => cle \in Emise /\ valeur \in Emise
         /\ quoi = "adhesion" => cle \in AdhesionDe(Emise) /\ valeur = cle
         /\ quoi = "droit" =>
              /\ cle \in Emise /\ valeur.par \in Connus
              /\ valeur.groupe \in GroupeDe(Emise) /\ valeur.element \in ElementDe(Emise)
         /\ quoi = "pose" => cle.de \in CleDe(Emise) /\ cle.date \in Emise
<1>1. CASE quoi = "domaine" BY <1>1, DomaineType DEF DitIci
<1>2. CASE quoi = "groupe"
  <2>1. cle \in DOMAIN groupes[r] /\ TableDe(groupes[r], Emise, GroupeCree(Emise))
    BY <1>2 DEF DitIci, IInv, Locale, GroupesJustes
  <2> QED BY <1>2, <2>1 DEF DitIci, TableDe, GroupeCree
<1>3. CASE quoi = "adhesion" BY <1>3, RangeesLues DEF DitIci
<1>4. CASE quoi = "droit"
  <2>1. cle \in DOMAIN droits[r] /\ cle \in Emise /\ droits[r][cle] \in DroitDe(Emise)
    BY <1>4, RangeesLues DEF DitIci
  <2>2. /\ valeur.par = droits[r][cle].par /\ valeur.groupe = droits[r][cle].groupe
        /\ valeur.element = droits[r][cle].element
    BY <1>4, <2>1 DEF DitIci, SansSonRetrait, DroitDe
  <2> QED BY <1>4, <2>1, <2>2 DEF DroitDe
<1>5. CASE quoi = "pose" BY <1>5, RangeesLues DEF DitIci
<1> QED BY <1>1, <1>2, <1>3, <1>4, <1>5 DEF DitIci

LEMMA EnRouteType ==
  ASSUME IInv, NEW r \in Racine, NEW i \in DOMAIN enRoute[r]
  PROVE  enRoute[r][i] \in OperationDe(Emise)
BY DEF IInv, Voies

LEMMA DitType ==
  ASSUME IInv, NEW quoi, NEW cle, NEW valeur, EstDit(quoi, cle, valeur)
  PROVE  /\ quoi \in {"domaine", "groupe", "adhesion", "droit", "pose"}
         /\ quoi = "domaine" => cle \in Emise /\ valeur \in Connus
         /\ quoi = "groupe" => cle \in Emise /\ valeur \in Emise
         /\ quoi = "adhesion" => cle \in AdhesionDe(Emise) /\ valeur = cle
         /\ quoi = "droit" =>
              /\ cle \in Emise /\ valeur.par \in Connus
              /\ valeur.groupe \in GroupeDe(Emise) /\ valeur.element \in ElementDe(Emise)
         /\ quoi = "pose" => cle.de \in CleDe(Emise) /\ cle.date \in Emise
         /\ DateDite(quoi, cle) \in Emise
<1>1. PICK r \in Racine : \/ DitIci(r, quoi, cle, valeur)
                          \/ \E i \in DOMAIN enRoute[r] : DitPar(enRoute[r][i], quoi, cle, valeur)
  BY DEF EstDit
<1>2. CASE DitIci(r, quoi, cle, valeur) BY <1>2, DitIciType DEF DateDite, AdhesionDe
<1>3. CASE \E i \in DOMAIN enRoute[r] : DitPar(enRoute[r][i], quoi, cle, valeur)
  BY <1>3, DitPasType, EnRouteType DEF DateDite, AdhesionDe
<1> QED BY <1>1, <1>2, <1>3

-----------------------------------------------------------------------------
(* What a step keeps of what is closed and of what is known.               *)

\* Nothing more is said of what was said before the step.
DitsRestent ==
  \A quoi, cle, valeur :
    EstDit(quoi, cle, valeur)' => EstDit(quoi, cle, valeur) \/ DateDite(quoi, cle) \notin Emise

\* The accounts leave, and a mark leaves with the account of its domain.
Ferme(r) ==
  /\ \A c : CompteVivant(r, c)' => CompteVivant(r, c)
  /\ \A g \in DOMAIN marques[r] : g \in DOMAIN marques'[r] \/ CreeClos(r, g)'

LEMMA DomaineClosReste ==
  ASSUME DitsRestent, NEW r \in Racine, Ferme(r), NEW d \in Emise, DomaineClos(r, d)
  PROVE  DomaineClos(r, d)'
<1> SUFFICES ASSUME NEW c, EstDit("domaine", d, c)' PROVE ~CompteVivant(r, c)'
  BY DEF DomaineClos
<1>1. EstDit("domaine", d, c) BY DEF DitsRestent, DateDite
<1> QED BY <1>1 DEF DomaineClos, Ferme

LEMMA CreeClosReste ==
  ASSUME IInv, DitsRestent, NEW r \in Racine, Ferme(r), NEW g \in Emise, CreeClos(r, g)
  PROVE  CreeClos(r, g)'
<1> SUFFICES ASSUME NEW d, EstDit("groupe", g, d)' PROVE DomaineClos(r, d)'
  BY DEF CreeClos
<1>1. EstDit("groupe", g, d) BY DEF DitsRestent, DateDite
<1>2. d \in Emise BY <1>1, DitType
<1> QED BY <1>1, <1>2, DomaineClosReste DEF CreeClos

LEMMA GroupeClosReste ==
  ASSUME IInv, DitsRestent, NEW r \in Racine, Ferme(r), NEW g \in GroupeDe(Emise),
         GroupeClos(r, g)
  PROVE  GroupeClos(r, g)'
<1>1. g.de \in Emise BY DEF GroupeDe
<1>2. CASE g.sorte = "domaine"
  BY <1>1, <1>2, CreeClosReste DEF GroupeClos, Ferme
<1>3. CASE g.sorte = "administrateurs"
  BY <1>1, <1>3, DomaineClosReste DEF GroupeClos
<1>4. CASE g.sorte = "personnel" BY <1>4 DEF GroupeClos, Ferme
<1> QED BY <1>2, <1>3, <1>4 DEF GroupeClos

LEMMA ElementClosReste ==
  ASSUME IInv, DitsRestent, NEW r \in Racine, Ferme(r), NEW x \in ElementDe(Emise),
         ElementClos(r, x)
  PROVE  ElementClos(r, x)'
<1>1. x.de \in Emise BY DEF ElementDe
<1>2. CASE x.sorte = "domaine" BY <1>1, <1>2, DomaineClosReste DEF ElementClos
<1>3. CASE x.sorte = "machine" BY <1>3 DEF ElementClos, Ferme, MachineLa
<1>4. CASE x.sorte = "compte" BY <1>4 DEF ElementClos, Ferme
<1> QED BY <1>2, <1>3, <1>4 DEF ElementClos

LEMMA DroitClosReste ==
  ASSUME IInv, DitsRestent, NEW r \in Racine, Ferme(r), NEW d \in Emise, DroitClos(r, d)
  PROVE  DroitClos(r, d)'
<1> SUFFICES ASSUME NEW droit, EstDit("droit", d, droit)' PROVE RangeeClose(r, droit)'
  BY DEF DroitClos
<1>1. EstDit("droit", d, droit) BY DEF DitsRestent, DateDite
<1>2. droit.groupe \in GroupeDe(Emise) /\ droit.element \in ElementDe(Emise)
  BY <1>1, DitType
<1>3. RangeeClose(r, droit) BY <1>1 DEF DroitClos
<1>4. CASE ~CompteVivant(r, droit.par) BY <1>4 DEF RangeeClose, Ferme
<1>5. CASE GroupeClos(r, droit.groupe) BY <1>2, <1>5, GroupeClosReste DEF RangeeClose
<1>6. CASE ElementClos(r, droit.element) BY <1>2, <1>6, ElementClosReste DEF RangeeClose
<1> QED BY <1>3, <1>4, <1>5, <1>6 DEF RangeeClose

LEMMA ClosReste ==
  ASSUME IInv, DitsRestent, NEW r \in Racine, Ferme(r), NEW f \in FaitDe(Emise), Clos(r, f)
  PROVE  Clos(r, f)'
<1>1. CASE f.quoi \in {"domaine", "supprime"}
  <2>1. f.de \in Emise BY <1>1, FaitLu
  <2> QED BY <1>1, <2>1, DomaineClosReste DEF Clos
<1>2. CASE f.quoi \in {"groupe", "etiquette", "dissous"}
  <2>1. f.de \in Emise BY <1>2, FaitLu
  <2> QED BY <1>2, <2>1, CreeClosReste DEF Clos
<1>3. CASE f.quoi \in {"membre", "retire"}
  <2>1. f.de \in AdhesionDe(Emise) BY <1>3, FaitLu
  <2>2. f.de.groupe \in GroupeDe(Emise) BY <2>1 DEF AdhesionDe
  <2>3. AjoutClos(r, f.de) BY <1>3 DEF Clos
  <2>4. AjoutClos(r, f.de)' BY <2>2, <2>3, GroupeClosReste DEF AjoutClos, Ferme
  <2> QED BY <1>3, <2>4 DEF Clos
<1>4. CASE f.quoi \in {"droit", "droitRetire"}
  <2>1. f.de \in Emise BY <1>4, FaitLu
  <2> QED BY <1>4, <2>1, DroitClosReste DEF Clos
<1>5. CASE f.quoi = "pose"
  <2>1. f.de \in CleDe(Emise) BY <1>5, FaitLu
  <2>2. f.de.de \in Emise BY <2>1 DEF CleDe
  <2>3. CleClose(r, f.de) BY <1>5 DEF Clos
  <2>4. CASE f.de.quoi = "alias"
    <3>1. DomaineClos(r, f.de.de)' BY <2>2, <2>3, <2>4, DomaineClosReste DEF CleClose
    <3> QED BY <1>5, <2>4, <3>1 DEF Clos, CleClose
  <2>5. CASE f.de.quoi # "alias"
    <3>1. ~MachineLa(r, f.de.de)' BY <2>3, <2>5 DEF CleClose, Ferme, MachineLa
    <3> QED BY <1>5, <2>5, <3>1 DEF Clos, CleClose
  <2> QED BY <2>4, <2>5
<1> QED BY <1>1, <1>2, <1>3, <1>4, <1>5 DEF Clos

\* What is known stays known.
Garde(r) == \A f \in FaitDe(Emise) : Su(r, f) => Su(r, f)'

\* The tables only grow.
Grandit(r) ==
  /\ \A c : CompteVivant(r, c)' <=> CompteVivant(r, c)
  /\ DOMAIN domaines[r] \subseteq DOMAIN domaines'[r]
  /\ DOMAIN groupes[r] \subseteq DOMAIN groupes'[r]
  /\ DOMAIN marques[r] \subseteq DOMAIN marques'[r]
  /\ DOMAIN adhesions[r] \subseteq DOMAIN adhesions'[r]
  /\ DOMAIN droits[r] \subseteq DOMAIN droits'[r]
  /\ DOMAIN poses[r] \subseteq DOMAIN poses'[r]
  /\ \A g \in DOMAIN groupes[r] : ~Avant(groupes'[r][g].etiquette, groupes[r][g].etiquette)
  /\ \A k \in DOMAIN poses[r] : ~Avant(poses'[r][k].estampille, poses[r][k].estampille)

\* A mark that is kept is still not later.
LEMMA MarqueeReste ==
  ASSUME NEW marque \in DateOuNon(Estampille), NEW apres \in DateOuNon(Estampille),
         DateTenue(marque, apres), NEW e \in Estampille, Marquee(marque, e)
  PROVE  Marquee(apres, e)
<1>1. marque # Aucune /\ marque \in Estampille BY DEF Marquee, DateOuNon
<1>2. apres # Aucune /\ apres \in Estampille /\ ~Avant(marque, apres)
  BY <1>1 DEF DateTenue, DateOuNon
<1>3. ~Avant(e, marque) BY DEF Marquee
<1> QED BY <1>1, <1>2, <1>3, OrdreTransitif DEF Marquee

LEMMA EmiseEstampilles == Emise \subseteq Estampille /\ Emise' \subseteq Estampille
BY DEF Emise, Estampille

DatesDe(q) ==
  /\ \A d \in DOMAIN domaines[q] : domaines[q][d].supprime \in DateOuNon(Estampille)
  /\ \A g \in DOMAIN groupes[q] : groupes[q][g].etiquette \in Estampille
  /\ \A a \in DOMAIN adhesions[q] : adhesions[q][a] \in DateOuNon(Estampille)
  /\ \A d \in DOMAIN droits[q] : droits[q][d].retire \in DateOuNon(Estampille)
  /\ \A k \in DOMAIN poses[q] : poses[q][k].estampille \in Estampille

LEMMA DatesLues == IInv => \A q \in Racine : DatesDe(q)
BY RangeesLues, EmiseEstampilles DEF DateOuNon, DatesDe

LEMMA DatesLuesApres == IInv' => \A q \in Racine : DatesDe(q)'
<1>1. (IInv => \A q \in Racine : DatesDe(q))' BY DatesLues, PTL
<1> QED BY <1>1

LEMMA TientReste ==
  ASSUME IInv, IInv', NEW r \in Racine, Grandit(r), Tenus(r), NEW f \in FaitDe(Emise),
         Tient(r, f)
  PROVE  Tient(r, f)'
<1>1. f.quoi \in {"supprime", "etiquette", "droitRetire", "retire", "pose"} => f.date \in Estampille
  BY FaitLu, EmiseEstampilles
<1>2. DatesDe(r) /\ DatesDe(r)' BY DatesLues, DatesLuesApres
<1>3. CASE f.quoi \in {"efface", "domaine", "groupe", "dissous", "membre", "droit"}
  BY <1>3 DEF Tient, Grandit
<1>4. CASE f.quoi = "supprime"
  <2>1. f.de \in DOMAIN domaines[r] /\ Marquee(domaines[r][f.de].supprime, f.date)
    BY <1>4 DEF Tient
  <2>2. f.de \in DOMAIN domaines'[r] BY <2>1 DEF Grandit
  <2>3. DateTenue(domaines[r][f.de].supprime, domaines'[r][f.de].supprime)
    BY <2>1, <2>2 DEF Tenus, DomainesTenus
  <2>4. Marquee(domaines'[r][f.de].supprime, f.date)
    BY <1>1, <1>2, <1>4, <2>1, <2>2, <2>3, MarqueeReste DEF DatesDe
  <2> QED BY <1>4, <2>2, <2>4 DEF Tient
<1>5. CASE f.quoi = "retire"
  <2>1. f.de \in DOMAIN adhesions[r] /\ Marquee(adhesions[r][f.de], f.date)
    BY <1>5 DEF Tient
  <2>2. f.de \in DOMAIN adhesions'[r] BY <2>1 DEF Grandit
  <2>3. DateTenue(adhesions[r][f.de], adhesions'[r][f.de])
    BY <2>1, <2>2 DEF Tenus, AdhesionsTenues
  <2>4. Marquee(adhesions'[r][f.de], f.date)
    BY <1>1, <1>2, <1>5, <2>1, <2>2, <2>3, MarqueeReste DEF DatesDe
  <2> QED BY <1>5, <2>2, <2>4 DEF Tient
<1>6. CASE f.quoi = "droitRetire"
  <2>1. f.de \in DOMAIN droits[r] /\ Marquee(droits[r][f.de].retire, f.date)
    BY <1>6 DEF Tient
  <2>2. f.de \in DOMAIN droits'[r] BY <2>1 DEF Grandit
  <2>3. DateTenue(droits[r][f.de].retire, droits'[r][f.de].retire)
    BY <2>1, <2>2 DEF Tenus, DroitsTenus
  <2>4. Marquee(droits'[r][f.de].retire, f.date)
    BY <1>1, <1>2, <1>6, <2>1, <2>2, <2>3, MarqueeReste DEF DatesDe
  <2> QED BY <1>6, <2>2, <2>4 DEF Tient
<1>7. CASE f.quoi = "etiquette"
  <2>1. f.de \in DOMAIN groupes[r] /\ ~Avant(groupes[r][f.de].etiquette, f.date)
    BY <1>7 DEF Tient
  <2>2. f.de \in DOMAIN groupes'[r]
        /\ ~Avant(groupes'[r][f.de].etiquette, groupes[r][f.de].etiquette)
    BY <2>1 DEF Grandit
  <2>3. ~Avant(groupes'[r][f.de].etiquette, f.date)
    BY <1>1, <1>2, <1>7, <2>1, <2>2, OrdreTransitif DEF DatesDe
  <2> QED BY <1>7, <2>2, <2>3 DEF Tient
<1>8. CASE f.quoi = "pose"
  <2>1. f.de \in DOMAIN poses[r] /\ ~Avant(poses[r][f.de].estampille, f.date)
    BY <1>8 DEF Tient
  <2>2. f.de \in DOMAIN poses'[r]
        /\ ~Avant(poses'[r][f.de].estampille, poses[r][f.de].estampille)
    BY <2>1 DEF Grandit
  <2>3. ~Avant(poses'[r][f.de].estampille, f.date)
    BY <1>1, <1>2, <1>8, <2>1, <2>2, OrdreTransitif DEF DatesDe
  <2> QED BY <1>8, <2>2, <2>3 DEF Tient
<1> QED BY <1>3, <1>4, <1>5, <1>6, <1>7, <1>8, FaitLu

LEMMA GranditGarde ==
  ASSUME IInv, IInv', DitsRestent, NEW r \in Racine, Grandit(r), Tenus(r)
  PROVE  Garde(r)
<1>1. Ferme(r) BY DEF Grandit, Ferme
<1> QED BY <1>1, TientReste, ClosReste DEF Garde, Su

LEMMA MemesTablesGrandissent ==
  ASSUME IInv, NEW q \in Racine, MemesTables(q)
  PROVE  Grandit(q)
<1>1. DatesDe(q) BY DatesLues
<1> QED BY <1>1, OrdreTotal DEF MemesTables, Grandit, DatesDe, CompteVivant

LEMMA MemesTablesGardent ==
  ASSUME IInv, IInv', DitsRestent, NEW q \in Racine, MemesTables(q), Tenus(q)
  PROVE  Garde(q)
BY MemesTablesGrandissent, GranditGarde

-----------------------------------------------------------------------------
(* A root writes.                                                          *)

\* What is written is not about what was said already, or repeats it.
EcritureDite(r, ops) ==
  /\ \A quoi, cle, valeur : DitIci(r, quoi, cle, valeur)' =>
       \/ EstDit(quoi, cle, valeur)
       \/ \E i \in DOMAIN ops : DitPar(ops[i], quoi, cle, valeur)
  /\ \A i \in DOMAIN ops : \A quoi, cle, valeur : DitPar(ops[i], quoi, cle, valeur) =>
       EstDit(quoi, cle, valeur) \/ DateDite(quoi, cle) \notin Emise
  /\ \A i, j \in DOMAIN ops : \A quoi, cle, v, w :
       DitPar(ops[i], quoi, cle, v) /\ DitPar(ops[j], quoi, cle, w) => v = w
  /\ \A i \in DOMAIN ops : \A a : DitPar(ops[i], "adhesion", a, a) =>
       \/ EstDit("adhesion", a, a)
       \/ /\ a.groupe.sorte # "personnel"
          /\ a.groupe.sorte = "administrateurs" => ~EstDit("domaine", a.groupe.de, a.compte)'

\* What is written is in the tables; what is new in them is written; and what it needs
\* was there, or is written before.
EcritureJuste(r, ops) ==
  /\ \A i \in DOMAIN ops : \A f \in FaitDe(Emise') : Porte(ops[i], f) => Su(r, f)'
  /\ \A f \in FaitDe(Emise') : Sait(r, f)' =>
       Sait(r, f) \/ \E i \in DOMAIN ops : Porte(ops[i], f)
  /\ \A i \in DOMAIN ops : \A f \in FaitDe(Emise') : Requiert(ops[i], f) =>
       Sait(r, f) \/ \E j \in DOMAIN ops : j < i /\ Porte(ops[j], f)
  /\ \A i \in DOMAIN ops : ops[i].quoi = "droit" => ops[i].enregistrement.retire = Aucune

LEMMA MemesTablesDisent ==
  ASSUME NEW q \in Racine, MemesTables(q), NEW quoi, NEW cle, NEW valeur
  PROVE  DitIci(q, quoi, cle, valeur)' <=> DitIci(q, quoi, cle, valeur)
BY DEF MemesTables, DitIci

LEMMA MemesTablesSavent ==
  ASSUME NEW q \in Racine, MemesTables(q), NEW f
  PROVE  Sait(q, f)' <=> Sait(q, f)
BY DEF MemesTables, Sait, CompteVivant

LEMMA VoieAllongee ==
  ASSUME IInv, NEW r \in Racine, NEW ops, JournaliserTout(r, ops),
         ops \in Seq(OperationDe(Emise'))
  PROVE  Jointe(enRoute'[Pair[r]], enRoute[Pair[r]], ops)
<1>1. /\ enRoute'[Pair[r]] = enRoute[Pair[r]] \o ops /\ Avance /\ Pair[r] \in Racine
  BY VoiesEcrites, DeuxRacines
<1>2. OperationDe(Emise) \subseteq OperationDe(Emise') BY <1>1, Larges DEF Avance
<1>3. enRoute[Pair[r]] \in Seq(OperationDe(Emise')) BY <1>1, <1>2 DEF IInv, Voies
<1> QED BY <1>1, <1>3, SuiteJointe

LEMMA DitsEcrits ==
  ASSUME IInv, NEW r \in Racine, NEW ops, JournaliserTout(r, ops),
         ops \in Seq(OperationDe(Emise')), \A q \in Racine \ {r} : MemesTables(q),
         EcritureDite(r, ops), NEW quoi, NEW cle, NEW valeur, EstDit(quoi, cle, valeur)'
  PROVE  \/ EstDit(quoi, cle, valeur)
         \/ \E i \in DOMAIN ops : DitPar(ops[i], quoi, cle, valeur)
<1>1. PICK q \in Racine :
        \/ DitIci(q, quoi, cle, valeur)'
        \/ \E i \in DOMAIN enRoute'[q] : DitPar(enRoute'[q][i], quoi, cle, valeur)
  BY DEF EstDit, DitPar, AjoutDe
<1>2. CASE DitIci(q, quoi, cle, valeur)'
  <2>1. CASE q = r BY <1>2, <2>1 DEF EcritureDite
  <2>2. CASE q # r
    <3>1. DitIci(q, quoi, cle, valeur) BY <1>2, <2>2, MemesTablesDisent
    <3> QED BY <3>1 DEF EstDit
  <2> QED BY <2>1, <2>2
<1>3. ASSUME NEW i \in DOMAIN enRoute'[q], DitPar(enRoute'[q][i], quoi, cle, valeur)
      PROVE  \/ EstDit(quoi, cle, valeur)
             \/ \E j \in DOMAIN ops : DitPar(ops[j], quoi, cle, valeur)
  <2>1. CASE q = Pair[r]
    <3>1. \/ i \in DOMAIN enRoute[q] /\ enRoute'[q][i] = enRoute[q][i]
          \/ \E j \in DOMAIN ops : enRoute'[q][i] = ops[j]
      BY <2>1, VoieAllongee DEF Jointe
    <3> QED BY <1>3, <3>1 DEF EstDit
  <2>2. CASE q # Pair[r]
    <3>1. enRoute'[q] = enRoute[q] BY <2>2, VoiesEcrites
    <3> QED BY <1>3, <3>1 DEF EstDit
  <2> QED BY <2>1, <2>2
<1> QED BY <1>1, <1>2, <1>3

LEMMA EcritureDitsRestent ==
  ASSUME IInv, DitUneFois, JamaisDOffice, NEW r \in Racine, NEW ops, JournaliserTout(r, ops),
         ops \in Seq(OperationDe(Emise')), \A q \in Racine \ {r} : MemesTables(q),
         EcritureDite(r, ops)
  PROVE  DitsRestent /\ DitUneFois' /\ JamaisDOffice'
<1>1. DitsRestent BY DitsEcrits DEF DitsRestent, EcritureDite
<1>2. ASSUME NEW quoi, NEW cle, NEW v, NEW w, EstDit(quoi, cle, v)', EstDit(quoi, cle, w)'
      PROVE  v = w
  <2>1. CASE DateDite(quoi, cle) \in Emise
    <3>1. EstDit(quoi, cle, v) /\ EstDit(quoi, cle, w) BY <1>1, <1>2, <2>1 DEF DitsRestent
    <3> QED BY <3>1 DEF DitUneFois
  <2>2. CASE DateDite(quoi, cle) \notin Emise
    <3>1. ~EstDit(quoi, cle, v) /\ ~EstDit(quoi, cle, w) BY <2>2, DitType
    <3>2. /\ \E i \in DOMAIN ops : DitPar(ops[i], quoi, cle, v)
          /\ \E i \in DOMAIN ops : DitPar(ops[i], quoi, cle, w)
      BY <1>2, <3>1, DitsEcrits
    <3> QED BY <3>2 DEF EcritureDite
  <2> QED BY <2>1, <2>2
<1>3. ASSUME NEW a, EstDit("adhesion", a, a)'
      PROVE  /\ a.groupe.sorte # "personnel"
             /\ a.groupe.sorte = "administrateurs" => ~EstDit("domaine", a.groupe.de, a.compte)'
  <2>1. CASE EstDit("adhesion", a, a)
    <3>1. /\ a.groupe.sorte # "personnel"
          /\ a.groupe.sorte = "administrateurs" => ~EstDit("domaine", a.groupe.de, a.compte)
      BY <2>1 DEF JamaisDOffice
    <3>2. a.groupe.de \in Emise BY <2>1, DitType DEF AdhesionDe, GroupeDe
    <3>3. EstDit("domaine", a.groupe.de, a.compte)' => EstDit("domaine", a.groupe.de, a.compte)
      BY <1>1, <3>2 DEF DitsRestent, DateDite
    <3> QED BY <3>1, <3>3
  <2>2. CASE ~EstDit("adhesion", a, a)
    <3>1. \E i \in DOMAIN ops : DitPar(ops[i], "adhesion", a, a) BY <1>3, <2>2, DitsEcrits
    <3> QED BY <2>2, <3>1 DEF EcritureDite
  <2> QED BY <2>1, <2>2
<1>4. DitUneFois' BY <1>2 DEF DitUneFois
<1>5. JamaisDOffice' BY <1>3 DEF JamaisDOffice
<1> QED BY <1>1, <1>4, <1>5

LEMMA EcritureAccorde ==
  ASSUME IInv, IInv', Accord, NEW r \in Racine, NEW ops, JournaliserTout(r, ops),
         ops \in Seq(OperationDe(Emise')), \A q \in Racine \ {r} : MemesTables(q),
         \A q \in Racine : Tenus(q), DitsRestent => Garde(r),
         EcritureDite(r, ops), EcritureJuste(r, ops)
  PROVE  Accord'
<1>1. DitsRestent /\ DitUneFois' /\ JamaisDOffice' BY EcritureDitsRestent DEF Accord
<1>2. \A q \in Racine : Garde(q) BY <1>1, MemesTablesGardent
<1>3. /\ Avance /\ amorcages' = amorcages
      /\ \A q \in Racine : q # Pair[r] => enRoute'[q] = enRoute[q]
  BY VoiesEcrites
<1>4. FaitDe(Emise) \subseteq FaitDe(Emise') BY <1>3, FaitsLarges DEF Avance
<1>5. Jointe(enRoute'[Pair[r]], enRoute[Pair[r]], ops) BY VoieAllongee
<1>6. /\ Pair[r] \in Racine /\ Pair[r] # r /\ Pair[Pair[r]] = r
      /\ \A q \in Racine : Pair[q] \in Racine /\ (Pair[q] = r <=> q = Pair[r])
      /\ \A q \in Racine : Pair[q] = Pair[r] <=> q = r
  BY DeuxRacines
<1>7. \A q \in Racine : \A i \in DOMAIN enRoute[q] :
        enRoute[q][i] \in OperationDe(Emise)
  BY EnRouteType
<1>8. ASSUME NEW q \in Racine PROVE Ecrit(q)'
  <2> SUFFICES ASSUME NEW i \in DOMAIN enRoute'[Pair[q]], NEW f \in FaitDe(Emise'),
                      Porte(enRoute'[Pair[q]][i], f)
               PROVE  Su(q, f)'
    BY DEF Ecrit
  <2>1. ASSUME i \in DOMAIN enRoute[Pair[q]], enRoute'[Pair[q]][i] = enRoute[Pair[q]][i]
        PROVE  Su(q, f)'
    <3>1. Porte(enRoute[Pair[q]][i], f) BY <2>1
    <3>2. f \in FaitDe(Emise) BY <1>6, <1>7, <2>1, <3>1, PorteType
    <3>3. Su(q, f) BY <2>1, <3>1, <3>2 DEF Accord, Ecrit
    <3> QED BY <1>2, <3>2, <3>3 DEF Garde
  <2>2. CASE q = r
    <3>1. \/ i \in DOMAIN enRoute[Pair[q]] /\ enRoute'[Pair[q]][i] = enRoute[Pair[q]][i]
          \/ \E j \in DOMAIN ops : enRoute'[Pair[q]][i] = ops[j]
      BY <1>5, <2>2 DEF Jointe
    <3> QED BY <2>1, <2>2, <3>1 DEF EcritureJuste
  <2>3. CASE q # r
    <3>1. enRoute'[Pair[q]] = enRoute[Pair[q]] BY <1>3, <1>6, <2>3
    <3> QED BY <2>1, <3>1
  <2> QED BY <2>2, <2>3
<1>9. ASSUME NEW q \in Racine PROVE Couvert(q)'
  <2> SUFFICES ASSUME NEW f \in FaitDe(Emise'), Sait(Pair[q], f)',
                      f.quoi = "droitRetire" => amorcages' = 0
               PROVE  Su(q, f)' \/ \E i \in DOMAIN enRoute'[q] : Porte(enRoute'[q][i], f)
    BY DEF Couvert, Porte, AjoutDe
  <2>1. ASSUME Sait(Pair[q], f)
        PROVE  Su(q, f)' \/ \E i \in DOMAIN enRoute'[q] : Porte(enRoute'[q][i], f)
    <3>1. f \in FaitDe(Emise) BY <1>6, <2>1, SaitType, EmiseEstampilles
    <3>2. Su(q, f) \/ \E i \in DOMAIN enRoute[q] : Porte(enRoute[q][i], f)
      BY <1>3, <2>1, <3>1 DEF Accord, Couvert
    <3>3. \A i \in DOMAIN enRoute[q] : i \in DOMAIN enRoute'[q] /\ enRoute'[q][i] = enRoute[q][i]
      BY <1>3, <1>5 DEF Jointe
    <3> QED BY <1>2, <3>1, <3>2, <3>3 DEF Garde
  <2>2. CASE Pair[q] = r
    <3>1. Sait(r, f) \/ \E i \in DOMAIN ops : Porte(ops[i], f) BY <2>2 DEF EcritureJuste
    <3>2. \A i \in DOMAIN ops : \E j \in DOMAIN enRoute'[q] : enRoute'[q][j] = ops[i]
      BY <1>5, <1>6, <2>2 DEF Jointe
    <3> QED BY <2>1, <2>2, <3>1, <3>2
  <2>3. CASE Pair[q] # r
    <3>1. Sait(Pair[q], f) BY <1>6, <2>3, MemesTablesSavent
    <3> QED BY <2>1, <3>1
  <2> QED BY <2>2, <2>3
<1>10. ASSUME NEW q \in Racine PROVE Ordonne(q)'
  <2> SUFFICES ASSUME NEW i \in DOMAIN enRoute'[q], NEW f \in FaitDe(Emise'),
                      Requiert(enRoute'[q][i], f)
               PROVE  Su(q, f)' \/ \E j \in DOMAIN enRoute'[q] : j < i /\ Porte(enRoute'[q][j], f)
    BY DEF Ordonne, Precede
  <2>1. ASSUME i \in DOMAIN enRoute[q], enRoute'[q][i] = enRoute[q][i],
               \A j \in DOMAIN enRoute[q] : j \in DOMAIN enRoute'[q] /\ enRoute'[q][j] = enRoute[q][j]
        PROVE  Su(q, f)' \/ \E j \in DOMAIN enRoute'[q] : j < i /\ Porte(enRoute'[q][j], f)
    <3>1. Requiert(enRoute[q][i], f) BY <2>1
    <3>2. f \in FaitDe(Emise) BY <1>7, <2>1, <3>1, RequiertType
    <3>3. Su(q, f) \/ \E j \in DOMAIN enRoute[q] : j < i /\ Porte(enRoute[q][j], f)
      BY <2>1, <3>1, <3>2 DEF Accord, Ordonne, Precede
    <3> QED BY <1>2, <2>1, <3>2, <3>3 DEF Garde
  <2>2. CASE q = Pair[r]
    <3>1. CASE i \in DOMAIN enRoute[q] /\ enRoute'[q][i] = enRoute[q][i]
      BY <1>5, <2>1, <2>2, <3>1 DEF Jointe
    <3>2. ASSUME NEW k \in DOMAIN ops, i = Len(enRoute[q]) + k, enRoute'[q][i] = ops[k]
          PROVE  Su(q, f)' \/ \E j \in DOMAIN enRoute'[q] : j < i /\ Porte(enRoute'[q][j], f)
      <4>1. Requiert(ops[k], f) BY <3>2
      <4>2. Sait(r, f) \/ \E j \in DOMAIN ops : j < k /\ Porte(ops[j], f)
        BY <4>1 DEF EcritureJuste
      <4>3. CASE Sait(r, f)
        <5>1. f \in FaitDe(Emise) BY <4>3, SaitType, EmiseEstampilles
        <5>2. ops[k] \in OperationDe(Emise') OBVIOUS
        <5>3. f.quoi # "droitRetire" BY <4>1, <5>2, RequiertType
        <5>4. Su(q, f) \/ \E j \in DOMAIN enRoute[q] : Porte(enRoute[q][j], f)
          BY <1>6, <2>2, <4>3, <5>1, <5>3 DEF Accord, Couvert
        <5>5. ASSUME NEW j \in DOMAIN enRoute[q], Porte(enRoute[q][j], f)
              PROVE  j \in DOMAIN enRoute'[q] /\ j < i /\ Porte(enRoute'[q][j], f)
          <6>1. j \in DOMAIN enRoute'[q] /\ enRoute'[q][j] = enRoute[q][j]
            BY <1>5, <2>2 DEF Jointe
          <6>2. j \in 1..Len(enRoute[q]) /\ k \in 1..Len(ops) /\ Len(enRoute[q]) \in Nat
                /\ Len(ops) \in Nat
            BY <1>5, <2>2 DEF Jointe
          <6> QED BY <3>2, <5>5, <6>1, <6>2
        <5> QED BY <1>2, <5>1, <5>4, <5>5 DEF Garde
      <4>4. ASSUME NEW j \in DOMAIN ops, j < k, Porte(ops[j], f)
            PROVE  \E m \in DOMAIN enRoute'[q] : m < i /\ Porte(enRoute'[q][m], f)
        <5>1. /\ Len(enRoute[q]) + j \in DOMAIN enRoute'[q]
              /\ enRoute'[q][Len(enRoute[q]) + j] = ops[j]
          BY <1>5, <2>2 DEF Jointe
        <5>2. j \in 1..Len(ops) /\ k \in 1..Len(ops) /\ Len(enRoute[q]) \in Nat /\ Len(ops) \in Nat
          BY <1>5, <2>2 DEF Jointe
        <5>3. Len(enRoute[q]) + j < i BY <3>2, <4>4, <5>2
        <5> QED BY <4>4, <5>1, <5>3
      <4> QED BY <4>2, <4>3, <4>4
    <3>3. \/ i \in DOMAIN enRoute[q] /\ enRoute'[q][i] = enRoute[q][i]
          \/ \E k \in DOMAIN ops : i = Len(enRoute[q]) + k /\ enRoute'[q][i] = ops[k]
      BY <1>5, <2>2 DEF Jointe
    <3> QED BY <3>1, <3>2, <3>3
  <2>3. CASE q # Pair[r]
    <3>1. enRoute'[q] = enRoute[q] BY <1>3, <2>3
    <3> QED BY <2>1, <3>1
  <2> QED BY <2>2, <2>3
<1>11. SansRetraits'
  <2> SUFFICES ASSUME amorcages' = 0, NEW q \in Racine, NEW i \in DOMAIN enRoute'[q],
                      enRoute'[q][i].quoi = "droit"
               PROVE  enRoute'[q][i].enregistrement.retire = Aucune
    BY DEF SansRetraits
  <2>1. \/ i \in DOMAIN enRoute[q] /\ enRoute'[q][i] = enRoute[q][i]
        \/ \E j \in DOMAIN ops : enRoute'[q][i] = ops[j]
    BY <1>3, <1>5 DEF Jointe
  <2> QED BY <1>3, <2>1 DEF Accord, SansRetraits, EcritureJuste
<1> QED BY <1>1, <1>8, <1>9, <1>10, <1>11 DEF Accord

-----------------------------------------------------------------------------
(* A root receives.                                                        *)

\* What is applied was said; what the operation brings is known or closed; and what is
\* new is what it brings.
Reception(r, operation) ==
  /\ \A quoi, cle, valeur : DitIci(r, quoi, cle, valeur)' => EstDit(quoi, cle, valeur)
  /\ \A f \in FaitDe(Emise) : Porte(operation, f) => Su(r, f)'
  /\ \A f \in FaitDe(Emise') : (f.quoi = "droitRetire" => amorcages = 0) =>
       (Sait(r, f)' => Sait(r, f) \/ Porte(operation, f))

LEMMA VoieEntamee ==
  ASSUME IInv, NEW r \in Racine, Retirer(r)
  PROVE  /\ 1 \in DOMAIN enRoute[r] /\ Head(enRoute[r]) = enRoute[r][1]
         /\ \A i \in DOMAIN enRoute[r] : i \in Nat
         /\ \A i \in DOMAIN enRoute'[r] :
              i \in Nat /\ i + 1 \in DOMAIN enRoute[r] /\ enRoute'[r][i] = enRoute[r][i + 1]
         /\ \A i \in DOMAIN enRoute[r] :
              i # 1 => i - 1 \in DOMAIN enRoute'[r] /\ enRoute'[r][i - 1] = enRoute[r][i]
         /\ \A q \in Racine : \A i \in DOMAIN enRoute'[q] :
              \E j \in DOMAIN enRoute[q] : enRoute'[q][i] = enRoute[q][j]
<1>1. /\ enRoute[r] \in Seq(OperationDe(Emise)) /\ enRoute[r] # <<>>
      /\ enRoute'[r] = Tail(enRoute[r]) /\ \A q \in Racine : q # r => enRoute'[q] = enRoute[q]
  BY Recue DEF IInv, Voies, Retirer
<1>2. PICK s \in Seq(OperationDe(Emise)) : s = enRoute[r] BY <1>1
<1>3. PICK t : t = Tail(s) OBVIOUS
<1>4. /\ 1 \in DOMAIN s /\ Head(s) = s[1] /\ \A i \in DOMAIN s : i \in Nat
      /\ \A i \in DOMAIN t : i \in Nat /\ i + 1 \in DOMAIN s /\ t[i] = s[i + 1]
      /\ \A i \in DOMAIN s : i # 1 => i - 1 \in DOMAIN t /\ t[i - 1] = s[i]
  <2>1. s # <<>> BY <1>1, <1>2
  <2> QED BY <2>1, <1>3, SuiteEntamee
<1>5. t = enRoute'[r] BY <1>1, <1>2, <1>3
<1>6. \A i \in DOMAIN t : \E j \in DOMAIN s : t[i] = s[j]
  <2> SUFFICES ASSUME NEW i \in DOMAIN t PROVE \E j \in DOMAIN s : t[i] = s[j] OBVIOUS
  <2>1. i + 1 \in DOMAIN s /\ t[i] = s[i + 1] BY <1>4
  <2> QED BY <2>1
<1>7. ASSUME NEW q \in Racine, NEW i \in DOMAIN enRoute'[q]
      PROVE  \E j \in DOMAIN enRoute[q] : enRoute'[q][i] = enRoute[q][j]
  <2>1. CASE q = r BY <1>2, <1>5, <1>6, <2>1
  <2>2. CASE q # r BY <1>1, <2>2
  <2> QED BY <2>1, <2>2
<1>8. /\ 1 \in DOMAIN enRoute[r] /\ Head(enRoute[r]) = enRoute[r][1]
      /\ \A i \in DOMAIN enRoute[r] : i \in Nat
      /\ \A i \in DOMAIN enRoute'[r] :
           i \in Nat /\ i + 1 \in DOMAIN enRoute[r] /\ enRoute'[r][i] = enRoute[r][i + 1]
      /\ \A i \in DOMAIN enRoute[r] :
           i # 1 => i - 1 \in DOMAIN enRoute'[r] /\ enRoute'[r][i - 1] = enRoute[r][i]
  BY <1>2, <1>4, <1>5
<1> QED BY <1>7, <1>8

LEMMA RienDeNouveau ==
  ASSUME IInv, NEW r \in Racine, Retirer(r), \A q \in Racine \ {r} : MemesTables(q),
         \A quoi, cle, valeur : DitIci(r, quoi, cle, valeur)' => EstDit(quoi, cle, valeur),
         NEW quoi, NEW cle, NEW valeur, EstDit(quoi, cle, valeur)'
  PROVE  EstDit(quoi, cle, valeur)
<1>1. PICK q \in Racine :
        \/ DitIci(q, quoi, cle, valeur)'
        \/ \E i \in DOMAIN enRoute'[q] : DitPar(enRoute'[q][i], quoi, cle, valeur)
  BY DEF EstDit, DitPar, AjoutDe
<1>2. CASE DitIci(q, quoi, cle, valeur)'
  <2>1. CASE q # r
    <3>1. DitIci(q, quoi, cle, valeur) BY <1>2, <2>1, MemesTablesDisent
    <3> QED BY <3>1 DEF EstDit
  <2> QED BY <1>2, <2>1
<1>3. ASSUME NEW i \in DOMAIN enRoute'[q], DitPar(enRoute'[q][i], quoi, cle, valeur)
      PROVE  EstDit(quoi, cle, valeur)
  <2>1. \E j \in DOMAIN enRoute[q] : enRoute'[q][i] = enRoute[q][j]
    BY VoieEntamee
  <2> QED BY <1>3, <2>1 DEF EstDit
<1> QED BY <1>1, <1>2, <1>3

LEMMA ReceptionAccorde ==
  ASSUME IInv, IInv', Accord, NEW r \in Racine, Retirer(r),
         \A q \in Racine \ {r} : MemesTables(q), \A q \in Racine : Tenus(q),
         DitsRestent => Garde(r), Reception(r, Head(enRoute[r]))
  PROVE  Accord'
<1>1. \A quoi, cle, valeur : EstDit(quoi, cle, valeur)' => EstDit(quoi, cle, valeur)
  BY RienDeNouveau DEF Reception
<1>2. DitsRestent BY <1>1 DEF DitsRestent
<1>3. \A q \in Racine : Garde(q) BY <1>2, MemesTablesGardent
<1>4. DitUneFois' BY <1>1 DEF DitUneFois, Accord
<1>5. JamaisDOffice' BY <1>1 DEF JamaisDOffice, Accord
<1>6. /\ Avance /\ amorcages' = amorcages /\ Pair[r] \in Racine /\ Pair[r] # r
      /\ \A q \in Racine : q # r => enRoute'[q] = enRoute[q]
      /\ \A q \in Racine : Pair[q] \in Racine /\ Pair[Pair[q]] = q
  BY Recue, DeuxRacines
<1>7. \A q \in Racine : \A i \in DOMAIN enRoute[q] : enRoute[q][i] \in OperationDe(Emise)
  BY EnRouteType
<1>8. SansRetraits'
  <2> SUFFICES ASSUME amorcages' = 0, NEW q \in Racine, NEW i \in DOMAIN enRoute'[q],
                      enRoute'[q][i].quoi = "droit"
               PROVE  enRoute'[q][i].enregistrement.retire = Aucune
    BY DEF SansRetraits
  <2>1. \E j \in DOMAIN enRoute[q] : enRoute'[q][i] = enRoute[q][j] BY VoieEntamee
  <2> QED BY <1>6, <2>1 DEF Accord, SansRetraits
<1>9. ASSUME NEW q \in Racine PROVE Ecrit(q)'
  <2> SUFFICES ASSUME NEW i \in DOMAIN enRoute'[Pair[q]], NEW f \in FaitDe(Emise'),
                      Porte(enRoute'[Pair[q]][i], f)
               PROVE  Su(q, f)'
    BY DEF Ecrit
  <2>1. PICK j \in DOMAIN enRoute[Pair[q]] : enRoute'[Pair[q]][i] = enRoute[Pair[q]][j]
    BY <1>6, VoieEntamee
  <2>2. Porte(enRoute[Pair[q]][j], f) BY <2>1
  <2>3. f \in FaitDe(Emise) BY <1>6, <1>7, <2>2, PorteType
  <2>4. Su(q, f) BY <2>2, <2>3 DEF Accord, Ecrit
  <2> QED BY <1>3, <2>3, <2>4 DEF Garde
<1>10. ASSUME NEW q \in Racine PROVE Couvert(q)'
  <2> SUFFICES ASSUME NEW f \in FaitDe(Emise'), Sait(Pair[q], f)',
                      f.quoi = "droitRetire" => amorcages' = 0
               PROVE  Su(q, f)' \/ \E i \in DOMAIN enRoute'[q] : Porte(enRoute'[q][i], f)
    BY DEF Couvert, Porte, AjoutDe
  <2>1. CASE q = r
    <3>1. Sait(Pair[r], f) BY <1>6, <2>1, MemesTablesSavent
    <3>2. f \in FaitDe(Emise) BY <1>6, <3>1, SaitType, EmiseEstampilles
    <3>3. Su(r, f) \/ \E i \in DOMAIN enRoute[r] : Porte(enRoute[r][i], f)
      BY <1>6, <3>1, <3>2 DEF Accord, Couvert
    <3>4. CASE Su(r, f) BY <1>3, <2>1, <3>2, <3>4 DEF Garde
    <3>5. ASSUME NEW i \in DOMAIN enRoute[r], Porte(enRoute[r][i], f)
          PROVE  Su(r, f)' \/ \E j \in DOMAIN enRoute'[r] : Porte(enRoute'[r][j], f)
      <4>1. CASE i = 1
        <5>1. Porte(Head(enRoute[r]), f) BY <3>5, <4>1, VoieEntamee
        <5> QED BY <3>2, <5>1 DEF Reception
      <4>2. CASE i # 1
        <5>1. i - 1 \in DOMAIN enRoute'[r] /\ enRoute'[r][i - 1] = enRoute[r][i]
          BY <4>2, VoieEntamee
        <5> QED BY <3>5, <5>1
      <4> QED BY <4>1, <4>2
    <3> QED BY <2>1, <3>3, <3>4, <3>5
  <2>2. CASE q # r
    <3>1. enRoute'[q] = enRoute[q] /\ Pair[q] \in Racine BY <1>6, <2>2
    <3>2. Sait(Pair[q], f) \/ (Pair[q] = r /\ Porte(Head(enRoute[r]), f))
      <4>1. CASE Pair[q] = r
        <5>1. Sait(r, f)' BY <4>1
        <5> QED BY <1>6, <4>1, <5>1 DEF Reception
      <4>2. CASE Pair[q] # r BY <3>1, <4>2, MemesTablesSavent
      <4> QED BY <4>1, <4>2
    <3>3. CASE Sait(Pair[q], f)
      <4>1. f \in FaitDe(Emise) BY <3>1, <3>3, SaitType, EmiseEstampilles
      <4>2. Su(q, f) \/ \E i \in DOMAIN enRoute[q] : Porte(enRoute[q][i], f)
        BY <1>6, <3>3, <4>1 DEF Accord, Couvert
      <4> QED BY <1>3, <3>1, <4>1, <4>2 DEF Garde
    <3>4. CASE Pair[q] = r /\ Porte(Head(enRoute[r]), f)
      <4>1. 1 \in DOMAIN enRoute[r] /\ Porte(enRoute[r][1], f) BY <3>4, VoieEntamee
      <4>2. f \in FaitDe(Emise) BY <1>7, <4>1, PorteType
      <4>3. Su(q, f) BY <3>4, <4>1, <4>2 DEF Accord, Ecrit
      <4> QED BY <1>3, <4>2, <4>3 DEF Garde
    <3> QED BY <3>2, <3>3, <3>4
  <2> QED BY <2>1, <2>2
<1>11. ASSUME NEW q \in Racine PROVE Ordonne(q)'
  <2> SUFFICES ASSUME NEW i \in DOMAIN enRoute'[q], NEW f \in FaitDe(Emise'),
                      Requiert(enRoute'[q][i], f)
               PROVE  Su(q, f)' \/ \E j \in DOMAIN enRoute'[q] : j < i /\ Porte(enRoute'[q][j], f)
    BY DEF Ordonne, Precede
  <2>1. CASE q = r
    <3>1. i \in Nat /\ i + 1 \in DOMAIN enRoute[r] /\ enRoute'[r][i] = enRoute[r][i + 1]
      BY <2>1, VoieEntamee
    <3>2. PICK k \in DOMAIN enRoute[r] : k = i + 1 /\ enRoute[r][k] = enRoute'[r][i] BY <3>1
    <3>3. Requiert(enRoute[r][k], f) BY <2>1, <3>2
    <3>4. f \in FaitDe(Emise) BY <1>7, <3>3, RequiertType
    <3>5. Su(r, f) \/ \E j \in DOMAIN enRoute[r] : j < k /\ Porte(enRoute[r][j], f)
      BY <3>3, <3>4 DEF Accord, Ordonne, Precede
    <3>6. CASE Su(r, f) BY <1>3, <2>1, <3>4, <3>6 DEF Garde
    <3>7. ASSUME NEW j \in DOMAIN enRoute[r], j < k, Porte(enRoute[r][j], f)
          PROVE  Su(r, f)' \/ \E m \in DOMAIN enRoute'[r] : m < i /\ Porte(enRoute'[r][m], f)
      <4>1. CASE j = 1
        <5>1. Porte(Head(enRoute[r]), f) BY <3>7, <4>1, VoieEntamee
        <5> QED BY <3>4, <5>1 DEF Reception
      <4>2. CASE j # 1
        <5>1. j \in Nat /\ j - 1 \in DOMAIN enRoute'[r] /\ enRoute'[r][j - 1] = enRoute[r][j]
          BY <4>2, VoieEntamee
        <5>2. j - 1 < i BY <3>1, <3>2, <3>7, <5>1
        <5> QED BY <3>7, <5>1, <5>2
      <4> QED BY <4>1, <4>2
    <3> QED BY <2>1, <3>5, <3>6, <3>7
  <2>2. CASE q # r
    <3>1. enRoute'[q] = enRoute[q] BY <1>6, <2>2
    <3>2. Requiert(enRoute[q][i], f) BY <3>1
    <3>3. f \in FaitDe(Emise) BY <1>7, <3>1, <3>2, RequiertType
    <3>4. Su(q, f) \/ \E j \in DOMAIN enRoute[q] : j < i /\ Porte(enRoute[q][j], f)
      BY <3>1, <3>2, <3>3 DEF Accord, Ordonne, Precede
    <3> QED BY <1>3, <3>1, <3>3, <3>4 DEF Garde
  <2> QED BY <2>1, <2>2
<1> QED BY <1>4, <1>5, <1>8, <1>9, <1>10, <1>11 DEF Accord

-----------------------------------------------------------------------------
(* Rows leave: what they said is closed.                                   *)

Partent(r) ==
  /\ Ferme(r)
  /\ \A d \in DOMAIN domaines[r] : d \in DOMAIN domaines'[r] \/ DomaineClos(r, d)'
  /\ \A g \in DOMAIN groupes[r] : g \in DOMAIN groupes'[r] \/ CreeClos(r, g)'
  /\ \A a \in DOMAIN adhesions[r] : a \in DOMAIN adhesions'[r] \/ AjoutClos(r, a)'
  /\ \A d \in DOMAIN droits[r] : d \in DOMAIN droits'[r] \/ DroitClos(r, d)'
  /\ \A k \in DOMAIN poses[r] : k \in DOMAIN poses'[r] \/ CleClose(r, k)'
  /\ \A g \in DOMAIN groupes[r] \cap DOMAIN groupes'[r] :
       ~Avant(groupes'[r][g].etiquette, groupes[r][g].etiquette)
  /\ \A k \in DOMAIN poses[r] \cap DOMAIN poses'[r] :
       ~Avant(poses'[r][k].estampille, poses[r][k].estampille)

LEMMA PartentSu ==
  ASSUME IInv, IInv', NEW r \in Racine, Partent(r), Tenus(r), NEW f \in FaitDe(Emise),
         Tient(r, f)
  PROVE  Su(r, f)'
<1>1. f.quoi \in {"supprime", "etiquette", "droitRetire", "retire", "pose"} => f.date \in Estampille
  BY FaitLu, EmiseEstampilles
<1>2. DatesDe(r) /\ DatesDe(r)' BY DatesLues, DatesLuesApres
<1>3. CASE f.quoi \in {"efface", "domaine", "groupe", "dissous", "membre", "droit"}
  BY <1>3 DEF Tient, Partent, Ferme, Su, Clos
<1>4. CASE f.quoi = "supprime"
  <2>1. f.de \in DOMAIN domaines[r] /\ Marquee(domaines[r][f.de].supprime, f.date)
    BY <1>4 DEF Tient
  <2>2. CASE f.de \in DOMAIN domaines'[r]
    <3>1. DateTenue(domaines[r][f.de].supprime, domaines'[r][f.de].supprime)
      BY <2>1, <2>2 DEF Tenus, DomainesTenus
    <3>2. Marquee(domaines'[r][f.de].supprime, f.date)
      BY <1>1, <1>2, <1>4, <2>1, <2>2, <3>1, MarqueeReste DEF DatesDe
    <3> QED BY <1>4, <2>2, <3>2 DEF Tient, Su
  <2>3. CASE DomaineClos(r, f.de)' BY <1>4, <2>3 DEF Su, Clos
  <2> QED BY <2>1, <2>2, <2>3 DEF Partent
<1>5. CASE f.quoi = "retire"
  <2>1. f.de \in DOMAIN adhesions[r] /\ Marquee(adhesions[r][f.de], f.date)
    BY <1>5 DEF Tient
  <2>2. CASE f.de \in DOMAIN adhesions'[r]
    <3>1. DateTenue(adhesions[r][f.de], adhesions'[r][f.de])
      BY <2>1, <2>2 DEF Tenus, AdhesionsTenues
    <3>2. Marquee(adhesions'[r][f.de], f.date)
      BY <1>1, <1>2, <1>5, <2>1, <2>2, <3>1, MarqueeReste DEF DatesDe
    <3> QED BY <1>5, <2>2, <3>2 DEF Tient, Su
  <2>3. CASE AjoutClos(r, f.de)' BY <1>5, <2>3 DEF Su, Clos
  <2> QED BY <2>1, <2>2, <2>3 DEF Partent
<1>6. CASE f.quoi = "droitRetire"
  <2>1. f.de \in DOMAIN droits[r] /\ Marquee(droits[r][f.de].retire, f.date)
    BY <1>6 DEF Tient
  <2>2. CASE f.de \in DOMAIN droits'[r]
    <3>1. DateTenue(droits[r][f.de].retire, droits'[r][f.de].retire)
      BY <2>1, <2>2 DEF Tenus, DroitsTenus
    <3>2. Marquee(droits'[r][f.de].retire, f.date)
      BY <1>1, <1>2, <1>6, <2>1, <2>2, <3>1, MarqueeReste DEF DatesDe
    <3> QED BY <1>6, <2>2, <3>2 DEF Tient, Su
  <2>3. CASE DroitClos(r, f.de)' BY <1>6, <2>3 DEF Su, Clos
  <2> QED BY <2>1, <2>2, <2>3 DEF Partent
<1>7. CASE f.quoi = "etiquette"
  <2>1. f.de \in DOMAIN groupes[r] /\ ~Avant(groupes[r][f.de].etiquette, f.date)
    BY <1>7 DEF Tient
  <2>2. CASE f.de \in DOMAIN groupes'[r]
    <3>1. ~Avant(groupes'[r][f.de].etiquette, groupes[r][f.de].etiquette)
      BY <2>1, <2>2 DEF Partent
    <3>2. ~Avant(groupes'[r][f.de].etiquette, f.date)
      BY <1>1, <1>2, <1>7, <2>1, <2>2, <3>1, OrdreTransitif DEF DatesDe
    <3> QED BY <1>7, <2>2, <3>2 DEF Tient, Su
  <2>3. CASE CreeClos(r, f.de)' BY <1>7, <2>3 DEF Su, Clos
  <2> QED BY <2>1, <2>2, <2>3 DEF Partent
<1>8. CASE f.quoi = "pose"
  <2>1. f.de \in DOMAIN poses[r] /\ ~Avant(poses[r][f.de].estampille, f.date)
    BY <1>8 DEF Tient
  <2>2. CASE f.de \in DOMAIN poses'[r]
    <3>1. ~Avant(poses'[r][f.de].estampille, poses[r][f.de].estampille)
      BY <2>1, <2>2 DEF Partent
    <3>2. ~Avant(poses'[r][f.de].estampille, f.date)
      BY <1>1, <1>2, <1>8, <2>1, <2>2, <3>1, OrdreTransitif DEF DatesDe
    <3> QED BY <1>8, <2>2, <3>2 DEF Tient, Su
  <2>3. CASE CleClose(r, f.de)' BY <1>8, <2>3 DEF Su, Clos
  <2> QED BY <2>1, <2>2, <2>3 DEF Partent
<1> QED BY <1>3, <1>4, <1>5, <1>6, <1>7, <1>8, FaitLu

LEMMA PartentGarde ==
  ASSUME IInv, IInv', DitsRestent, NEW r \in Racine, Partent(r), Tenus(r)
  PROVE  Garde(r)
<1> SUFFICES ASSUME NEW f \in FaitDe(Emise), Su(r, f) PROVE Su(r, f)' BY DEF Garde
<1>1. CASE Tient(r, f) BY <1>1, PartentSu
<1>2. CASE Clos(r, f) BY <1>2, ClosReste DEF Su, Partent
<1> QED BY <1>1, <1>2 DEF Su

\* What a row of r says is all that is said of it.
LEMMA RangeeUnique ==
  ASSUME IInv, DitUneFois, DitsRestent, NEW r \in Racine
  PROVE  /\ \A d \in DOMAIN domaines[r] : \A c :
              EstDit("domaine", d, c)' => c = domaines[r][d].proprietaire
         /\ \A g \in DOMAIN groupes[r] : \A d :
              EstDit("groupe", g, d)' => d = groupes[r][g].domaine
         /\ \A d \in DOMAIN droits[r] : \A droit :
              EstDit("droit", d, droit)' =>
                /\ droit.par = droits[r][d].par /\ droit.groupe = droits[r][d].groupe
                /\ droit.element = droits[r][d].element
<1>1. ASSUME NEW d \in DOMAIN domaines[r], NEW c, EstDit("domaine", d, c)'
      PROVE  c = domaines[r][d].proprietaire
  <2>1. EstDit("domaine", d, domaines[r][d].proprietaire) BY DEF EstDit, DitIci
  <2>2. EstDit("domaine", d, c) BY <1>1, RangeesLues DEF DitsRestent, DateDite
  <2> QED BY <2>1, <2>2 DEF DitUneFois
<1>2. ASSUME NEW g \in DOMAIN groupes[r], NEW d, EstDit("groupe", g, d)'
      PROVE  d = groupes[r][g].domaine
  <2>1. EstDit("groupe", g, groupes[r][g].domaine) BY DEF EstDit, DitIci
  <2>2. EstDit("groupe", g, d) BY <1>2, RangeesLues DEF DitsRestent, DateDite
  <2> QED BY <2>1, <2>2 DEF DitUneFois
<1>3. ASSUME NEW d \in DOMAIN droits[r], NEW droit, EstDit("droit", d, droit)'
      PROVE  /\ droit.par = droits[r][d].par /\ droit.groupe = droits[r][d].groupe
             /\ droit.element = droits[r][d].element
  <2>1. EstDit("droit", d, SansSonRetrait(droits[r][d])) BY DEF EstDit, DitIci
  <2>2. EstDit("droit", d, droit) BY <1>3, RangeesLues DEF DitsRestent, DateDite
  <2>3. droit = SansSonRetrait(droits[r][d]) BY <2>1, <2>2 DEF DitUneFois
  <2>4. droits[r][d] \in DroitDe(Emise) BY RangeesLues
  <2> QED BY <2>3, <2>4 DEF SansSonRetrait, DroitDe
<1> QED BY <1>1, <1>2, <1>3

\* Some rows leave, the others stay as they are.
Reduites(r, D, P, G, M, A, T) ==
  /\ domaines'[r] = Sans(domaines[r], D) /\ poses'[r] = Sans(poses[r], P)
  /\ groupes'[r] = Sans(groupes[r], G) /\ marques'[r] = Sans(marques[r], M)
  /\ adhesions'[r] = Sans(adhesions[r], A) /\ droits'[r] = Sans(droits[r], T)

LEMMA ReduitesDisent ==
  ASSUME NEW r \in Racine, NEW D, NEW P, NEW G, NEW M, NEW A, NEW T,
         Reduites(r, D, P, G, M, A, T)
  PROVE  /\ \A quoi, cle, valeur : DitIci(r, quoi, cle, valeur)' => DitIci(r, quoi, cle, valeur)
         /\ \A f : Sait(r, f)' => Sait(r, f) \/ (f.quoi = "efface" /\ ~CompteVivant(r, f.de)')
<1>1. ASSUME NEW quoi, NEW cle, NEW valeur, DitIci(r, quoi, cle, valeur)'
      PROVE  DitIci(r, quoi, cle, valeur)
  BY <1>1 DEF DitIci, Reduites, Sans
<1>2. ASSUME NEW f, Sait(r, f)'
      PROVE  Sait(r, f) \/ (f.quoi = "efface" /\ ~CompteVivant(r, f.de)')
  BY <1>2 DEF Sait, Reduites, Sans
<1> QED BY <1>1, <1>2

LEMMA ReduitesLues ==
  ASSUME NEW r \in Racine, NEW D, NEW P, NEW G, NEW M, NEW A, NEW T,
         Reduites(r, D, P, G, M, A, T)
  PROVE  /\ DOMAIN domaines'[r] = DOMAIN domaines[r] \ D /\ DOMAIN poses'[r] = DOMAIN poses[r] \ P
         /\ DOMAIN groupes'[r] = DOMAIN groupes[r] \ G
         /\ DOMAIN marques'[r] = DOMAIN marques[r] \ M
         /\ DOMAIN adhesions'[r] = DOMAIN adhesions[r] \ A
         /\ DOMAIN droits'[r] = DOMAIN droits[r] \ T
         /\ \A g \in DOMAIN groupes'[r] : groupes'[r][g] = groupes[r][g]
         /\ \A k \in DOMAIN poses'[r] : poses'[r][k] = poses[r][k]
BY DEF Reduites, Sans

CreesEmportes(r, c) == {g.de : g \in {p \in GroupesEmportes(r, c) : p.sorte = "domaine"}}

LEMMA EffacementReduit ==
  ASSUME IInv, NEW r \in Racine, NEW c, EffacerDans(r, c)
  PROVE  /\ Reduites(r, DomainesDe(r, c),
              {cle \in DOMAIN poses[r] : IF cle.quoi = "alias" THEN cle.de \in DomainesDe(r, c)
                                                               ELSE Machines[cle.de] = c},
              CreesEmportes(r, c), CreesEmportes(r, c),
              {a \in DOMAIN adhesions[r] : a.groupe \in GroupesEmportes(r, c) \/ a.compte = c},
              DroitsEmportes(r, c))
         /\ \A g \in CreesEmportes(r, c) :
              g \in DOMAIN groupes[r] /\ groupes[r][g].domaine \in DomainesDe(r, c)
<1>1. /\ domaines'[r] = Sans(domaines[r], DomainesDe(r, c))
      /\ poses'[r] = Sans(poses[r],
              {cle \in DOMAIN poses[r] : IF cle.quoi = "alias" THEN cle.de \in DomainesDe(r, c)
                                                               ELSE Machines[cle.de] = c})
  BY DEF EffacerDans, EffacerLesDomaines, IInv, Racines
<1>2. /\ groupes'[r] = Sans(groupes[r], CreesEmportes(r, c))
      /\ marques'[r] = Sans(marques[r], CreesEmportes(r, c))
      /\ adhesions'[r] = Sans(adhesions[r],
           {a \in DOMAIN adhesions[r] : a.groupe \in GroupesEmportes(r, c) \/ a.compte = c})
  BY DEF EffacerDans, EffacerLesGroupes, CreesEmportes, IInv, Racines
<1>3. droits'[r] = Sans(droits[r], DroitsEmportes(r, c))
  BY DEF EffacerDans, OublierLesDroits, IInv, Racines
<1>4. ASSUME NEW p \in GroupesEmportes(r, c), p.sorte = "domaine"
      PROVE  p.de \in DOMAIN groupes[r] /\ groupes[r][p.de].domaine \in DomainesDe(r, c)
  <2>1. p \in Groupes(r) /\ Rattache(r, p) \in DomainesDe(r, c) BY <1>4 DEF GroupesEmportes
  <2>2. p.de \in DOMAIN groupes[r]
    BY <2>1, <1>4 DEF Groupes, DuDomaine, Administrateurs, Personnel
  <2> QED BY <1>4, <2>1, <2>2 DEF Rattache
<1> QED BY <1>1, <1>2, <1>3, <1>4 DEF Reduites, CreesEmportes

LEMMA EffacementGarde ==
  ASSUME IInv, IInv', DitUneFois, DitsRestent, NEW r \in Racine, NEW c \in Connus,
         EffacerDans(r, c)
  PROVE  Garde(r)
<1>1. /\ DOMAIN comptes'[r] = Connus
      /\ \A x \in Connus : CompteVivant(r, x)' <=> CompteVivant(r, x) /\ x # c
  BY ResteApresEffacement
<1>2. ~CompteVivant(r, c)' /\ \A x : CompteVivant(r, x)' => CompteVivant(r, x)
  BY <1>1 DEF CompteVivant
<1> DEFINE P == {cle \in DOMAIN poses[r] :
                   IF cle.quoi = "alias" THEN cle.de \in DomainesDe(r, c)
                                         ELSE Machines[cle.de] = c}
           A == {a \in DOMAIN adhesions[r] : a.groupe \in GroupesEmportes(r, c) \/ a.compte = c}
<1>0. /\ Reduites(r, DomainesDe(r, c), P, CreesEmportes(r, c), CreesEmportes(r, c), A,
                  DroitsEmportes(r, c))
      /\ \A k \in P : IF k.quoi = "alias" THEN k.de \in DomainesDe(r, c) ELSE Machines[k.de] = c
      /\ \A a \in A : a.groupe \in GroupesEmportes(r, c) \/ a.compte = c
  <2>1. Reduites(r, DomainesDe(r, c), P, CreesEmportes(r, c), CreesEmportes(r, c), A,
                 DroitsEmportes(r, c))
    BY EffacementReduit
  <2> QED BY <2>1
<1> HIDE DEF P, A
<1>3. \A d \in DomainesDe(r, c) : DomaineClos(r, d)'
  BY <1>2, RangeeUnique DEF DomaineClos, DomainesDe
<1>4. \A g \in CreesEmportes(r, c) : CreeClos(r, g)'
  BY <1>3, EffacementReduit, RangeeUnique DEF CreeClos
<1>5. ASSUME NEW p \in GroupesEmportes(r, c) PROVE GroupeClos(r, p)'
  <2>1. CASE p.sorte = "domaine"
    <3>1. p.de \in CreesEmportes(r, c) BY <2>1 DEF CreesEmportes
    <3>2. CreeClos(r, p.de)' BY <1>4, <3>1
    <3> QED BY <2>1, <3>2 DEF GroupeClos
  <2>2. CASE p.sorte = "administrateurs"
    <3>1. p.de \in DomainesDe(r, c) BY <2>2 DEF GroupesEmportes, Rattache
    <3>2. DomaineClos(r, p.de)' BY <1>3, <3>1
    <3> QED BY <2>2, <3>2 DEF GroupeClos
  <2>3. CASE p.sorte = "personnel"
    <3>1. p.de = c BY <2>3 DEF GroupesEmportes
    <3> QED BY <1>2, <2>3, <3>1 DEF GroupeClos
  <2> QED BY <2>1, <2>2, <2>3 DEF GroupesEmportes, Groupes, DuDomaine, Administrateurs, Personnel
<1>6. ASSUME NEW d \in DOMAIN domaines[r], d \notin DOMAIN domaines'[r]
      PROVE  DomaineClos(r, d)'
  BY <1>0, <1>3, <1>6, ReduitesLues
<1>7. ASSUME NEW g \in DOMAIN groupes[r] \cup DOMAIN marques[r],
             \/ g \in DOMAIN groupes[r] /\ g \notin DOMAIN groupes'[r]
             \/ g \in DOMAIN marques[r] /\ g \notin DOMAIN marques'[r]
      PROVE  CreeClos(r, g)'
  BY <1>0, <1>4, <1>7, ReduitesLues
<1>8. ASSUME NEW a \in DOMAIN adhesions[r], a \notin DOMAIN adhesions'[r]
      PROVE  AjoutClos(r, a)'
  <2>1. a.groupe \in GroupesEmportes(r, c) \/ a.compte = c
    BY <1>0, <1>8, ReduitesLues
  <2> QED BY <1>2, <1>5, <2>1 DEF AjoutClos
<1>9. ASSUME NEW d \in DOMAIN droits[r], d \notin DOMAIN droits'[r]
      PROVE  DroitClos(r, d)'
  <2> SUFFICES ASSUME NEW droit, EstDit("droit", d, droit)' PROVE RangeeClose(r, droit)'
    BY DEF DroitClos
  <2>1. d \in DroitsEmportes(r, c) BY <1>0, <1>9, ReduitesLues
  <2>2. /\ droit.par = droits[r][d].par /\ droit.groupe = droits[r][d].groupe
        /\ droit.element = droits[r][d].element
    BY RangeeUnique
  <2>3. CASE droit.par = c BY <1>2, <2>3 DEF RangeeClose
  <2>4. CASE droit.groupe \in GroupesEmportes(r, c) BY <1>5, <2>4 DEF RangeeClose
  <2>5. CASE droit.element = LeCompte(c)
    <3>1. ElementClos(r, droit.element)' BY <1>2, <2>5 DEF ElementClos, LeCompte
    <3> QED BY <3>1 DEF RangeeClose
  <2>6. CASE \E x \in DomainesDe(r, c) : droit.element = LeDomaine(x)
    <3>1. PICK x \in DomainesDe(r, c) : droit.element = LeDomaine(x) BY <2>6
    <3>2. ElementClos(r, droit.element)' BY <1>3, <3>1 DEF ElementClos, LeDomaine
    <3> QED BY <3>2 DEF RangeeClose
  <2>7. CASE \E m \in DOMAIN Machines : Machines[m] = c /\ droit.element = LaMachine(m)
    <3>1. PICK m \in DOMAIN Machines : Machines[m] = c /\ droit.element = LaMachine(m) BY <2>7
    <3>2. ~MachineLa(r, m)' BY <1>2, <3>1 DEF MachineLa
    <3>3. ElementClos(r, droit.element)' BY <3>1, <3>2 DEF ElementClos, LaMachine
    <3> QED BY <3>3 DEF RangeeClose
  <2> QED BY <2>1, <2>2, <2>3, <2>4, <2>5, <2>6, <2>7 DEF DroitsEmportes
<1>10. ASSUME NEW k \in DOMAIN poses[r], k \notin DOMAIN poses'[r]
       PROVE  CleClose(r, k)'
  <2>1. IF k.quoi = "alias" THEN k.de \in DomainesDe(r, c) ELSE Machines[k.de] = c
    BY <1>0, <1>10, ReduitesLues
  <2>2. CASE k.quoi = "alias" BY <1>3, <2>1, <2>2 DEF CleClose
  <2>3. CASE k.quoi # "alias" BY <1>2, <2>1, <2>3 DEF CleClose, MachineLa
  <2> QED BY <2>2, <2>3
<1>11. Ferme(r) BY <1>2, <1>7 DEF Ferme
<1>12. DatesDe(r) BY DatesLues
<1>13. /\ \A g \in DOMAIN groupes[r] \cap DOMAIN groupes'[r] :
            ~Avant(groupes'[r][g].etiquette, groupes[r][g].etiquette)
       /\ \A k \in DOMAIN poses[r] \cap DOMAIN poses'[r] :
            ~Avant(poses'[r][k].estampille, poses[r][k].estampille)
  BY <1>0, <1>12, ReduitesLues, OrdreTotal DEF DatesDe
<1>14. Partent(r) BY <1>6, <1>7, <1>8, <1>9, <1>10, <1>11, <1>13 DEF Partent
<1>15. Tenus(r) BY EffacementTenu
<1> QED BY <1>14, <1>15, PartentGarde

LEMMA DissolutionLue ==
  ASSUME IInv, NEW r \in Racine, NEW g, NEW e, Marquer(r, g, e),
         OublierLesDroits(r, DroitsDuGroupe(r, DuDomaine(g))), UNCHANGED tablesDesDomaines
  PROVE  /\ comptes' = comptes /\ domaines' = domaines /\ poses' = poses /\ groupes' = groupes
         /\ DOMAIN marques'[r] = DOMAIN marques[r] \cup {g}
         /\ adhesions'[r] = Sans(adhesions[r], {a \in DOMAIN adhesions[r] : a.groupe = DuDomaine(g)})
         /\ droits'[r] = Sans(droits[r], DroitsDuGroupe(r, DuDomaine(g)))
         /\ \A q \in Racine \ {r} : MemesTables(q)
BY DEF Marquer, OublierLesDroits, tablesDesDomaines, IInv, Racines, Poser, MemesTables

LEMMA DissolutionDite ==
  ASSUME IInv, NEW r \in Racine, NEW g, NEW e, Marquer(r, g, e),
         OublierLesDroits(r, DroitsDuGroupe(r, DuDomaine(g))), UNCHANGED tablesDesDomaines
  PROVE  /\ \A quoi, cle, valeur : DitIci(r, quoi, cle, valeur)' => DitIci(r, quoi, cle, valeur)
         /\ \A f : Sait(r, f)' => Sait(r, f) \/ (f.quoi = "dissous" /\ f.de = g)
<1>1. /\ comptes' = comptes /\ domaines' = domaines /\ poses' = poses /\ groupes' = groupes
      /\ DOMAIN marques'[r] = DOMAIN marques[r] \cup {g}
      /\ adhesions'[r] = Sans(adhesions[r], {a \in DOMAIN adhesions[r] : a.groupe = DuDomaine(g)})
      /\ droits'[r] = Sans(droits[r], DroitsDuGroupe(r, DuDomaine(g)))
  BY DissolutionLue
<1>2. /\ DOMAIN adhesions'[r] \subseteq DOMAIN adhesions[r]
      /\ DOMAIN droits'[r] \subseteq DOMAIN droits[r]
      /\ \A a \in DOMAIN adhesions'[r] : adhesions'[r][a] = adhesions[r][a]
      /\ \A d \in DOMAIN droits'[r] : droits'[r][d] = droits[r][d]
  BY <1>1 DEF Sans
<1>3. ASSUME NEW quoi, NEW cle, NEW valeur, DitIci(r, quoi, cle, valeur)'
      PROVE  DitIci(r, quoi, cle, valeur)
  BY <1>1, <1>2, <1>3 DEF DitIci
<1>4. ASSUME NEW f, Sait(r, f)' PROVE Sait(r, f) \/ (f.quoi = "dissous" /\ f.de = g)
  BY <1>1, <1>2, <1>4 DEF Sait, CompteVivant
<1> QED BY <1>3, <1>4

LEMMA DissolutionGarde ==
  ASSUME IInv, IInv', DitUneFois, DitsRestent, NEW r \in Racine, NEW g, NEW e, Marquer(r, g, e),
         OublierLesDroits(r, DroitsDuGroupe(r, DuDomaine(g))), UNCHANGED tablesDesDomaines
  PROVE  Garde(r)
<1>1. /\ comptes' = comptes /\ domaines' = domaines /\ poses' = poses /\ groupes' = groupes
      /\ DOMAIN marques'[r] = DOMAIN marques[r] \cup {g}
      /\ adhesions'[r] = Sans(adhesions[r], {a \in DOMAIN adhesions[r] : a.groupe = DuDomaine(g)})
      /\ droits'[r] = Sans(droits[r], DroitsDuGroupe(r, DuDomaine(g)))
  BY DissolutionLue
<1>2. Ferme(r) BY <1>1 DEF Ferme, CompteVivant
<1>3. GroupeClos(r, DuDomaine(g))' BY <1>1 DEF GroupeClos, DuDomaine
<1>4. ASSUME NEW a \in DOMAIN adhesions[r], a \notin DOMAIN adhesions'[r]
      PROVE  AjoutClos(r, a)'
  <2>1. a.groupe = DuDomaine(g) BY <1>1, <1>4 DEF Sans
  <2> QED BY <1>3, <2>1 DEF AjoutClos
<1>5. ASSUME NEW d \in DOMAIN droits[r], d \notin DOMAIN droits'[r]
      PROVE  DroitClos(r, d)'
  <2> SUFFICES ASSUME NEW droit, EstDit("droit", d, droit)' PROVE RangeeClose(r, droit)'
    BY DEF DroitClos
  <2>1. droits[r][d].groupe = DuDomaine(g) BY <1>1, <1>5 DEF Sans, DroitsDuGroupe
  <2>2. droit.groupe = DuDomaine(g) BY <2>1, RangeeUnique
  <2> QED BY <1>3, <2>2 DEF RangeeClose
<1>6. DatesDe(r) BY DatesLues
<1>7. Partent(r) BY <1>1, <1>2, <1>4, <1>5, <1>6, OrdreTotal DEF Partent, DatesDe
<1>8. Tenus(r) BY DissolutionTenue
<1> QED BY <1>7, <1>8, PartentGarde

-----------------------------------------------------------------------------
(* A step that writes or applies one operation.                            *)

\* What is new in the tables is what the operation says.
Ajoute(r, operation) ==
  /\ \A quoi, cle, valeur : DitIci(r, quoi, cle, valeur)' =>
       DitIci(r, quoi, cle, valeur) \/ DitPar(operation, quoi, cle, valeur)
  /\ \A f \in FaitDe(Emise') : Sait(r, f)' => Sait(r, f) \/ Porte(operation, f)

\* After a snapshot a right may come with its withdrawal.
AjouteSauf(r, operation) ==
  /\ \A quoi, cle, valeur : DitIci(r, quoi, cle, valeur)' =>
       DitIci(r, quoi, cle, valeur) \/ DitPar(operation, quoi, cle, valeur)
  /\ \A f \in FaitDe(Emise') : (f.quoi = "droitRetire" => amorcages = 0) =>
       (Sait(r, f)' => Sait(r, f) \/ Porte(operation, f))

LEMMA AjouteEncore ==
  ASSUME NEW r, NEW operation, Ajoute(r, operation)
  PROVE  AjouteSauf(r, operation)
BY DEF Ajoute, AjouteSauf

\* What is written is said for the first time, needs what is there, and is in the tables.
Inedite(r, operation) ==
  /\ \A quoi, cle, valeur : DitPar(operation, quoi, cle, valeur) =>
       EstDit(quoi, cle, valeur) \/ DateDite(quoi, cle) \notin Emise
  /\ \A a : DitPar(operation, "adhesion", a, a) =>
       \/ EstDit("adhesion", a, a)
       \/ /\ a.groupe.sorte # "personnel"
          /\ a.groupe.sorte = "administrateurs" => ~EstDit("domaine", a.groupe.de, a.compte)'
  /\ \A f \in FaitDe(Emise') : Requiert(operation, f) => Sait(r, f)
  /\ \A f \in FaitDe(Emise') : Porte(operation, f) => Su(r, f)'
  /\ operation.quoi = "droit" => operation.enregistrement.retire = Aucune

LEMMA DitParUn ==
  ASSUME NEW operation, NEW quoi, NEW cle, NEW v, NEW w,
         DitPar(operation, quoi, cle, v), DitPar(operation, quoi, cle, w)
  PROVE  v = w
BY DEF DitPar

LEMMA UneEcritureAccorde ==
  ASSUME IInv, IInv', Accord, NEW r \in Racine, NEW operation, Journaliser(r, operation),
         operation \in OperationDe(Emise'), \A q \in Racine \ {r} : MemesTables(q),
         \A q \in Racine : Tenus(q), DitsRestent => Garde(r),
         Ajoute(r, operation), Inedite(r, operation)
  PROVE  Accord'
<1>1. PICK ops : ops = <<operation>> OBVIOUS
<1>2. /\ ops \in Seq(OperationDe(Emise')) /\ JournaliserTout(r, ops)
      /\ DOMAIN ops = {1} /\ ops[1] = operation
  <2>1. JournaliserTout(r, ops) BY <1>1 DEF Journaliser
  <2>2. PICK T : T = OperationDe(Emise') OBVIOUS
  <2>3. ops \in Seq(T) BY <1>1, <2>2
  <2> QED BY <1>1, <2>1, <2>2, <2>3
<1>3. EcritureDite(r, ops)
  <2>1. ASSUME NEW quoi, NEW cle, NEW valeur, DitIci(r, quoi, cle, valeur)'
        PROVE  \/ EstDit(quoi, cle, valeur)
               \/ \E i \in DOMAIN ops : DitPar(ops[i], quoi, cle, valeur)
    <3>1. DitIci(r, quoi, cle, valeur) \/ DitPar(operation, quoi, cle, valeur)
      BY <2>1 DEF Ajoute
    <3> QED BY <1>2, <3>1 DEF EstDit
  <2>2. \A i \in DOMAIN ops : \A quoi, cle, valeur : DitPar(ops[i], quoi, cle, valeur) =>
          EstDit(quoi, cle, valeur) \/ DateDite(quoi, cle) \notin Emise
    BY <1>2 DEF Inedite
  <2>3. \A i, j \in DOMAIN ops : \A quoi, cle, v, w :
          DitPar(ops[i], quoi, cle, v) /\ DitPar(ops[j], quoi, cle, w) => v = w
    BY <1>2, DitParUn
  <2>4. \A i \in DOMAIN ops : \A a : DitPar(ops[i], "adhesion", a, a) =>
          \/ EstDit("adhesion", a, a)
          \/ /\ a.groupe.sorte # "personnel"
             /\ a.groupe.sorte = "administrateurs" => ~EstDit("domaine", a.groupe.de, a.compte)'
    BY <1>2 DEF Inedite
  <2> QED BY <2>1, <2>2, <2>3, <2>4 DEF EcritureDite
<1>4. EcritureJuste(r, ops)
  <2>1. ASSUME NEW f \in FaitDe(Emise'), Sait(r, f)'
        PROVE  Sait(r, f) \/ \E i \in DOMAIN ops : Porte(ops[i], f)
    <3>1. Sait(r, f) \/ Porte(operation, f) BY <2>1 DEF Ajoute
    <3> QED BY <1>2, <3>1
  <2> QED BY <1>2, <2>1 DEF Inedite, EcritureJuste
<1> QED BY <1>2, <1>3, <1>4, EcritureAccorde

LEMMA UneReceptionAccorde ==
  ASSUME IInv, IInv', Accord, NEW r \in Racine, Retirer(r),
         \A q \in Racine \ {r} : MemesTables(q), \A q \in Racine : Tenus(q),
         DitsRestent => Garde(r), AjouteSauf(r, Head(enRoute[r])),
         \A f \in FaitDe(Emise) : Porte(Head(enRoute[r]), f) => Su(r, f)'
  PROVE  Accord'
<1>1. 1 \in DOMAIN enRoute[r] /\ Head(enRoute[r]) = enRoute[r][1] BY VoieEntamee
<1>2. ASSUME NEW quoi, NEW cle, NEW valeur, DitIci(r, quoi, cle, valeur)'
      PROVE  EstDit(quoi, cle, valeur)
  <2>1. DitIci(r, quoi, cle, valeur) \/ DitPar(enRoute[r][1], quoi, cle, valeur)
    BY <1>1, <1>2 DEF AjouteSauf
  <2> QED BY <1>1, <2>1 DEF EstDit
<1>3. Reception(r, Head(enRoute[r])) BY <1>2 DEF Reception, AjouteSauf
<1> QED BY <1>3, ReceptionAccorde

\* What the first operation needs is known.
LEMMA TeteRequiert ==
  ASSUME IInv, Accord, NEW r \in Racine, Retirer(r)
  PROVE  /\ Head(enRoute[r]) \in OperationDe(Emise)
         /\ \A f \in FaitDe(Emise) : Requiert(Head(enRoute[r]), f) => Su(r, f)
         /\ \A quoi, cle, valeur : DitPar(Head(enRoute[r]), quoi, cle, valeur) =>
              EstDit(quoi, cle, valeur)
         /\ amorcages = 0 /\ Head(enRoute[r]).quoi = "droit" =>
              Head(enRoute[r]).enregistrement.retire = Aucune
<1>1. 1 \in DOMAIN enRoute[r] /\ Head(enRoute[r]) = enRoute[r][1]
      /\ \A i \in DOMAIN enRoute[r] : i \in Nat
  BY VoieEntamee
<1>2. \A j \in DOMAIN enRoute[r] : ~(j < 1)
  <2>1. \A j \in DOMAIN enRoute[r] : j \in 1..Len(enRoute[r]) BY DEF IInv, Voies
  <2> QED BY <2>1
<1>3. \A f \in FaitDe(Emise) : Requiert(Head(enRoute[r]), f) => Su(r, f)
  BY <1>1, <1>2 DEF Accord, Ordonne, Precede
<1>4. \A quoi, cle, valeur : DitPar(Head(enRoute[r]), quoi, cle, valeur) =>
        EstDit(quoi, cle, valeur)
  BY <1>1 DEF EstDit
<1>5. amorcages = 0 /\ Head(enRoute[r]).quoi = "droit" =>
        Head(enRoute[r]).enregistrement.retire = Aucune
  BY <1>1 DEF Accord, SansRetraits
<1> QED BY <1>3, <1>4, <1>5, Recue

-----------------------------------------------------------------------------
(* What each operation changes, written or applied.                        *)

LEMMA ComptesSeuls ==
  ASSUME IInv, NEW r \in Racine, \A c : CompteVivant(r, c)' <=> CompteVivant(r, c),
         UNCHANGED <<domaines, poses, tablesDesGroupes, droits>>, NEW operation
  PROVE  Ajoute(r, operation) /\ Grandit(r)
<1>1. /\ domaines' = domaines /\ poses' = poses /\ groupes' = groupes /\ marques' = marques
      /\ adhesions' = adhesions /\ droits' = droits
  BY DEF tablesDesGroupes
<1>2. \A quoi, cle, valeur : DitIci(r, quoi, cle, valeur)' => DitIci(r, quoi, cle, valeur)
  BY <1>1 DEF DitIci
<1>3. \A f : Sait(r, f)' => Sait(r, f) BY <1>1 DEF Sait
<1>4. DatesDe(r) BY DatesLues
<1>5. Grandit(r) BY <1>1, <1>4, OrdreTotal DEF Grandit, DatesDe
<1> QED BY <1>2, <1>3, <1>5 DEF Ajoute

\* The facts about a mark name a date.
LEMMA FaitDate ==
  ASSUME NEW E \in SUBSET Estampille, NEW f \in FaitDe(E)
  PROVE  f.quoi \in {"supprime", "etiquette", "droitRetire", "retire", "pose"} =>
           f.date # Aucune
BY FaitLu, PasDEstampille

LEMMA DomaineAjoute ==
  ASSUME IInv, NEW r \in Racine, NEW operation, operation.quoi = "domaine",
         operation.de \notin DOMAIN domaines[r], NEW e,
         domaines' = [domaines EXCEPT ![r] =
           Poser(@, operation.de, Domaine(operation.proprietaire, e))],
         UNCHANGED <<comptes, poses, tablesDesGroupes, droits>>
  PROVE  Ajoute(r, operation) /\ Grandit(r) /\ \A q \in Racine \ {r} : MemesTables(q)
<1>1. /\ comptes' = comptes /\ poses' = poses /\ groupes' = groupes /\ marques' = marques
      /\ adhesions' = adhesions /\ droits' = droits
  BY DEF tablesDesGroupes
<1>2. /\ DOMAIN domaines'[r] = DOMAIN domaines[r] \cup {operation.de}
      /\ domaines'[r][operation.de] = Domaine(operation.proprietaire, e)
      /\ \A d \in DOMAIN domaines[r] : domaines'[r][d] = domaines[r][d]
      /\ \A q \in Racine \ {r} : domaines'[q] = domaines[q]
  BY DEF IInv, Racines, Poser
<1>3. \A quoi, cle, valeur : DitIci(r, quoi, cle, valeur)' =>
        DitIci(r, quoi, cle, valeur) \/ DitPar(operation, quoi, cle, valeur)
  BY <1>1, <1>2 DEF DitIci, DitPar, Domaine
<1>4. ASSUME NEW f \in FaitDe(Emise'), Sait(r, f)' PROVE Sait(r, f) \/ Porte(operation, f)
  <2>1. f.quoi = "supprime" => f.date # Aucune BY EmiseEstampilles, FaitDate
  <2> QED BY <1>1, <1>2, <1>4, <2>1 DEF Sait, Porte, CompteVivant, Domaine
<1>5. DatesDe(r) BY DatesLues
<1>6. Grandit(r) BY <1>1, <1>2, <1>5, OrdreTotal DEF Grandit, DatesDe, CompteVivant
<1> QED BY <1>1, <1>2, <1>3, <1>4, <1>6 DEF Ajoute, MemesTables

\* A domain is marked, and nothing else changes.
DomaineMarque(r, d, m) ==
  /\ DOMAIN domaines'[r] = DOMAIN domaines[r]
  /\ domaines'[r][d].supprime = m
  /\ domaines'[r][d].proprietaire = domaines[r][d].proprietaire
  /\ \A x \in DOMAIN domaines[r] : x # d => domaines'[r][x] = domaines[r][x]
  /\ \A q \in Racine \ {r} : domaines'[q] = domaines[q]

LEMMA DomaineEstMarque ==
  ASSUME IInv, NEW r \in Racine, NEW d \in DOMAIN domaines[r], NEW m,
         domaines' = [domaines EXCEPT ![r][d].supprime = m]
  PROVE  DomaineMarque(r, d, m)
<1>1. domaines[r][d] \in RangeeDeDomaine(Emise) /\ DOMAIN domaines = Racine
  BY DEF IInv, Locale, DomainesJustes, TableDe, Racines
<1> QED BY <1>1 DEF RangeeDeDomaine, DomaineMarque

\* The mark of deletion, written or received.
LEMMA SuppressionAjoute ==
  ASSUME IInv, NEW r \in Racine, NEW operation, operation.quoi = "supprime",
         NEW d \in DOMAIN domaines[r], operation.de = d, NEW m,
         m = operation.estampille \/ m = domaines[r][d].supprime,
         DomaineMarque(r, d, m),
         UNCHANGED <<comptes, poses, tablesDesGroupes, droits>>
  PROVE  /\ Ajoute(r, operation) /\ Grandit(r) /\ \A q \in Racine \ {r} : MemesTables(q)
         /\ d \in DOMAIN domaines'[r] /\ domaines'[r][d].supprime = m
<1>1. /\ comptes' = comptes /\ poses' = poses /\ groupes' = groupes /\ marques' = marques
      /\ adhesions' = adhesions /\ droits' = droits
  BY DEF tablesDesGroupes
<1>2. /\ DOMAIN domaines'[r] = DOMAIN domaines[r]
      /\ domaines'[r][d].supprime = m
      /\ domaines'[r][d].proprietaire = domaines[r][d].proprietaire
      /\ \A x \in DOMAIN domaines[r] : x # d => domaines'[r][x] = domaines[r][x]
      /\ \A q \in Racine \ {r} : domaines'[q] = domaines[q]
  BY DEF DomaineMarque
<1>3. \A quoi, cle, valeur : DitIci(r, quoi, cle, valeur)' => DitIci(r, quoi, cle, valeur)
  BY <1>1, <1>2 DEF DitIci
<1>4. ASSUME NEW f \in FaitDe(Emise'), Sait(r, f)' PROVE Sait(r, f) \/ Porte(operation, f)
  BY <1>1, <1>2, <1>4 DEF Sait, Porte, CompteVivant
<1>5. DatesDe(r) BY DatesLues
<1>6. Grandit(r) BY <1>1, <1>2, <1>5, OrdreTotal DEF Grandit, DatesDe, CompteVivant
<1> QED BY <1>1, <1>2, <1>3, <1>4, <1>6 DEF Ajoute, MemesTables

LEMMA PoseAjoute ==
  ASSUME IInv, NEW r \in Racine, NEW operation, operation.quoi = "pose",
         operation.cle \in DOMAIN poses[r] =>
           ~Avant(operation.estampille, poses[r][operation.cle].estampille),
         poses' = [poses EXCEPT ![r] = Poser(@, operation.cle,
           [estampille |-> operation.estampille, valeur |-> operation.valeur])],
         UNCHANGED <<comptes, domaines, tablesDesGroupes, droits>>
  PROVE  /\ Ajoute(r, operation) /\ Grandit(r) /\ \A q \in Racine \ {r} : MemesTables(q)
         /\ operation.cle \in DOMAIN poses'[r]
         /\ poses'[r][operation.cle].estampille = operation.estampille
<1>1. /\ comptes' = comptes /\ domaines' = domaines /\ groupes' = groupes /\ marques' = marques
      /\ adhesions' = adhesions /\ droits' = droits
  BY DEF tablesDesGroupes
<1>2. /\ DOMAIN poses'[r] = DOMAIN poses[r] \cup {operation.cle}
      /\ poses'[r][operation.cle].estampille = operation.estampille
      /\ poses'[r][operation.cle].valeur = operation.valeur
      /\ \A k \in DOMAIN poses[r] : k # operation.cle => poses'[r][k] = poses[r][k]
      /\ \A q \in Racine \ {r} : poses'[q] = poses[q]
  BY DEF IInv, Racines, Poser
<1>3. \A quoi, cle, valeur : DitIci(r, quoi, cle, valeur)' =>
        DitIci(r, quoi, cle, valeur) \/ DitPar(operation, quoi, cle, valeur)
  BY <1>1, <1>2 DEF DitIci, DitPar
<1>4. ASSUME NEW f \in FaitDe(Emise'), Sait(r, f)' PROVE Sait(r, f) \/ Porte(operation, f)
  BY <1>1, <1>2, <1>4 DEF Sait, Porte, CompteVivant
<1>5. DatesDe(r) BY DatesLues
<1>6. Grandit(r) BY <1>1, <1>2, <1>5, OrdreTotal DEF Grandit, DatesDe, CompteVivant
<1> QED BY <1>1, <1>2, <1>3, <1>4, <1>6 DEF Ajoute, MemesTables

LEMMA GroupeAjoute ==
  ASSUME IInv, NEW r \in Racine, NEW operation, operation.quoi = "groupe",
         operation.de \notin DOMAIN groupes[r],
         groupes' = [groupes EXCEPT ![r] = Poser(@, operation.de,
           [domaine |-> operation.domaine, etiquette |-> operation.etiquette])],
         UNCHANGED <<tablesDesDomaines, marques, adhesions, droits>>
  PROVE  /\ Ajoute(r, operation) /\ Grandit(r) /\ \A q \in Racine \ {r} : MemesTables(q)
         /\ operation.de \in DOMAIN groupes'[r]
         /\ groupes'[r][operation.de].etiquette = operation.etiquette
<1>1. /\ comptes' = comptes /\ domaines' = domaines /\ poses' = poses /\ marques' = marques
      /\ adhesions' = adhesions /\ droits' = droits
  BY DEF tablesDesDomaines
<1>2. /\ DOMAIN groupes'[r] = DOMAIN groupes[r] \cup {operation.de}
      /\ groupes'[r][operation.de].domaine = operation.domaine
      /\ groupes'[r][operation.de].etiquette = operation.etiquette
      /\ \A g \in DOMAIN groupes[r] : groupes'[r][g] = groupes[r][g]
      /\ \A q \in Racine \ {r} : groupes'[q] = groupes[q]
  BY DEF IInv, Racines, Poser
<1>3. \A quoi, cle, valeur : DitIci(r, quoi, cle, valeur)' =>
        DitIci(r, quoi, cle, valeur) \/ DitPar(operation, quoi, cle, valeur)
  BY <1>1, <1>2 DEF DitIci, DitPar
<1>4. ASSUME NEW f \in FaitDe(Emise'), Sait(r, f)' PROVE Sait(r, f) \/ Porte(operation, f)
  BY <1>1, <1>2, <1>4 DEF Sait, Porte, CompteVivant
<1>5. DatesDe(r) BY DatesLues
<1>6. Grandit(r) BY <1>1, <1>2, <1>5, OrdreTotal DEF Grandit, DatesDe, CompteVivant
<1> QED BY <1>1, <1>2, <1>3, <1>4, <1>6 DEF Ajoute, MemesTables

\* The label, by an operation of its own or by the one of the group.
LEMMA EtiquetteAjoute ==
  ASSUME IInv, NEW r \in Racine, NEW operation, NEW e \in Estampille,
         PoserLEtiquette(r, operation.de, e),
         \/ operation.quoi = "etiquette" /\ e = operation.estampille
         \/ operation.quoi = "groupe" /\ e = operation.etiquette,
         UNCHANGED <<tablesDesDomaines, marques, adhesions, droits>>
  PROVE  /\ Ajoute(r, operation) /\ Grandit(r) /\ \A q \in Racine \ {r} : MemesTables(q)
         /\ DOMAIN groupes'[r] = DOMAIN groupes[r]
         /\ operation.de \in DOMAIN groupes[r] => ~Avant(groupes'[r][operation.de].etiquette, e)
<1>1. /\ comptes' = comptes /\ domaines' = domaines /\ poses' = poses /\ marques' = marques
      /\ adhesions' = adhesions /\ droits' = droits
  BY DEF tablesDesDomaines
<1>2. DatesDe(r) BY DatesLues
<1>3. CASE operation.de \in DOMAIN groupes[r] /\ Avant(groupes[r][operation.de].etiquette, e)
  <2>1. groupes' = [groupes EXCEPT ![r][operation.de].etiquette = e]
    BY <1>3 DEF PoserLEtiquette
  <2>2. groupes[r][operation.de] \in GroupeCree(Emise) /\ DOMAIN groupes = Racine
    BY <1>3 DEF IInv, Locale, GroupesJustes, TableDe, Racines
  <2>3. /\ DOMAIN groupes'[r] = DOMAIN groupes[r]
        /\ groupes'[r][operation.de].domaine = groupes[r][operation.de].domaine
        /\ groupes'[r][operation.de].etiquette = e
        /\ \A g \in DOMAIN groupes[r] : g # operation.de => groupes'[r][g] = groupes[r][g]
        /\ \A q \in Racine \ {r} : groupes'[q] = groupes[q]
    BY <1>3, <2>1, <2>2 DEF GroupeCree
  <2>4. \A quoi, cle, valeur : DitIci(r, quoi, cle, valeur)' => DitIci(r, quoi, cle, valeur)
    BY <1>1, <2>3 DEF DitIci
  <2>5. ASSUME NEW f \in FaitDe(Emise'), Sait(r, f)' PROVE Sait(r, f) \/ Porte(operation, f)
    BY <1>1, <2>3, <2>5 DEF Sait, Porte, CompteVivant
  <2>6. \A g \in DOMAIN groupes[r] : ~Avant(groupes'[r][g].etiquette, groupes[r][g].etiquette)
    BY <1>2, <1>3, <2>3, OrdreTotal DEF DatesDe
  <2>7. Grandit(r) BY <1>1, <1>2, <2>3, <2>6, OrdreTotal DEF Grandit, DatesDe, CompteVivant
  <2> QED BY <1>1, <2>3, <2>4, <2>5, <2>7, OrdreTotal DEF Ajoute, MemesTables
<1>4. CASE ~(operation.de \in DOMAIN groupes[r] /\ Avant(groupes[r][operation.de].etiquette, e))
  <2>1. groupes' = groupes BY <1>4 DEF PoserLEtiquette
  <2>2. \A quoi, cle, valeur : DitIci(r, quoi, cle, valeur)' => DitIci(r, quoi, cle, valeur)
    BY <1>1, <2>1 DEF DitIci
  <2>3. \A f : Sait(r, f)' => Sait(r, f) BY <1>1, <2>1 DEF Sait, CompteVivant
  <2>4. Grandit(r) BY <1>1, <1>2, <2>1, OrdreTotal DEF Grandit, DatesDe, CompteVivant
  <2> QED BY <1>1, <1>4, <2>1, <2>2, <2>3, <2>4 DEF Ajoute, MemesTables
<1> QED BY <1>3, <1>4

\* An addition is there without removal, or with the one the operation brings or the one
\* it had.
AjoutVu(r, operation, v) ==
  \/ v = Aucune
  \/ operation.quoi = "retire" /\ v = operation.estampille
  \/ AjoutDe(operation) \in DOMAIN adhesions[r] /\ v = adhesions[r][AjoutDe(operation)]

\* The addition is in the table, and nothing else changes.
AjoutMis(r, a, v) ==
  /\ DOMAIN adhesions'[r] = DOMAIN adhesions[r] \cup {a} /\ adhesions'[r][a] = v
  /\ \A x \in DOMAIN adhesions[r] : x # a => adhesions'[r][x] = adhesions[r][x]
  /\ \A q \in Racine \ {r} : adhesions'[q] = adhesions[q]

LEMMA AdhesionAjoute ==
  ASSUME IInv, NEW r \in Racine, NEW operation, operation.quoi \in {"membre", "retire"}, NEW v,
         AjoutVu(r, operation, v),
         AjoutMis(r, AjoutDe(operation), v),
         UNCHANGED <<tablesDesDomaines, groupes, marques, droits>>
  PROVE  /\ Ajoute(r, operation) /\ Grandit(r) /\ \A q \in Racine \ {r} : MemesTables(q)
         /\ AjoutDe(operation) \in DOMAIN adhesions'[r]
         /\ adhesions'[r][AjoutDe(operation)] = v
<1>1. /\ comptes' = comptes /\ domaines' = domaines /\ poses' = poses /\ marques' = marques
      /\ groupes' = groupes /\ droits' = droits
  BY DEF tablesDesDomaines
<1> DEFINE a == AjoutDe(operation)
<1> HIDE DEF a
<1>2. /\ DOMAIN adhesions'[r] = DOMAIN adhesions[r] \cup {a} /\ adhesions'[r][a] = v
      /\ \A x \in DOMAIN adhesions[r] : x # a => adhesions'[r][x] = adhesions[r][x]
      /\ \A q \in Racine \ {r} : adhesions'[q] = adhesions[q]
  BY DEF AjoutMis, a
<1>3. \A quoi, cle, valeur : DitIci(r, quoi, cle, valeur)' =>
        DitIci(r, quoi, cle, valeur) \/ DitPar(operation, quoi, cle, valeur)
  BY <1>1, <1>2 DEF DitIci, DitPar, a
<1>4. ASSUME NEW f \in FaitDe(Emise'), Sait(r, f)' PROVE Sait(r, f) \/ Porte(operation, f)
  <2>1. f.quoi = "retire" => f.date # Aucune BY EmiseEstampilles, FaitDate
  <2>2. CASE f.quoi = "membre" BY <1>2, <1>4, <2>2 DEF Sait, Porte, a
  <2>3. CASE f.quoi = "retire" BY <1>2, <1>4, <2>1, <2>3 DEF Sait, Porte, AjoutVu, a
  <2>4. CASE f.quoi \notin {"membre", "retire"}
    BY <1>1, <1>4, <2>4 DEF Sait, CompteVivant
  <2> QED BY <2>2, <2>3, <2>4
<1>5. DatesDe(r) BY DatesLues
<1>6. Grandit(r) BY <1>1, <1>2, <1>5, OrdreTotal DEF Grandit, DatesDe, CompteVivant
<1> QED BY <1>1, <1>2, <1>3, <1>4, <1>6 DEF Ajoute, MemesTables, a

\* The withdrawal that a right brings is not counted after a snapshot.
LEMMA DroitAjoute ==
  ASSUME IInv, NEW r \in Racine, NEW operation, operation.quoi = "droit",
         operation.estampille \notin DOMAIN droits[r],
         amorcages = 0 => operation.enregistrement.retire = Aucune,
         droits' = [droits EXCEPT ![r] =
           Poser(@, operation.estampille, operation.enregistrement)],
         UNCHANGED <<tablesDesDomaines, tablesDesGroupes>>
  PROVE  /\ AjouteSauf(r, operation) /\ Grandit(r) /\ \A q \in Racine \ {r} : MemesTables(q)
         /\ operation.enregistrement.retire = Aucune => Ajoute(r, operation)
         /\ operation.estampille \in DOMAIN droits'[r]
<1>1. /\ comptes' = comptes /\ domaines' = domaines /\ poses' = poses /\ marques' = marques
      /\ groupes' = groupes /\ adhesions' = adhesions
  BY DEF tablesDesDomaines, tablesDesGroupes
<1> DEFINE e == operation.estampille
           x == operation.enregistrement
<1>2. /\ DOMAIN droits'[r] = DOMAIN droits[r] \cup {e} /\ droits'[r][e] = x
      /\ \A d \in DOMAIN droits[r] : droits'[r][d] = droits[r][d]
      /\ \A q \in Racine \ {r} : droits'[q] = droits[q]
  BY DEF IInv, Racines, Poser
<1>3. \A quoi, cle, valeur : DitIci(r, quoi, cle, valeur)' =>
        DitIci(r, quoi, cle, valeur) \/ DitPar(operation, quoi, cle, valeur)
  BY <1>1, <1>2 DEF DitIci, DitPar
<1>4. ASSUME NEW f \in FaitDe(Emise'), Sait(r, f)',
             f.quoi = "droitRetire" => x.retire = Aucune
      PROVE  Sait(r, f) \/ Porte(operation, f)
  <2>1. f.quoi = "droitRetire" => f.date # Aucune BY EmiseEstampilles, FaitDate
  <2>2. CASE f.quoi = "droit" BY <1>2, <1>4, <2>2 DEF Sait, Porte
  <2>3. CASE f.quoi = "droitRetire" BY <1>2, <1>4, <2>1, <2>3 DEF Sait, Porte
  <2>4. CASE f.quoi \notin {"droit", "droitRetire"} BY <1>1, <1>4, <2>4 DEF Sait, CompteVivant
  <2> QED BY <2>2, <2>3, <2>4
<1>5. DatesDe(r) BY DatesLues
<1>6. Grandit(r) BY <1>1, <1>2, <1>5, OrdreTotal DEF Grandit, DatesDe, CompteVivant
<1>7. AjouteSauf(r, operation) BY <1>3, <1>4 DEF AjouteSauf
<1>8. x.retire = Aucune => Ajoute(r, operation) BY <1>3, <1>4 DEF Ajoute
<1> QED BY <1>1, <1>2, <1>6, <1>7, <1>8 DEF MemesTables

\* A right is marked, and nothing else changes.
DroitMarque(r, d, m) ==
  /\ DOMAIN droits'[r] = DOMAIN droits[r]
  /\ droits'[r][d].retire = m
  /\ SansSonRetrait(droits'[r][d]) = SansSonRetrait(droits[r][d])
  /\ \A x \in DOMAIN droits[r] : x # d => droits'[r][x] = droits[r][x]
  /\ \A q \in Racine \ {r} : droits'[q] = droits[q]

LEMMA DroitEstMarque ==
  ASSUME IInv, NEW r \in Racine, NEW d \in DOMAIN droits[r], NEW m,
         droits' = [droits EXCEPT ![r][d].retire = m]
  PROVE  DroitMarque(r, d, m)
<1>1. droits[r][d] \in DroitDe(Emise) /\ DOMAIN droits = Racine
  BY DEF IInv, Locale, DroitsJustes, TableDe, Racines
<1>2. /\ DOMAIN droits'[r] = DOMAIN droits[r]
      /\ droits'[r][d] = [droits[r][d] EXCEPT !.retire = m]
      /\ \A x \in DOMAIN droits[r] : x # d => droits'[r][x] = droits[r][x]
      /\ \A q \in Racine \ {r} : droits'[q] = droits[q]
  BY <1>1
<1>3. /\ droits'[r][d].retire = m
      /\ SansSonRetrait(droits'[r][d]) = SansSonRetrait(droits[r][d])
  BY <1>1, <1>2 DEF DroitDe, SansSonRetrait
<1> QED BY <1>2, <1>3 DEF DroitMarque

\* The withdrawal of a right, written or received.
LEMMA DroitRetireAjoute ==
  ASSUME IInv, NEW r \in Racine, NEW operation, operation.quoi = "droitRetire",
         NEW d \in DOMAIN droits[r], operation.droit = d, NEW m,
         m = operation.estampille \/ m = droits[r][d].retire,
         DroitMarque(r, d, m),
         UNCHANGED <<tablesDesDomaines, tablesDesGroupes>>
  PROVE  /\ Ajoute(r, operation) /\ Grandit(r) /\ \A q \in Racine \ {r} : MemesTables(q)
         /\ d \in DOMAIN droits'[r] /\ droits'[r][d].retire = m
<1>1. /\ comptes' = comptes /\ domaines' = domaines /\ poses' = poses /\ marques' = marques
      /\ groupes' = groupes /\ adhesions' = adhesions
  BY DEF tablesDesDomaines, tablesDesGroupes
<1>2. /\ DOMAIN droits'[r] = DOMAIN droits[r]
      /\ droits'[r][d].retire = m
      /\ SansSonRetrait(droits'[r][d]) = SansSonRetrait(droits[r][d])
      /\ \A x \in DOMAIN droits[r] : x # d => droits'[r][x] = droits[r][x]
      /\ \A q \in Racine \ {r} : droits'[q] = droits[q]
  BY DEF DroitMarque
<1>3. \A quoi, cle, valeur : DitIci(r, quoi, cle, valeur)' => DitIci(r, quoi, cle, valeur)
  BY <1>1, <1>2 DEF DitIci
<1>4. ASSUME NEW f \in FaitDe(Emise'), Sait(r, f)' PROVE Sait(r, f) \/ Porte(operation, f)
  BY <1>1, <1>2, <1>4 DEF Sait, Porte, CompteVivant
<1>5. DatesDe(r) BY DatesLues
<1>6. Grandit(r) BY <1>1, <1>2, <1>5, OrdreTotal DEF Grandit, DatesDe, CompteVivant
<1> QED BY <1>1, <1>2, <1>3, <1>4, <1>6 DEF Ajoute, MemesTables

\* The deletion of a group, written or received.
LEMMA DissolutionAjoute ==
  ASSUME IInv, NEW r \in Racine, NEW operation, operation.quoi = "dissous", NEW e,
         Marquer(r, operation.de, e),
         OublierLesDroits(r, DroitsDuGroupe(r, DuDomaine(operation.de))),
         UNCHANGED tablesDesDomaines
  PROVE  /\ Ajoute(r, operation) /\ \A q \in Racine \ {r} : MemesTables(q)
         /\ operation.de \in DOMAIN marques'[r]
<1>1. /\ \A quoi, cle, valeur : DitIci(r, quoi, cle, valeur)' => DitIci(r, quoi, cle, valeur)
      /\ \A f : Sait(r, f)' => Sait(r, f) \/ (f.quoi = "dissous" /\ f.de = operation.de)
  BY DissolutionDite
<1>2. \A f : f.quoi = "dissous" /\ f.de = operation.de => Porte(operation, f) BY DEF Porte
<1>3. Ajoute(r, operation) BY <1>1, <1>2 DEF Ajoute
<1>4. PICK g : g = operation.de OBVIOUS
<1>5. /\ DOMAIN marques'[r] = DOMAIN marques[r] \cup {g}
      /\ \A q \in Racine \ {r} : MemesTables(q)
  BY <1>4, DissolutionLue
<1> QED BY <1>3, <1>4, <1>5

\* The erasure of an account, written or received.
LEMMA EffacementAjoute ==
  ASSUME IInv, NEW r \in Racine, NEW operation, operation.quoi = "efface",
         operation.compte \in Connus, EffacerDans(r, operation.compte)
  PROVE  /\ Ajoute(r, operation) /\ \A q \in Racine \ {r} : MemesTables(q)
         /\ ~CompteVivant(r, operation.compte)'
<1> DEFINE c == operation.compte
           P == {cle \in DOMAIN poses[r] : IF cle.quoi = "alias" THEN cle.de \in DomainesDe(r, c)
                                                               ELSE Machines[cle.de] = c}
           A == {a \in DOMAIN adhesions[r] : a.groupe \in GroupesEmportes(r, c) \/ a.compte = c}
<1>1. Reduites(r, DomainesDe(r, c), P, CreesEmportes(r, c), CreesEmportes(r, c), A,
               DroitsEmportes(r, c))
  BY EffacementReduit
<1> HIDE DEF P, A
<1>2. /\ \A quoi, cle, valeur : DitIci(r, quoi, cle, valeur)' => DitIci(r, quoi, cle, valeur)
      /\ \A f : Sait(r, f)' => Sait(r, f) \/ (f.quoi = "efface" /\ ~CompteVivant(r, f.de)')
  BY <1>1, ReduitesDisent
<1>3. comptes' = [comptes EXCEPT ![r] = Poser(@, c, [estampille |-> Aucune, efface |-> TRUE])]
  BY DEF EffacerDans, EffacerLesDomaines
<1>4. /\ comptes'[r][c].efface = TRUE
      /\ \A x : x # c => (CompteVivant(r, x)' <=> CompteVivant(r, x))
  BY <1>3 DEF IInv, Racines, Poser, CompteVivant
<1>5. ~CompteVivant(r, c)' BY <1>4 DEF CompteVivant
<1>6. ASSUME NEW f \in FaitDe(Emise'), Sait(r, f)' PROVE Sait(r, f) \/ Porte(operation, f)
  <2>1. CASE Sait(r, f) BY <2>1
  <2>2. CASE f.quoi = "efface" /\ ~CompteVivant(r, f.de)'
    BY <2>2, <1>4 DEF Sait, Porte
  <2> QED BY <1>2, <1>6, <2>1, <2>2
<1>7. Ajoute(r, operation) BY <1>2, <1>6 DEF Ajoute
<1> QED BY <1>5, <1>7, ResteApresEffacement

-----------------------------------------------------------------------------
(* Each request.                                                           *)

\* The stamp of a request: it dates what it writes.
LEMMA SuivanteDate ==
  ASSUME IInv, NEW r \in Racine, NEW operation, Journaliser(r, operation)
  PROVE  /\ Suivante(r) \in Emise' /\ Suivante(r) \notin Emise /\ Avance
         /\ Suivante(r) \in Estampille /\ Suivante(r) # Aucune
         /\ ~Avant(Suivante(r), Suivante(r)) /\ Marquee(Suivante(r), Suivante(r))
<1>1. Suivante(r) \in Emise' /\ Suivante(r) \notin Emise /\ Avance BY AvanceeDUne
<1>2. Suivante(r) \in Estampille BY <1>1, EmiseEstampilles
<1>3. Suivante(r) # Aucune BY <1>2, PasDEstampille
<1>4. ~Avant(Suivante(r), Suivante(r)) BY <1>2, OrdreTotal
<1> QED BY <1>1, <1>2, <1>3, <1>4 DEF Marquee

LEMMA AliasEcrit ==
  ASSUME IInv, IInv', Accord, NEW r \in Racine, \A q \in Racine : Tenus(q),
         NEW c, ReclamerAlias(r, c), UNCHANGED <<tablesDesGroupes, droits>>
  PROVE  Accord'
<1> DEFINE e == Suivante(r)
           o == [quoi |-> "alias", estampille |-> e, compte |-> c]
<1>1. /\ CompteVivant(r, c) /\ Journaliser(r, o)
      /\ comptes' = [comptes EXCEPT ![r][c].estampille = e] /\ UNCHANGED <<domaines, poses>>
  BY DEF ReclamerAlias
<1>2. e \in Emise' BY <1>1, SuivanteDate
<1>3. c \in Connus BY <1>1, TousConnus DEF IInv, Locale
<1> HIDE DEF e
<1>4. o \in OperationDe(Emise')
  <2>1. o \in AuxDomaines(Emise') BY <1>2, <1>3 DEF AuxDomaines
  <2> QED BY <2>1, Operations
<1>5. DOMAIN comptes = Racine /\ comptes[r] \in [Connus -> CompteDe(Emise)]
  BY DEF IInv, Racines, Locale, ComptesJustes
<1>6. comptes[r][c] \in CompteDe(Emise) BY <1>3, <1>5
<1>7. /\ DOMAIN comptes'[r] = DOMAIN comptes[r] /\ comptes'[r][c].efface = comptes[r][c].efface
      /\ \A x \in DOMAIN comptes[r] : x # c => comptes'[r][x] = comptes[r][x]
      /\ \A q \in Racine \ {r} : comptes'[q] = comptes[q]
  BY <1>1, <1>3, <1>5, <1>6 DEF CompteDe
<1>8. \A x : CompteVivant(r, x)' <=> CompteVivant(r, x) BY <1>7 DEF CompteVivant
<1>9. \A q \in Racine \ {r} : MemesTables(q)
  BY <1>1, <1>7 DEF MemesTables, tablesDesGroupes
<1>10. Ajoute(r, o) /\ Grandit(r) BY <1>1, <1>8, ComptesSeuls
<1>11. Inedite(r, o) BY DEF Inedite, DitPar, Requiert, Porte
<1> HIDE DEF o
<1> QED BY <1>1, <1>4, <1>9, <1>10, <1>11, GranditGarde, UneEcritureAccorde

LEMMA SuppressionEcrite ==
  ASSUME IInv, IInv', Accord, NEW r \in Racine, \A q \in Racine : Tenus(q),
         NEW d, SupprimerDomaine(r, d), UNCHANGED <<tablesDesGroupes, droits>>
  PROVE  Accord'
<1> DEFINE e == Suivante(r)
           o == [quoi |-> "supprime", estampille |-> e, de |-> d]
<1>1. /\ d \in DOMAIN domaines[r] /\ Journaliser(r, o)
      /\ domaines' = [domaines EXCEPT ![r][d].supprime = e] /\ UNCHANGED <<comptes, poses>>
  BY DEF SupprimerDomaine, Vivant
<1>2. Avance /\ e \in Emise' /\ Marquee(e, e) BY <1>1, SuivanteDate
<1>3. d \in Emise' BY <1>1, <1>2, DomaineType DEF Avance
<1> HIDE DEF e
<1>4. o \in OperationDe(Emise')
  <2>1. o \in AuxDomaines(Emise') BY <1>2, <1>3 DEF AuxDomaines
  <2> QED BY <2>1, Operations
<1>5. /\ Ajoute(r, o) /\ Grandit(r) /\ \A q \in Racine \ {r} : MemesTables(q)
      /\ d \in DOMAIN domaines'[r] /\ domaines'[r][d].supprime = e
  <2>1. o.quoi = "supprime" /\ o.estampille = e /\ o.de = d OBVIOUS
  <2> HIDE DEF o
  <2>2. /\ e = o.estampille \/ e = domaines[r][d].supprime
        /\ UNCHANGED <<comptes, poses, tablesDesGroupes, droits>>
        /\ d \in DOMAIN domaines[r]
    BY <1>1, <2>1
  <2>3. DomaineMarque(r, d, e) BY <1>1, DomaineEstMarque
  <2> QED BY <2>1, <2>2, <2>3, SuppressionAjoute
<1>6. \A f \in FaitDe(Emise') : Porte(o, f) => Su(r, f)'
  BY <1>2, <1>5 DEF Porte, Su, Tient
<1>7. \A f \in FaitDe(Emise') : Requiert(o, f) => Sait(r, f) BY <1>1 DEF Requiert, Sait
<1>8. Inedite(r, o) BY <1>6, <1>7 DEF Inedite, DitPar
<1> HIDE DEF o
<1> QED BY <1>1, <1>4, <1>5, <1>8, GranditGarde, UneEcritureAccorde

LEMMA PoseEcrite ==
  ASSUME IInv, IInv', Accord, NEW r \in Racine, \A q \in Racine : Tenus(q),
         NEW cle \in CleDe(Emise), NEW v \in DateOuNon(Emise), Accueille(r, cle),
         PoserUneValeur(r, cle, v), UNCHANGED <<tablesDesGroupes, droits>>
  PROVE  Accord'
<1> DEFINE e == Suivante(r)
           o == Pose(cle, v, e)
<1>1. /\ Journaliser(r, o)
      /\ poses' = [poses EXCEPT ![r] = Poser(@, cle, [estampille |-> e, valeur |-> v])]
      /\ UNCHANGED <<comptes, domaines>>
  BY DEF PoserUneValeur
<1>2. Avance /\ e \in Emise' /\ e \notin Emise /\ ~Avant(e, e) BY <1>1, SuivanteDate
<1>3. cle \in CleDe(Emise') /\ v \in DateOuNon(Emise') BY <1>2, RangeesLarges DEF Avance
<1>4. cle \in DOMAIN poses[r] => ~Avant(e, poses[r][cle].estampille)
  <2>1. ASSUME cle \in DOMAIN poses[r] PROVE ~Avant(e, poses[r][cle].estampille)
    <3>1. poses[r][cle].estampille \in Estampille
      BY <2>1, RangeesLues, EmiseEstampilles
    <3>2. poses[r][cle].estampille.compteur <= compteur[r]
      BY <2>1 DEF IInv, Locale, PosesJustes
    <3>3. e.compteur = compteur[r] + 1 /\ compteur[r] \in Nat
      BY DEF Suivante, Prochaine, IInv, Voies
    <3>4. poses[r][cle].estampille.compteur \in Nat BY <3>1 DEF Estampille
    <3> HIDE DEF e
    <3> QED BY <3>2, <3>3, <3>4 DEF Avant
  <2> QED BY <2>1
<1> HIDE DEF e
<1>5. o \in OperationDe(Emise')
  <2>1. o \in AuxDomaines(Emise') BY <1>2, <1>3 DEF Pose, AuxDomaines
  <2> QED BY <2>1, Operations
<1>6. o.quoi = "pose" /\ o.estampille = e /\ o.cle = cle /\ o.valeur = v BY DEF Pose
<1> HIDE DEF o
<1>7. /\ Ajoute(r, o) /\ Grandit(r) /\ \A q \in Racine \ {r} : MemesTables(q)
      /\ cle \in DOMAIN poses'[r] /\ poses'[r][cle].estampille = e
  <2>1. /\ o.cle \in DOMAIN poses[r] => ~Avant(o.estampille, poses[r][o.cle].estampille)
        /\ poses' = [poses EXCEPT ![r] =
             Poser(@, o.cle, [estampille |-> o.estampille, valeur |-> o.valeur])]
    BY <1>1, <1>4, <1>6
  <2>2. /\ Ajoute(r, o) /\ Grandit(r) /\ \A q \in Racine \ {r} : MemesTables(q)
        /\ o.cle \in DOMAIN poses'[r] /\ poses'[r][o.cle].estampille = o.estampille
    BY <1>1, <1>6, <2>1, PoseAjoute
  <2> QED BY <1>6, <2>2
<1>8. \A f \in FaitDe(Emise') : Porte(o, f) => Su(r, f)'
  BY <1>2, <1>6, <1>7 DEF Porte, Su, Tient
<1>9. \A f \in FaitDe(Emise') : Requiert(o, f) => Sait(r, f)
  BY <1>6 DEF Requiert, Sait, Accueille
<1>10. \A quoi, k, valeur : DitPar(o, quoi, k, valeur) => DateDite(quoi, k) \notin Emise
  BY <1>2, <1>6 DEF DitPar, DateDite
<1>11. \A a : ~DitPar(o, "adhesion", a, a) BY <1>6 DEF DitPar
<1>12. Inedite(r, o) BY <1>6, <1>8, <1>9, <1>10, <1>11 DEF Inedite
<1> QED BY <1>1, <1>5, <1>7, <1>12, GranditGarde, UneEcritureAccorde

\* With its alias, the operation of the domain comes first.
LEMMA DomaineEtAliasEcrits ==
  ASSUME IInv, IInv', Accord, NEW r \in Racine, \A q \in Racine : Tenus(q),
         NEW c, NEW ne, NEW pose, NEW d, d \notin Emise, NEW e, e \notin Emise,
         ne.quoi = "domaine", ne.de = d, ne.proprietaire = c,
         pose.quoi = "pose", pose.cle = AliasDe(d), pose.estampille = e, pose.valeur = Aucune,
         e \in Emise', ne \in OperationDe(Emise'), pose \in OperationDe(Emise'),
         JournaliserTout(r, <<ne, pose>>),
         domaines' = [domaines EXCEPT ![r] = Poser(@, d, Domaine(c, d))],
         poses' = [poses EXCEPT ![r] =
           Poser(@, AliasDe(d), [estampille |-> e, valeur |-> Aucune])],
         UNCHANGED <<comptes, tablesDesGroupes, droits>>
  PROVE  Accord'
<1> DEFINE ops == <<ne, pose>>
           k == AliasDe(d)
<1>1. DOMAIN ops = {1, 2} /\ ops[1] = ne /\ ops[2] = pose OBVIOUS
<1>2. ops \in Seq(OperationDe(Emise'))
  <2>1. PICK T : T = OperationDe(Emise') OBVIOUS
  <2>2. ne \in T /\ pose \in T BY <2>1
  <2>3. ops \in Seq(T) BY <2>2
  <2> QED BY <2>1, <2>3
<1>3. /\ comptes' = comptes /\ groupes' = groupes /\ marques' = marques
      /\ adhesions' = adhesions /\ droits' = droits
  BY DEF tablesDesGroupes
<1>4. d \notin DOMAIN domaines[r] /\ k \notin DOMAIN poses[r]
  <2>1. d \notin DOMAIN domaines[r] BY RangeesLues
  <2>2. ASSUME k \in DOMAIN poses[r] PROVE FALSE
    <3>1. k \in CleDe(Emise) BY <2>2, RangeesLues
    <3> QED BY <3>1 DEF CleDe, AliasDe
  <2> QED BY <2>1, <2>2
<1>5. k.quoi = "alias" /\ k.de = d BY DEF AliasDe
<1> HIDE DEF k
<1>6. /\ DOMAIN domaines'[r] = DOMAIN domaines[r] \cup {d}
      /\ domaines'[r][d] = Domaine(c, d)
      /\ \A x \in DOMAIN domaines[r] : domaines'[r][x] = domaines[r][x]
      /\ \A q \in Racine \ {r} : domaines'[q] = domaines[q]
  BY <1>4 DEF IInv, Racines, Poser
<1>7. /\ DOMAIN poses'[r] = DOMAIN poses[r] \cup {k}
      /\ poses'[r][k].estampille = e /\ poses'[r][k].valeur = Aucune
      /\ \A x \in DOMAIN poses[r] : poses'[r][x] = poses[r][x]
      /\ \A q \in Racine \ {r} : poses'[q] = poses[q]
  BY <1>4 DEF IInv, Racines, Poser, k
<1>8. DatesDe(r) BY DatesLues
<1>9. Grandit(r) BY <1>3, <1>6, <1>7, <1>8, OrdreTotal DEF Grandit, DatesDe, CompteVivant
<1>10. \A q \in Racine \ {r} : MemesTables(q) BY <1>3, <1>6, <1>7 DEF MemesTables
<1> HIDE DEF ops
<1>11. EcritureDite(r, ops)
  <2>1. ASSUME NEW quoi, NEW cle, NEW valeur, DitIci(r, quoi, cle, valeur)'
        PROVE  \/ DitIci(r, quoi, cle, valeur)
               \/ DitPar(ne, quoi, cle, valeur) \/ DitPar(pose, quoi, cle, valeur)
    <3>1. CASE quoi = "domaine" BY <2>1, <3>1, <1>6 DEF DitIci, DitPar, Domaine
    <3>2. CASE quoi = "pose" BY <2>1, <3>2, <1>7 DEF DitIci, DitPar, k
    <3>3. CASE quoi \notin {"domaine", "pose"} BY <2>1, <3>3, <1>3 DEF DitIci
    <3> QED BY <3>1, <3>2, <3>3
  <2>2. \A quoi, cle, valeur : DitIci(r, quoi, cle, valeur)' =>
          \/ EstDit(quoi, cle, valeur)
          \/ \E i \in DOMAIN ops : DitPar(ops[i], quoi, cle, valeur)
    BY <2>1, <1>1 DEF EstDit
  <2>3. ASSUME NEW i \in DOMAIN ops, NEW quoi, NEW cle, NEW valeur,
               DitPar(ops[i], quoi, cle, valeur)
        PROVE  DateDite(quoi, cle) \notin Emise /\ quoi # "adhesion"
    BY <2>3, <1>1 DEF DitPar, DateDite
  <2>4. ASSUME NEW i \in DOMAIN ops, NEW j \in DOMAIN ops, NEW quoi, NEW cle, NEW v, NEW w,
               DitPar(ops[i], quoi, cle, v), DitPar(ops[j], quoi, cle, w)
        PROVE  v = w
    <3>1. i = j BY <2>4, <1>1 DEF DitPar
    <3> QED BY <2>4, <3>1, DitParUn
  <2> QED BY <2>2, <2>3, <2>4 DEF EcritureDite
<1>12. EcritureJuste(r, ops)
  <2>1. ASSUME NEW i \in DOMAIN ops, NEW f \in FaitDe(Emise'), Porte(ops[i], f) PROVE Su(r, f)'
    <3>1. ~Avant(e, e) BY OrdreTotal, EmiseEstampilles
    <3>2. CASE i = 1 BY <2>1, <3>2, <1>1, <1>6 DEF Porte, Su, Tient
    <3>3. CASE i = 2 BY <2>1, <3>1, <3>3, <1>1, <1>7 DEF Porte, Su, Tient, k
    <3> QED BY <3>2, <3>3, <1>1
  <2>2. ASSUME NEW f \in FaitDe(Emise'), Sait(r, f)'
        PROVE  Sait(r, f) \/ \E i \in DOMAIN ops : Porte(ops[i], f)
    <3>1. f.quoi = "supprime" => f.date # Aucune BY EmiseEstampilles, FaitDate
    <3>2. CASE f.quoi \in {"domaine", "supprime"}
      <4>1. Sait(r, f) \/ Porte(ne, f) BY <2>2, <3>1, <3>2, <1>6 DEF Sait, Porte, Domaine
      <4> QED BY <4>1, <1>1
    <3>3. CASE f.quoi = "pose"
      <4>1. Sait(r, f) \/ Porte(pose, f) BY <2>2, <3>3, <1>7 DEF Sait, Porte, k
      <4> QED BY <4>1, <1>1
    <3>4. CASE f.quoi \notin {"domaine", "supprime", "pose"}
      BY <2>2, <3>4, <1>3 DEF Sait, CompteVivant
    <3> QED BY <3>2, <3>3, <3>4
  <2>3. ASSUME NEW i \in DOMAIN ops, NEW f \in FaitDe(Emise'), Requiert(ops[i], f)
        PROVE  Sait(r, f) \/ \E j \in DOMAIN ops : j < i /\ Porte(ops[j], f)
    <3>1. i = 2 /\ f.quoi = "domaine" /\ f.de = d BY <2>3, <1>1, <1>5 DEF Requiert, k
    <3>2. Porte(ops[1], f) BY <3>1, <1>1 DEF Porte
    <3> QED BY <3>1, <3>2, <1>1
  <2>4. \A i \in DOMAIN ops : ops[i].quoi # "droit" BY <1>1
  <2> QED BY <2>1, <2>2, <2>3, <2>4 DEF EcritureJuste
<1>13. JournaliserTout(r, ops) BY DEF ops
<1> QED BY <1>2, <1>9, <1>10, <1>11, <1>12, <1>13, GranditGarde, EcritureAccorde

LEMMA DomaineSeulEcrit ==
  ASSUME IInv, IInv', Accord, NEW r \in Racine, \A q \in Racine : Tenus(q),
         NEW c, NEW ne, NEW d, d \notin Emise,
         ne.quoi = "domaine", ne.de = d, ne.proprietaire = c,
         ne \in OperationDe(Emise'), Journaliser(r, ne),
         domaines' = [domaines EXCEPT ![r] = Poser(@, d, Domaine(c, d))],
         UNCHANGED <<comptes, poses, tablesDesGroupes, droits>>
  PROVE  Accord'
<1>1. d \notin DOMAIN domaines[r] BY RangeesLues
<1>2. /\ Ajoute(r, ne) /\ Grandit(r) /\ \A q \in Racine \ {r} : MemesTables(q)
  <2>1. /\ ne.de \notin DOMAIN domaines[r]
        /\ domaines' = [domaines EXCEPT ![r] = Poser(@, ne.de, Domaine(ne.proprietaire, d))]
    BY <1>1
  <2> QED BY <2>1, DomaineAjoute
<1>3. d \in DOMAIN domaines'[r] BY DEF IInv, Racines, Poser
<1>4. \A quoi, k, valeur : DitPar(ne, quoi, k, valeur) =>
        DateDite(quoi, k) \notin Emise /\ quoi # "adhesion"
  BY DEF DitPar, DateDite
<1>5. \A f \in FaitDe(Emise') : Porte(ne, f) => Su(r, f)' BY <1>3 DEF Porte, Su, Tient
<1>6. \A f \in FaitDe(Emise') : ~Requiert(ne, f) BY DEF Requiert
<1>7. Inedite(r, ne) BY <1>4, <1>5, <1>6 DEF Inedite
<1> QED BY <1>2, <1>7, GranditGarde, UneEcritureAccorde

LEMMA DomaineEcrit ==
  ASSUME IInv, IInv', Accord, NEW r \in Racine, \A q \in Racine : Tenus(q),
         NEW c, CreerDomaine(r, c), UNCHANGED <<tablesDesGroupes, droits>>
  PROVE  Accord'
<1> DEFINE d == Suivante(r)
           ne == [quoi |-> "domaine", estampille |-> d, de |-> d, proprietaire |-> c]
           e == Prochaine(r, 2)
           pose == Pose(AliasDe(d), Aucune, e)
<1>1. /\ CompteVivant(r, c)
      /\ domaines' = [domaines EXCEPT ![r] = Poser(@, d, Domaine(c, d))]
      /\ \/ Journaliser(r, ne) /\ UNCHANGED poses
         \/ /\ JournaliserTout(r, <<ne, pose>>)
            /\ poses' = [poses EXCEPT ![r] =
                 Poser(@, pose.cle, [estampille |-> pose.estampille, valeur |-> Aucune])]
      /\ UNCHANGED comptes
  BY DEF CreerDomaine
<1>2. c \in Connus BY <1>1, TousConnus DEF IInv, Locale
<1>3. ne.quoi = "domaine" /\ ne.de = d /\ ne.proprietaire = c OBVIOUS
<1>4. ASSUME d \in DomaineNe(Emise'), d \notin DOMAIN Depart.domaines
      PROVE  ne \in OperationDe(Emise')
  <2>1. Naissance(d) = d /\ d \in Emise' BY <1>4 DEF Naissance, DomaineNe
  <2> HIDE DEF d
  <2>2. ne \in AuxDomaines(Emise') BY <2>1, <1>2, <1>4 DEF AuxDomaines
  <2> QED BY <2>2, Operations
<1>5. CASE Journaliser(r, ne) /\ UNCHANGED poses
  <2>1. d \in DomaineNe(Emise') /\ d \notin DOMAIN Depart.domaines /\ d \notin Emise
    BY <1>5, AvanceeDUne
  <2>2. ne \in OperationDe(Emise') BY <2>1, <1>4
  <2> HIDE DEF d, ne
  <2> QED BY <1>1, <1>3, <1>5, <2>1, <2>2, DomaineSeulEcrit
<1>6. CASE /\ JournaliserTout(r, <<ne, pose>>)
           /\ poses' = [poses EXCEPT ![r] =
                Poser(@, pose.cle, [estampille |-> pose.estampille, valeur |-> Aucune])]
  <2> DEFINE ops == <<ne, pose>>
  <2>1. Len(ops) = 2 /\ Len(ops) \in Nat OBVIOUS
  <2>2. JournaliserTout(r, ops) BY <1>6
  <2>3. \A i \in 1..Len(ops) :
             /\ Prochaine(r, i) \in Emise' /\ Prochaine(r, i) \notin Emise
             /\ Prochaine(r, i) \in DomaineNe(Emise')
             /\ Prochaine(r, i) \notin DOMAIN Depart.domaines
    <3> HIDE DEF ops
    <3> QED BY <2>1, <2>2, Avancee
  <2>4. 1 \in 1..2 /\ 2 \in 1..2 /\ d = Prochaine(r, 1) BY DEF Suivante
  <2>5. /\ d \in DomaineNe(Emise') /\ d \notin DOMAIN Depart.domaines /\ d \notin Emise
        /\ e \in Emise' /\ e \notin Emise
    <3> HIDE DEF d, ops
    <3> QED BY <2>1, <2>3, <2>4
  <2>6. ne \in OperationDe(Emise') BY <2>5, <1>4
  <2>7. /\ pose.quoi = "pose" /\ pose.cle = AliasDe(d) /\ pose.estampille = e
        /\ pose.valeur = Aucune
    BY DEF Pose
  <2>8. d \in Emise' BY <2>5 DEF DomaineNe
  <2>9. pose \in OperationDe(Emise')
    <3>1. AliasDe(d) \in CleDe(Emise') /\ Aucune \in DateOuNon(Emise')
      BY <2>8 DEF AliasDe, CleDe, DateOuNon
    <3> HIDE DEF d, e
    <3>2. pose \in AuxDomaines(Emise') BY <3>1, <2>5 DEF Pose, AuxDomaines
    <3> QED BY <3>2, Operations
  <2>10. poses' = [poses EXCEPT ![r] =
           Poser(@, AliasDe(d), [estampille |-> e, valeur |-> Aucune])]
    BY <1>6, <2>7
  <2>11. JournaliserTout(r, <<ne, pose>>) BY <1>6
  <2> HIDE DEF d, ne, e, pose, ops
  <2> QED BY <1>1, <1>3, <2>5, <2>6, <2>7, <2>9, <2>10, <2>11, DomaineEtAliasEcrits
<1> QED BY <1>1, <1>5, <1>6

LEMMA EcritUnDomaine ==
  ASSUME IInv, IInv', Accord, NEW r \in Racine, \A q \in Racine : Tenus(q),
         NEW c, EcrireUnDomaine(r, c)
  PROVE  Accord'
<1>1. UNCHANGED <<tablesDesGroupes, droits>> BY DEF EcrireUnDomaine
<1>2. Aucune \in DateOuNon(Emise) BY DEF DateOuNon
<1>3. ASSUME NEW d, PoserAliasDeDomaine(r, d) PROVE Accord'
  <2>1. d \in DOMAIN domaines[r] BY <1>3 DEF PoserAliasDeDomaine, Vivant
  <2>2. AliasDe(d) \in CleDe(Emise) /\ Accueille(r, AliasDe(d))
    BY <2>1, DomaineType DEF AliasDe, CleDe, Accueille
  <2> QED BY <1>1, <1>2, <1>3, <2>2, PoseEcrite DEF PoserAliasDeDomaine
<1>4. ASSUME NEW m \in DOMAIN Machines, PoserAliasDeMachine(r, m) PROVE Accord'
  <2>1. MachineLa(r, m) BY <1>4 DEF PoserAliasDeMachine
  <2>2. NomDe(m) \in CleDe(Emise) /\ Accueille(r, NomDe(m))
    BY <2>1, MachineEmise DEF NomDe, CleDe, Accueille
  <2> QED BY <1>1, <1>2, <1>4, <2>2, PoseEcrite DEF PoserAliasDeMachine
<1>5. ASSUME NEW m \in DOMAIN Machines, NEW d, RattacherMachine(r, m, d) PROVE Accord'
  <2>1. MachineLa(r, m) BY <1>5 DEF RattacherMachine
  <2>2. LieuDe(m) \in CleDe(Emise) /\ Accueille(r, LieuDe(m))
    BY <2>1, MachineEmise DEF LieuDe, CleDe, Accueille
  <2>3. d \in DateOuNon(Emise) BY <1>5, DomaineType DEF RattacherMachine, Vivant, DateOuNon
  <2> QED BY <1>1, <1>5, <2>2, <2>3, PoseEcrite DEF RattacherMachine
<1>6. \/ ReclamerAlias(r, c) \/ CreerDomaine(r, c) \/ \E d : SupprimerDomaine(r, d)
      \/ \E d : PoserAliasDeDomaine(r, d)
      \/ \E m \in DOMAIN Machines :
           PoserAliasDeMachine(r, m) \/ \E d : RattacherMachine(r, m, d)
  BY DEF EcrireUnDomaine
<1> QED BY <1>1, <1>3, <1>4, <1>5, <1>6, AliasEcrit, DomaineEcrit, SuppressionEcrite

LEMMA GroupeEcrit ==
  ASSUME IInv, IInv', Accord, NEW r \in Racine, \A q \in Racine : Tenus(q),
         NEW d, CreerGroupe(r, d), UNCHANGED <<tablesDesDomaines, droits>>
  PROVE  Accord'
<1> DEFINE g == Suivante(r)
           o == [quoi |-> "groupe", estampille |-> g, de |-> g, domaine |-> d,
                 etiquette |-> g]
<1>1. /\ d \in DOMAIN domaines[r] /\ Journaliser(r, o)
      /\ groupes' = [groupes EXCEPT ![r] = Poser(@, g, [domaine |-> d, etiquette |-> g])]
      /\ UNCHANGED <<marques, adhesions>>
  BY DEF CreerGroupe, Vivant
<1>2. Avance /\ g \in Emise' /\ g \notin Emise /\ ~Avant(g, g) BY <1>1, SuivanteDate
<1>3. d \in Emise' BY <1>1, <1>2, DomaineType DEF Avance
<1> HIDE DEF g
<1>4. o \in OperationDe(Emise')
  <2>1. o \in AuxGroupes(Emise') BY <1>2, <1>3 DEF AuxGroupes
  <2> QED BY <2>1, Operations
<1>5. o.quoi = "groupe" /\ o.estampille = g /\ o.de = g /\ o.domaine = d /\ o.etiquette = g
  OBVIOUS
<1> HIDE DEF o
<1>6. /\ Ajoute(r, o) /\ Grandit(r) /\ \A q \in Racine \ {r} : MemesTables(q)
      /\ g \in DOMAIN groupes'[r] /\ groupes'[r][g].etiquette = g
  <2>1. g \notin DOMAIN groupes[r] BY <1>2, RangeesLues
  <2>2. /\ o.de \notin DOMAIN groupes[r]
        /\ groupes' = [groupes EXCEPT ![r] =
             Poser(@, o.de, [domaine |-> o.domaine, etiquette |-> o.etiquette])]
        /\ UNCHANGED <<tablesDesDomaines, marques, adhesions, droits>>
    BY <1>1, <1>5, <2>1
  <2>3. /\ Ajoute(r, o) /\ Grandit(r) /\ \A q \in Racine \ {r} : MemesTables(q)
        /\ o.de \in DOMAIN groupes'[r] /\ groupes'[r][o.de].etiquette = o.etiquette
    BY <1>5, <2>2, GroupeAjoute
  <2> QED BY <1>5, <2>3
<1>7. \A f \in FaitDe(Emise') : Porte(o, f) => Su(r, f)'
  BY <1>2, <1>5, <1>6 DEF Porte, Su, Tient
<1>8. \A f \in FaitDe(Emise') : Requiert(o, f) => Sait(r, f) BY <1>1, <1>5 DEF Requiert, Sait
<1>9. \A quoi, k, valeur : DitPar(o, quoi, k, valeur) =>
        DateDite(quoi, k) \notin Emise /\ quoi # "adhesion"
  BY <1>2, <1>5 DEF DitPar, DateDite
<1>10. Inedite(r, o) BY <1>5, <1>7, <1>8, <1>9 DEF Inedite
<1> QED BY <1>1, <1>4, <1>6, <1>10, GranditGarde, UneEcritureAccorde

LEMMA EtiquetteEcrite ==
  ASSUME IInv, IInv', Accord, NEW r \in Racine, \A q \in Racine : Tenus(q),
         NEW g \in GroupesLus(r), EtiqueterGroupe(r, g), UNCHANGED <<tablesDesDomaines, droits>>
  PROVE  Accord'
<1> DEFINE e == Suivante(r)
           o == [quoi |-> "etiquette", estampille |-> e, de |-> g.de]
<1>1. /\ g.sorte = "domaine" /\ PoserLEtiquette(r, g.de, e) /\ Journaliser(r, o)
      /\ UNCHANGED <<marques, adhesions>>
  BY DEF EtiqueterGroupe
<1>2. Avance /\ e \in Emise' /\ e \in Estampille BY <1>1, SuivanteDate
<1>3. g.de \in Emise' BY <1>2, GroupeType DEF Avance, GroupeDe
<1> HIDE DEF e
<1>4. o \in OperationDe(Emise')
  <2>1. o \in AuxGroupes(Emise') BY <1>2, <1>3 DEF AuxGroupes
  <2> QED BY <2>1, Operations
<1>5. o.quoi = "etiquette" /\ o.estampille = e /\ o.de = g.de OBVIOUS
<1> HIDE DEF o
<1>6. g.de \in DOMAIN groupes[r] BY <1>1, GroupeType
<1>7. /\ Ajoute(r, o) /\ Grandit(r) /\ \A q \in Racine \ {r} : MemesTables(q)
      /\ g.de \in DOMAIN groupes'[r] /\ ~Avant(groupes'[r][g.de].etiquette, e)
  <2>1. /\ PoserLEtiquette(r, o.de, e)
        /\ UNCHANGED <<tablesDesDomaines, marques, adhesions, droits>>
    BY <1>1, <1>5
  <2>2. /\ Ajoute(r, o) /\ Grandit(r) /\ \A q \in Racine \ {r} : MemesTables(q)
        /\ DOMAIN groupes'[r] = DOMAIN groupes[r]
        /\ o.de \in DOMAIN groupes[r] => ~Avant(groupes'[r][o.de].etiquette, e)
    BY <1>2, <1>5, <2>1, EtiquetteAjoute
  <2> QED BY <1>5, <1>6, <2>2
<1>8. \A f \in FaitDe(Emise') : Porte(o, f) => Su(r, f)' BY <1>5, <1>7 DEF Porte, Su, Tient
<1>9. \A f \in FaitDe(Emise') : Requiert(o, f) => Sait(r, f) BY <1>5, <1>6 DEF Requiert, Sait
<1>10. \A quoi, k, valeur : ~DitPar(o, quoi, k, valeur) BY <1>5 DEF DitPar
<1>11. Inedite(r, o) BY <1>5, <1>8, <1>9, <1>10 DEF Inedite
<1> QED BY <1>1, <1>4, <1>7, <1>11, GranditGarde, UneEcritureAccorde

\* The owner of a domain is not told by an operation about groups.
LEMMA DomaineDejaDit ==
  ASSUME IInv, NEW r \in Racine, NEW ops, JournaliserTout(r, ops),
         ops \in Seq(OperationDe(Emise')), domaines' = domaines,
         \A i \in DOMAIN ops : ops[i].quoi # "domaine", NEW d, NEW c, EstDit("domaine", d, c)'
  PROVE  EstDit("domaine", d, c)
<1>1. PICK q \in Racine :
        \/ DitIci(q, "domaine", d, c)'
        \/ \E i \in DOMAIN enRoute'[q] : DitPar(enRoute'[q][i], "domaine", d, c)
  BY DEF EstDit, DitPar, AjoutDe
<1>2. CASE DitIci(q, "domaine", d, c)'
  <2>1. DitIci(q, "domaine", d, c) BY <1>2 DEF DitIci
  <2> QED BY <2>1 DEF EstDit
<1>3. ASSUME NEW i \in DOMAIN enRoute'[q], DitPar(enRoute'[q][i], "domaine", d, c)
      PROVE  EstDit("domaine", d, c)
  <2>1. CASE q = Pair[r]
    <3>0. Jointe(enRoute'[q], enRoute[q], ops) BY <2>1, VoieAllongee
    <3>1. \/ i \in DOMAIN enRoute[q] /\ enRoute'[q][i] = enRoute[q][i]
          \/ \E j \in DOMAIN ops : enRoute'[q][i] = ops[j]
      BY <3>0 DEF Jointe
    <3>2. enRoute'[q][i].quoi = "domaine" BY <1>3 DEF DitPar
    <3> QED BY <1>3, <3>1, <3>2 DEF EstDit
  <2>2. CASE q # Pair[r]
    <3>1. enRoute'[q] = enRoute[q] BY <2>2, VoiesEcrites
    <3> QED BY <1>3, <3>1 DEF EstDit
  <2> QED BY <2>1, <2>2
<1> QED BY <1>1, <1>2, <1>3

\* The domain or the group that a group needs is there when the group is read.
LEMMA GroupeRequis ==
  ASSUME IInv, NEW r \in Racine, NEW g \in GroupesLus(r), NEW f, DuGroupe(g, f)
  PROVE  Sait(r, f)
<1>1. Rangee(r, g) BY GroupeType DEF GroupeLa
<1> QED BY <1>1 DEF DuGroupe, Sait, Rangee

LEMMA MembreEcrit ==
  ASSUME IInv, IInv', Accord, NEW r \in Racine, \A q \in Racine : Tenus(q),
         NEW g \in GroupesLus(r), NEW c, AjouterMembre(r, g, c),
         UNCHANGED <<tablesDesDomaines, droits>>
  PROVE  Accord'
<1> DEFINE e == Suivante(r)
           o == [quoi |-> "membre", estampille |-> e, groupe |-> g, compte |-> c]
           a == [groupe |-> g, compte |-> c, ajout |-> e]
<1>1. /\ CompteVivant(r, c) /\ Journaliser(r, o) /\ g.sorte # "personnel"
      /\ c \notin Membres(r, g)
      /\ adhesions' = [adhesions EXCEPT ![r] = Poser(@, a, Aucune)]
      /\ UNCHANGED <<groupes, marques>>
  BY DEF AjouterMembre
<1>2. Avance /\ e \in Emise' /\ e \notin Emise BY <1>1, SuivanteDate
<1>3. c \in Connus BY <1>1, TousConnus DEF IInv, Locale
<1>4. g \in GroupeDe(Emise') BY <1>2, GroupeType, RangeesLarges DEF Avance
<1> HIDE DEF e
<1>5. o \in OperationDe(Emise')
  <2>1. o \in AuxGroupes(Emise') BY <1>2, <1>3, <1>4 DEF AuxGroupes
  <2> QED BY <2>1, Operations
<1>6. o.quoi = "membre" /\ o.estampille = e /\ o.groupe = g /\ AjoutDe(o) = a BY DEF AjoutDe
<1>7. a.groupe = g /\ a.compte = c /\ a.ajout = e OBVIOUS
<1> HIDE DEF o, a
<1>8. /\ Ajoute(r, o) /\ Grandit(r) /\ \A q \in Racine \ {r} : MemesTables(q)
      /\ a \in DOMAIN adhesions'[r]
  <2> DEFINE v == Aucune
  <2>1. /\ AjoutMis(r, AjoutDe(o), v) /\ AjoutVu(r, o, v)
        /\ UNCHANGED <<tablesDesDomaines, groupes, marques, droits>>
        /\ o.quoi \in {"membre", "retire"}
    BY <1>1, <1>6 DEF AjoutVu, AjoutMis, IInv, Racines, Poser
  <2> HIDE DEF v
  <2>2. /\ Ajoute(r, o) /\ Grandit(r) /\ \A q \in Racine \ {r} : MemesTables(q)
        /\ AjoutDe(o) \in DOMAIN adhesions'[r] /\ adhesions'[r][AjoutDe(o)] = v
    BY <2>1, AdhesionAjoute
  <2> QED BY <1>6, <2>2
<1>9. \A f \in FaitDe(Emise') : Porte(o, f) => Su(r, f)'
  BY <1>6, <1>8 DEF Porte, Su, Tient
<1>10. \A f \in FaitDe(Emise') : Requiert(o, f) => Sait(r, f)
  BY <1>6, GroupeRequis DEF Requiert
<1>11. \A quoi, k, valeur : DitPar(o, quoi, k, valeur) => DateDite(quoi, k) \notin Emise
  BY <1>2, <1>6, <1>7 DEF DitPar, DateDite
<1>12. \A x : DitPar(o, "adhesion", x, x) => x = a BY <1>6 DEF DitPar
<1>13. ASSUME g.sorte = "administrateurs", EstDit("domaine", g.de, c)' PROVE FALSE
  <2>1. PICK ops : ops = <<o>> OBVIOUS
  <2>2. ops \in Seq(OperationDe(Emise'))
    <3>1. PICK T : T = OperationDe(Emise') OBVIOUS
    <3>2. o \in T BY <1>5, <3>1
    <3>3. ops \in Seq(T) BY <2>1, <3>2
    <3> QED BY <3>1, <3>3
  <2>3. \A i \in DOMAIN ops : ops[i].quoi # "domaine" BY <1>6, <2>1
  <2>4. JournaliserTout(r, ops) BY <1>1, <2>1 DEF Journaliser
  <2>5. domaines' = domaines BY DEF tablesDesDomaines
  <2>6. EstDit("domaine", g.de, c) BY <1>13, <2>2, <2>3, <2>4, <2>5, DomaineDejaDit
  <2>7. g.de \in DOMAIN domaines[r] BY <1>13, GroupeType DEF GroupeLa, Rangee
  <2>8. EstDit("domaine", g.de, domaines[r][g.de].proprietaire)
    BY <2>7 DEF EstDit, DitIci
  <2>9. c = domaines[r][g.de].proprietaire BY <2>6, <2>8 DEF Accord, DitUneFois
  <2> QED BY <1>1, <1>13, <2>7, <2>9 DEF Membres, DOffice
<1>14. Inedite(r, o) BY <1>1, <1>6, <1>7, <1>9, <1>10, <1>11, <1>12, <1>13 DEF Inedite
<1> QED BY <1>1, <1>5, <1>8, <1>14, GranditGarde, UneEcritureAccorde

\* The sequence of a set has each of its elements once.
LEMMA SuiteSansDouble ==
  ASSUME NEW S, IsFiniteSet(S)
  PROVE  \A i, j \in DOMAIN SetToSeq(S) : SetToSeq(S)[i] = SetToSeq(S)[j] => i = j
<1>1. ExistsBijection(1..Cardinality(S), S) BY FS_CardinalityType
<1>2. PICK f \in Bijection(1..Cardinality(S), S) : TRUE
  BY <1>1 DEF ExistsBijection
<1>3. f \in [1..Cardinality(S) -> S] /\ IsInjective(f)
  BY <1>2 DEF Bijection, Injection, IsInjective
<1>4. IsInjective(SetToSeq(S)) BY <1>3 DEF SetToSeq
<1> QED BY <1>4 DEF IsInjective

\* Each addition that is there is removed under the stamp of an operation of its own.
RetraitsMis(r, A, g, c, ops) ==
  /\ DOMAIN adhesions'[r] = DOMAIN adhesions[r] /\ A \subseteq DOMAIN adhesions[r]
  /\ \A a \in DOMAIN adhesions[r] \ A : adhesions'[r][a] = adhesions[r][a]
  /\ \A q \in Racine \ {r} : adhesions'[q] = adhesions[q]
  /\ \A i \in DOMAIN ops :
       /\ ops[i].quoi = "retire" /\ ops[i].groupe = g /\ AjoutDe(ops[i]) \in A
       /\ adhesions'[r][AjoutDe(ops[i])] = ops[i].estampille
  /\ \A a \in A : \E i \in DOMAIN ops :
       a = AjoutDe(ops[i]) /\ adhesions'[r][a] = ops[i].estampille

LEMMA RetraitsEcrits ==
  ASSUME IInv, IInv', Accord, NEW r \in Racine, \A q \in Racine : Tenus(q),
         NEW g \in GroupesLus(r), NEW c, NEW A, NEW ops, RetraitsMis(r, A, g, c, ops),
         JournaliserTout(r, ops), ops \in Seq(OperationDe(Emise')),
         UNCHANGED <<tablesDesDomaines, groupes, marques, droits>>
  PROVE  Accord'
<1>1. /\ comptes' = comptes /\ domaines' = domaines /\ poses' = poses /\ marques' = marques
      /\ groupes' = groupes /\ droits' = droits
  BY DEF tablesDesDomaines
<1>2. /\ DOMAIN adhesions'[r] = DOMAIN adhesions[r] /\ A \subseteq DOMAIN adhesions[r]
      /\ \A a \in DOMAIN adhesions[r] \ A : adhesions'[r][a] = adhesions[r][a]
      /\ \A q \in Racine \ {r} : adhesions'[q] = adhesions[q]
  BY DEF RetraitsMis
<1>3. \A i \in DOMAIN ops :
        /\ ops[i].quoi = "retire" /\ ops[i].groupe = g /\ AjoutDe(ops[i]) \in A
        /\ adhesions'[r][AjoutDe(ops[i])] = ops[i].estampille
  BY DEF RetraitsMis
<1>4. \A a \in A : \E i \in DOMAIN ops :
        a = AjoutDe(ops[i]) /\ adhesions'[r][a] = ops[i].estampille
  BY DEF RetraitsMis
<1>5. DatesDe(r) BY DatesLues
<1>6. Grandit(r) BY <1>1, <1>2, <1>5, OrdreTotal DEF Grandit, DatesDe, CompteVivant
<1>7. \A q \in Racine \ {r} : MemesTables(q) BY <1>1, <1>2 DEF MemesTables
<1>8. EcritureDite(r, ops)
  <2>1. \A quoi, cle, valeur : DitIci(r, quoi, cle, valeur)' => DitIci(r, quoi, cle, valeur)
    BY <1>1, <1>2 DEF DitIci
  <2>2. ASSUME NEW i \in DOMAIN ops, NEW quoi, NEW cle, NEW valeur,
               DitPar(ops[i], quoi, cle, valeur)
        PROVE  quoi = "adhesion" /\ valeur = cle /\ EstDit(quoi, cle, valeur)
    <3>1. quoi = "adhesion" /\ cle = AjoutDe(ops[i]) /\ valeur = cle BY <2>2, <1>3 DEF DitPar
    <3>2. DitIci(r, quoi, cle, valeur) BY <3>1, <1>2, <1>3 DEF DitIci
    <3> QED BY <3>1, <3>2 DEF EstDit
  <2>3. \A quoi, cle, valeur : DitIci(r, quoi, cle, valeur)' => EstDit(quoi, cle, valeur)
    BY <2>1 DEF EstDit
  <2>4. \A i \in DOMAIN ops : \A quoi, cle, valeur : DitPar(ops[i], quoi, cle, valeur) =>
          EstDit(quoi, cle, valeur)
    BY <2>2
  <2>5. \A i, j \in DOMAIN ops : \A quoi, cle, v, w :
          DitPar(ops[i], quoi, cle, v) /\ DitPar(ops[j], quoi, cle, w) => v = w
    BY <2>2
  <2>6. \A i \in DOMAIN ops : \A a : DitPar(ops[i], "adhesion", a, a) =>
          EstDit("adhesion", a, a)
    BY <2>2
  <2> QED BY <2>3, <2>4, <2>5, <2>6 DEF EcritureDite
<1>9. EcritureJuste(r, ops)
  <2>1. ASSUME NEW i \in DOMAIN ops, NEW f \in FaitDe(Emise'), Porte(ops[i], f) PROVE Su(r, f)'
    <3>1. AjoutDe(ops[i]) \in DOMAIN adhesions'[r] BY <1>2, <1>3
    <3>2. CASE f.quoi = "membre" BY <2>1, <3>1, <3>2 DEF Porte, Su, Tient
    <3>3. CASE f.quoi = "retire"
      <4>1. f.de = AjoutDe(ops[i]) /\ f.date = ops[i].estampille BY <2>1, <3>3, <1>3 DEF Porte
      <4>2. f.date \in Estampille /\ f.date # Aucune
        BY <3>3, FaitLu, EmiseEstampilles, PasDEstampille
      <4>3. Marquee(f.date, f.date) BY <4>2, OrdreTotal DEF Marquee
      <4> QED BY <3>1, <3>3, <4>1, <4>3, <1>3 DEF Su, Tient
    <3> QED BY <2>1, <3>2, <3>3, <1>3 DEF Porte
  <2>2. ASSUME NEW f \in FaitDe(Emise'), Sait(r, f)'
        PROVE  Sait(r, f) \/ \E i \in DOMAIN ops : Porte(ops[i], f)
    <3>1. CASE f.quoi = "membre" BY <2>2, <3>1, <1>2 DEF Sait
    <3>2. CASE f.quoi = "retire"
      <4>1. f.de \in DOMAIN adhesions[r] /\ adhesions'[r][f.de] = f.date
        BY <2>2, <3>2, <1>2 DEF Sait
      <4>2. CASE f.de \in A
        <5>1. PICK i \in DOMAIN ops : f.de = AjoutDe(ops[i]) /\ f.date = ops[i].estampille
          BY <1>4, <4>1, <4>2
        <5> QED BY <1>3, <3>2, <5>1 DEF Porte
      <4>3. CASE f.de \notin A BY <3>2, <4>1, <4>3, <1>2 DEF Sait
      <4> QED BY <4>2, <4>3
    <3>3. CASE f.quoi \notin {"membre", "retire"} BY <2>2, <3>3, <1>1 DEF Sait, CompteVivant
    <3> QED BY <3>1, <3>2, <3>3
  <2>3. ASSUME NEW i \in DOMAIN ops, NEW f \in FaitDe(Emise'), Requiert(ops[i], f)
        PROVE  Sait(r, f)
    <3>1. DuGroupe(g, f) BY <2>3, <1>3 DEF Requiert
    <3> QED BY <3>1, GroupeRequis
  <2>4. \A i \in DOMAIN ops : ops[i].quoi # "droit" BY <1>3
  <2> QED BY <2>1, <2>2, <2>3, <2>4 DEF EcritureJuste
<1> QED BY <1>6, <1>7, <1>8, <1>9, GranditGarde, EcritureAccorde

LEMMA RetraitEcrit ==
  ASSUME IInv, IInv', Accord, NEW r \in Racine, \A q \in Racine : Tenus(q),
         NEW g \in GroupesLus(r), NEW c \in Connus, RetirerMembre(r, g, c),
         UNCHANGED <<tablesDesDomaines, droits>>
  PROVE  Accord'
<1> DEFINE A == Ajouts(r, g, c)
           siens == SetToSeq(A)
           ops == [i \in DOMAIN siens |->
                    [quoi |-> "retire", estampille |-> Prochaine(r, i), groupe |-> g,
                     compte |-> c, ajout |-> siens[i].ajout]]
           t == [a \in DOMAIN adhesions[r] |->
                   IF a \notin A THEN adhesions[r][a]
                   ELSE Prochaine(r, CHOOSE i \in DOMAIN siens : siens[i] = a)]
<1>1. /\ JournaliserTout(r, ops) /\ adhesions' = [adhesions EXCEPT ![r] = t]
      /\ UNCHANGED <<groupes, marques>>
  BY DEF RetirerMembre
<1>2. /\ AdhesionsJustes(r) /\ A \subseteq DOMAIN adhesions[r]
      /\ \A a \in A : a \in AdhesionDe(Emise) /\ a.groupe = g /\ a.compte = c
  BY DEF IInv, Locale, AdhesionsJustes, TableDe, Ajouts
<1>3. IsFiniteSet(A) BY <1>2, FS_Subset DEF AdhesionsJustes, TableDe
<1> HIDE DEF A
<1>4. siens \in Seq(A) /\ \A a \in A : \E i \in DOMAIN siens : siens[i] = a BY <1>3, SuiteDe
<1>5. \A i, j \in DOMAIN siens : siens[i] = siens[j] => i = j BY <1>3, SuiteSansDouble
<1>6. /\ DOMAIN siens = 1..Len(siens) /\ Len(siens) \in Nat
      /\ \A i \in DOMAIN siens : siens[i] \in A
  <2> HIDE DEF siens
  <2> QED BY <1>4
<1>7. Len(ops) = Len(siens) /\ DOMAIN ops = DOMAIN siens BY <1>6
<1>8. \A i \in DOMAIN ops :
        /\ ops[i].quoi = "retire" /\ ops[i].estampille = Prochaine(r, i)
        /\ ops[i].groupe = g /\ ops[i].compte = c /\ ops[i].ajout = siens[i].ajout
        /\ ops[i] \in [quoi : {"retire"}, estampille : {Prochaine(r, i)}, groupe : {g},
                       compte : {c}, ajout : {siens[i].ajout}]
  OBVIOUS
<1>9. \A a \in A : /\ a \in DOMAIN adhesions[r]
                   /\ t[a] = Prochaine(r, CHOOSE i \in DOMAIN siens : siens[i] = a)
  BY <1>2
<1>10. \A i \in DOMAIN siens : (CHOOSE j \in DOMAIN siens : siens[j] = siens[i]) = i BY <1>5
<1>11. \A i \in DOMAIN siens : t[siens[i]] = Prochaine(r, i) BY <1>6, <1>9, <1>10
<1>12. /\ DOMAIN t = DOMAIN adhesions[r]
       /\ \A a \in DOMAIN adhesions[r] \ A : t[a] = adhesions[r][a]
  OBVIOUS
<1> HIDE DEF ops, siens, t
<1>13. /\ Avance /\ \A i \in 1..Len(siens) : Prochaine(r, i) \in Emise' BY <1>1, <1>6, <1>7, Avancee
<1>14. ops \in Seq(OperationDe(Emise'))
  <2>1. g \in GroupeDe(Emise') BY <1>13, GroupeType, RangeesLarges DEF Avance
  <2>2. ASSUME NEW i \in DOMAIN ops PROVE ops[i] \in OperationDe(Emise')
    <3>1. Prochaine(r, i) \in Emise' BY <1>6, <1>7, <1>13
    <3>2. siens[i].ajout \in Emise'
      <4>1. siens[i] \in AdhesionDe(Emise) BY <1>2, <1>6, <1>7
      <4>2. siens[i].ajout \in Emise BY <4>1 DEF AdhesionDe
      <4> QED BY <4>2, <1>13 DEF Avance
    <3>3. ops[i] \in [quoi : {"retire"}, estampille : Emise', groupe : GroupeDe(Emise'),
                      compte : Connus, ajout : Emise']
      BY <1>8, <2>1, <3>1, <3>2
    <3>4. ops[i] \in AuxGroupes(Emise') BY <3>3 DEF AuxGroupes
    <3> QED BY <3>4, Operations
  <2>3. PICK T : T = OperationDe(Emise') OBVIOUS
  <2>4. \A i \in DOMAIN ops : ops[i] \in T BY <2>2, <2>3
  <2>5. ops = [i \in 1..Len(siens) |-> ops[i]] BY <1>6, <1>7 DEF ops
  <2>6. ops \in Seq(T) BY <1>6, <1>7, <2>4, <2>5
  <2> QED BY <2>3, <2>6
<1>15. \A i \in DOMAIN ops : AjoutDe(ops[i]) = siens[i]
  <2> SUFFICES ASSUME NEW i \in DOMAIN ops PROVE AjoutDe(ops[i]) = siens[i] OBVIOUS
  <2>1. /\ siens[i] \in AdhesionDe(Emise) /\ siens[i].groupe = g /\ siens[i].compte = c
    BY <1>2, <1>6, <1>7
  <2> QED BY <1>8, <2>1 DEF AjoutDe, AdhesionDe
<1>16. RetraitsMis(r, A, g, c, ops)
  <2>1. adhesions'[r] = t /\ \A q \in Racine \ {r} : adhesions'[q] = adhesions[q]
    BY <1>1 DEF IInv, Racines
  <2>2. \A i \in DOMAIN ops : /\ AjoutDe(ops[i]) \in A
                              /\ t[AjoutDe(ops[i])] = ops[i].estampille
    BY <1>6, <1>7, <1>8, <1>11, <1>15
  <2>3. \A a \in A : \E i \in DOMAIN ops : a = AjoutDe(ops[i]) /\ t[a] = ops[i].estampille
    BY <1>4, <1>7, <1>8, <1>11, <1>15
  <2> QED BY <1>2, <1>8, <1>12, <2>1, <2>2, <2>3 DEF RetraitsMis
<1>17. UNCHANGED <<tablesDesDomaines, groupes, marques, droits>> BY <1>1
<1> QED BY <1>1, <1>14, <1>16, <1>17, RetraitsEcrits

LEMMA EcritUnGroupe ==
  ASSUME IInv, IInv', Accord, NEW r \in Racine, \A q \in Racine : Tenus(q),
         NEW c, EcrireUnGroupe(r, c)
  PROVE  Accord'
<1>1. UNCHANGED <<tablesDesDomaines, droits>> BY DEF EcrireUnGroupe
<1>2. DOMAIN comptes[r] = Connus BY TousConnus DEF IInv, Locale
<1>3. \/ \E d : CreerGroupe(r, d)
      \/ \E g \in GroupesLus(r) : EtiqueterGroupe(r, g)
      \/ \E g \in GroupesLus(r) : \E x : AjouterMembre(r, g, x)
      \/ \E g \in GroupesLus(r) : \E x \in Connus : RetirerMembre(r, g, x)
  BY <1>2 DEF EcrireUnGroupe
<1> QED BY <1>1, <1>3, GroupeEcrit, EtiquetteEcrite, MembreEcrit, RetraitEcrit

LEMMA GroupeDissousEcrit ==
  ASSUME IInv, IInv', Accord, NEW r \in Racine, \A q \in Racine : Tenus(q),
         NEW c, SupprimerUnGroupe(r, c)
  PROVE  Accord'
<1>1. PICK g \in GroupesLus(r) :
        /\ g.sorte = "domaine" /\ SupprimerGroupe(r, g)
        /\ OublierLesDroits(r, DroitsDuGroupe(r, g))
  BY DEF SupprimerUnGroupe
<1> DEFINE e == Suivante(r)
           o == [quoi |-> "dissous", estampille |-> e, de |-> g.de]
<1>2. Marquer(r, g.de, e) /\ Journaliser(r, o) /\ UNCHANGED tablesDesDomaines
  BY <1>1 DEF SupprimerGroupe, SupprimerUnGroupe
<1>3. Avance /\ e \in Emise' BY <1>2, SuivanteDate
<1>4. g.de \in Emise' BY <1>3, GroupeType DEF Avance, GroupeDe
<1>5. g = DuDomaine(g.de) BY <1>1, GroupeType
<1> HIDE DEF e
<1>6. o \in OperationDe(Emise')
  <2>1. o \in AuxGroupes(Emise') BY <1>3, <1>4 DEF AuxGroupes
  <2> QED BY <2>1, Operations
<1>7. o.quoi = "dissous" /\ o.estampille = e /\ o.de = g.de OBVIOUS
<1> HIDE DEF o
<1>8. OublierLesDroits(r, DroitsDuGroupe(r, DuDomaine(g.de))) BY <1>1, <1>5
<1>9. PICK d : d = g.de OBVIOUS
<1>10. /\ Marquer(r, d, e) /\ OublierLesDroits(r, DroitsDuGroupe(r, DuDomaine(d)))
       /\ Marquer(r, o.de, e) /\ OublierLesDroits(r, DroitsDuGroupe(r, DuDomaine(o.de)))
       /\ o.de = d
  BY <1>2, <1>7, <1>8, <1>9
<1>11. /\ Ajoute(r, o) /\ \A q \in Racine \ {r} : MemesTables(q)
       /\ o.de \in DOMAIN marques'[r]
  BY <1>2, <1>7, <1>10, DissolutionAjoute
<1>12. DitsRestent => Garde(r) BY <1>2, <1>10, DissolutionGarde DEF Accord
<1>13. \A f \in FaitDe(Emise') : Porte(o, f) => Su(r, f)'
  BY <1>7, <1>11 DEF Porte, Su, Tient
<1>14. /\ \A f \in FaitDe(Emise') : Requiert(o, f) => Sait(r, f)
       /\ \A quoi, k, valeur : ~DitPar(o, quoi, k, valeur)
  BY <1>7 DEF Requiert, DitPar
<1>15. Inedite(r, o) BY <1>7, <1>13, <1>14 DEF Inedite
<1> QED BY <1>2, <1>6, <1>11, <1>12, <1>15, UneEcritureAccorde

LEMMA DroitEcrit ==
  ASSUME IInv, IInv', Accord, NEW r \in Racine, \A q \in Racine : Tenus(q),
         NEW c, CompteVivant(r, c), AccorderDroit(r, c)
  PROVE  Accord'
<1>1. PICK element \in Elements(r), g \in GroupesLus(r), nom \in Donnables :
        LET droit == [par |-> c, groupe |-> g, element |-> element, droit |-> nom,
                      retire |-> Aucune]
        IN
        /\ PeutEntrer(r, droit)
        /\ droits' = [droits EXCEPT ![r] = Poser(@, Suivante(r), droit)]
        /\ Journaliser(r, [quoi |-> "droit", estampille |-> Suivante(r),
                           enregistrement |-> droit])
        /\ UNCHANGED <<tablesDesDomaines, tablesDesGroupes>>
  BY DEF AccorderDroit
<1> DEFINE e == Suivante(r)
           droit == [par |-> c, groupe |-> g, element |-> element, droit |-> nom,
                     retire |-> Aucune]
           o == [quoi |-> "droit", estampille |-> e, enregistrement |-> droit]
<1>2. /\ droits' = [droits EXCEPT ![r] = Poser(@, e, droit)] /\ Journaliser(r, o)
      /\ UNCHANGED <<tablesDesDomaines, tablesDesGroupes>>
  BY <1>1
<1>3. Avance /\ e \in Emise' /\ e \notin Emise BY <1>2, SuivanteDate
<1>4. c \in Connus /\ nom \in NomsDeDroits /\ g \in GroupeDe(Emise) /\ GroupeLa(r, g)
      /\ element \in ElementDe(Emise)
  BY TousConnus, GroupeType, ElementType, DepartJuste DEF IInv, Locale
<1>5. /\ droit \in DroitDe(Emise') /\ droit.groupe = g /\ droit.element = element
      /\ droit.retire = Aucune
  <2>1. GroupeDe(Emise) \subseteq GroupeDe(Emise') /\ ElementDe(Emise) \subseteq ElementDe(Emise')
    BY <1>3, RangeesLarges DEF Avance
  <2>2. Aucune \in DateOuNon(Emise') BY DEF DateOuNon
  <2> QED BY <1>4, <2>1, <2>2 DEF DroitDe
<1> HIDE DEF e, droit
<1>6. o \in OperationDe(Emise')
  <2>1. o \in AuxDroits(Emise') BY <1>3, <1>5 DEF AuxDroits
  <2> QED BY <2>1, Operations
<1>7. o.quoi = "droit" /\ o.estampille = e /\ o.enregistrement = droit OBVIOUS
<1> HIDE DEF o
<1>8. /\ Ajoute(r, o) /\ Grandit(r) /\ \A q \in Racine \ {r} : MemesTables(q)
      /\ e \in DOMAIN droits'[r]
  <2>1. /\ o.estampille \notin DOMAIN droits[r]
        /\ amorcages = 0 => o.enregistrement.retire = Aucune
        /\ droits' = [droits EXCEPT ![r] = Poser(@, o.estampille, o.enregistrement)]
        /\ UNCHANGED <<tablesDesDomaines, tablesDesGroupes>>
    BY <1>2, <1>3, <1>5, <1>7, RangeesLues
  <2>2. /\ AjouteSauf(r, o) /\ Grandit(r) /\ \A q \in Racine \ {r} : MemesTables(q)
        /\ o.enregistrement.retire = Aucune => Ajoute(r, o)
        /\ o.estampille \in DOMAIN droits'[r]
    BY <1>7, <2>1, DroitAjoute
  <2> QED BY <1>5, <1>7, <2>2
<1>9. \A f \in FaitDe(Emise') : Porte(o, f) => Su(r, f)'
  BY <1>7, <1>8 DEF Porte, Su, Tient
<1>10. ASSUME NEW f \in FaitDe(Emise'), Requiert(o, f) PROVE Sait(r, f)
  <2>1. CASE DuGroupe(g, f) BY <2>1, GroupeRequis
  <2>2. CASE element.sorte = "domaine" /\ f.quoi = "domaine" /\ f.de = element.de
    <3>1. element.de \in DOMAIN domaines[r] BY <2>2 DEF Elements, LeDomaine, LaMachine, LeCompte
    <3> QED BY <2>2, <3>1 DEF Sait
  <2> QED BY <1>5, <1>7, <1>10, <2>1, <2>2 DEF Requiert
<1>11. \A quoi, k, valeur : DitPar(o, quoi, k, valeur) =>
         DateDite(quoi, k) \notin Emise /\ quoi # "adhesion"
  BY <1>3, <1>7 DEF DitPar, DateDite
<1>12. Inedite(r, o) BY <1>5, <1>7, <1>9, <1>10, <1>11 DEF Inedite
<1> QED BY <1>2, <1>6, <1>8, <1>12, GranditGarde, UneEcritureAccorde

LEMMA DroitRetireEcrit ==
  ASSUME IInv, IInv', Accord, NEW r \in Racine, \A q \in Racine : Tenus(q),
         NEW c, RetirerDroit(r, c)
  PROVE  Accord'
<1> DEFINE e == Suivante(r)
<1>1. PICK d \in DOMAIN droits[r] :
        /\ droits' = [droits EXCEPT ![r][d].retire = e]
        /\ Journaliser(r, [quoi |-> "droitRetire", estampille |-> e, droit |-> d])
        /\ UNCHANGED <<tablesDesDomaines, tablesDesGroupes>>
  BY DEF RetirerDroit
<1> DEFINE o == [quoi |-> "droitRetire", estampille |-> e, droit |-> d]
<1>2. Journaliser(r, o) BY <1>1
<1>3. Avance /\ e \in Emise' /\ Marquee(e, e) BY <1>2, SuivanteDate
<1>4. d \in Emise' BY <1>3, RangeesLues DEF Avance
<1> HIDE DEF e
<1>5. o \in OperationDe(Emise')
  <2>1. o \in AuxDroits(Emise') BY <1>3, <1>4 DEF AuxDroits
  <2> QED BY <2>1, Operations
<1>6. o.quoi = "droitRetire" /\ o.estampille = e /\ o.droit = d OBVIOUS
<1> HIDE DEF o
<1>7. /\ Ajoute(r, o) /\ Grandit(r) /\ \A q \in Racine \ {r} : MemesTables(q)
      /\ d \in DOMAIN droits'[r] /\ droits'[r][d].retire = e
  <2>1. /\ e = o.estampille \/ e = droits[r][d].retire
        /\ UNCHANGED <<tablesDesDomaines, tablesDesGroupes>>
    BY <1>1, <1>6
  <2>2. DroitMarque(r, d, e) BY <1>1, DroitEstMarque
  <2> QED BY <1>6, <2>1, <2>2, DroitRetireAjoute
<1>8. \A f \in FaitDe(Emise') : Porte(o, f) => Su(r, f)'
  BY <1>3, <1>6, <1>7 DEF Porte, Su, Tient
<1>9. \A f \in FaitDe(Emise') : Requiert(o, f) => Sait(r, f) BY <1>6 DEF Requiert, Sait
<1>10. \A quoi, k, valeur : ~DitPar(o, quoi, k, valeur) BY <1>6 DEF DitPar
<1>11. Inedite(r, o) BY <1>6, <1>8, <1>9, <1>10 DEF Inedite
<1> QED BY <1>2, <1>5, <1>7, <1>11, GranditGarde, UneEcritureAccorde

LEMMA CompteEffaceEcrit ==
  ASSUME IInv, IInv', Accord, NEW r \in Racine, \A q \in Racine : Tenus(q),
         NEW c \in Connus, EffacerCompte(r, c)
  PROVE  Accord'
<1> DEFINE e == Suivante(r)
           o == [quoi |-> "efface", estampille |-> e, compte |-> c]
<1>1. EffacerDans(r, c) /\ Journaliser(r, o) BY DEF EffacerCompte
<1>2. Avance /\ e \in Emise' BY <1>1, SuivanteDate
<1> HIDE DEF e
<1>3. o \in OperationDe(Emise')
  <2>1. o \in AuxDomaines(Emise') BY <1>2 DEF AuxDomaines, DateOuNon
  <2> QED BY <2>1, Operations
<1>4. o.quoi = "efface" /\ o.estampille = e /\ o.compte = c OBVIOUS
<1> HIDE DEF o
<1>5. /\ Ajoute(r, o) /\ \A q \in Racine \ {r} : MemesTables(q)
      /\ ~CompteVivant(r, c)'
  <2>1. PICK x : x = o OBVIOUS
  <2>2. x.quoi = "efface" /\ x.compte = c BY <1>4, <2>1
  <2>3. x.compte \in Connus /\ EffacerDans(r, x.compte) BY <1>1, <2>2
  <2>4. /\ Ajoute(r, x) /\ \A q \in Racine \ {r} : MemesTables(q)
        /\ ~CompteVivant(r, x.compte)'
    BY <2>2, <2>3, EffacementAjoute
  <2> QED BY <2>1, <2>2, <2>4
<1>6. DitsRestent => Garde(r) BY <1>1, EffacementGarde DEF Accord
<1>7. ASSUME NEW f \in FaitDe(Emise'), Porte(o, f) PROVE Su(r, f)'
  <2>1. f.quoi = "efface" /\ f.de = c BY <1>4, <1>7 DEF Porte
  <2>2. ~CompteVivant(r, f.de)' BY <1>5, <2>1
  <2> QED BY <2>1, <2>2 DEF Su, Tient
<1>8. /\ \A f \in FaitDe(Emise') : Requiert(o, f) => Sait(r, f)
      /\ \A quoi, k, valeur : ~DitPar(o, quoi, k, valeur)
  BY <1>4 DEF Requiert, DitPar
<1>9. Inedite(r, o) BY <1>4, <1>7, <1>8 DEF Inedite
<1> QED BY <1>1, <1>3, <1>5, <1>6, <1>9, UneEcritureAccorde

LEMMA DemandeAccorde ==
  ASSUME IInv, IInv', Accord, NEW r \in Racine, \A q \in Racine : Tenus(q),
         NEW c, Demander(r, c)
  PROVE  Accord'
<1>1. CompteVivant(r, c) BY DEF Demander
<1>2. c \in Connus BY <1>1, TousConnus DEF IInv, Locale
<1> QED BY <1>1, <1>2, EcritUnDomaine, EcritUnGroupe, GroupeDissousEcrit, DroitEcrit,
           DroitRetireEcrit, CompteEffaceEcrit DEF Demander

-----------------------------------------------------------------------------
(* Each operation received.                                                *)

\* The operation is the first one on its way.
Lit(r, operation) ==
  Retirer(r) /\ operation = Head(enRoute[r]) /\ \A q \in Racine : Tenus(q)

LEMMA OperationLue ==
  ASSUME IInv, Accord, NEW r \in Racine, NEW operation, Lit(r, operation)
  PROVE  /\ operation \in OperationDe(Emise)
         /\ \A f \in FaitDe(Emise) : Requiert(operation, f) => Su(r, f)
         /\ \A quoi, cle, v, w :
              DitPar(operation, quoi, cle, v) /\ EstDit(quoi, cle, w) => v = w
         /\ \A quoi, cle, v : DitPar(operation, quoi, cle, v) => EstDit(quoi, cle, v)
         /\ amorcages = 0 /\ operation.quoi = "droit" =>
              operation.enregistrement.retire = Aucune
<1>1. Retirer(r) /\ operation = Head(enRoute[r]) BY DEF Lit
<1>2. /\ operation \in OperationDe(Emise)
      /\ \A f \in FaitDe(Emise) : Requiert(operation, f) => Su(r, f)
      /\ \A quoi, cle, v : DitPar(operation, quoi, cle, v) => EstDit(quoi, cle, v)
      /\ amorcages = 0 /\ operation.quoi = "droit" => operation.enregistrement.retire = Aucune
  BY <1>1, TeteRequiert
<1>3. \A quoi, cle, v, w : DitPar(operation, quoi, cle, v) /\ EstDit(quoi, cle, w) => v = w
  BY <1>2 DEF Accord, DitUneFois
<1> QED BY <1>2, <1>3

\* What is new in the tables is what the operation says.
LEMMA LueAccorde ==
  ASSUME IInv, IInv', Accord, NEW r \in Racine, NEW operation, Lit(r, operation),
         \A q \in Racine \ {r} : MemesTables(q), AjouteSauf(r, operation),
         DitsRestent => Garde(r),
         \A f \in FaitDe(Emise) : Porte(operation, f) => Su(r, f) \/ Su(r, f)'
  PROVE  Accord'
<1>1. Retirer(r) /\ operation = Head(enRoute[r]) /\ \A q \in Racine : Tenus(q) BY DEF Lit
<1>2. \A quoi, cle, valeur : DitIci(r, quoi, cle, valeur)' => EstDit(quoi, cle, valeur)
  <2> SUFFICES ASSUME NEW quoi, NEW cle, NEW valeur, DitIci(r, quoi, cle, valeur)'
               PROVE  EstDit(quoi, cle, valeur)
    OBVIOUS
  <2>1. DitIci(r, quoi, cle, valeur) \/ DitPar(operation, quoi, cle, valeur)
    BY DEF AjouteSauf
  <2> QED BY <2>1, OperationLue DEF EstDit
<1>3. DitsRestent BY <1>1, <1>2, RienDeNouveau DEF DitsRestent
<1>4. \A f \in FaitDe(Emise) : Porte(operation, f) => Su(r, f)' BY <1>3 DEF Garde
<1>5. /\ AjouteSauf(r, Head(enRoute[r]))
      /\ \A f \in FaitDe(Emise) : Porte(Head(enRoute[r]), f) => Su(r, f)'
  BY <1>1, <1>4
<1> QED BY <1>1, <1>5, UneReceptionAccorde

LEMMA RefuseeAccorde ==
  ASSUME IInv, IInv', Accord, NEW r \in Racine, NEW operation, Lit(r, operation),
         \A q \in Racine : MemesTables(q),
         \A f \in FaitDe(Emise) : Porte(operation, f) => Su(r, f)
  PROVE  Accord'
<1>1. AjouteSauf(r, operation) BY MemesTablesDisent, MemesTablesSavent DEF AjouteSauf
<1>2. DitsRestent => Garde(r) BY MemesTablesGardent DEF Lit
<1> QED BY <1>1, <1>2, LueAccorde

LEMMA PriseAccorde ==
  ASSUME IInv, IInv', Accord, NEW r \in Racine, NEW operation, Lit(r, operation),
         \A q \in Racine \ {r} : MemesTables(q), AjouteSauf(r, operation), Grandit(r),
         \A f \in FaitDe(Emise) : Porte(operation, f) => Su(r, f) \/ Tient(r, f)'
  PROVE  Accord'
<1>1. DitsRestent => Garde(r) BY GranditGarde DEF Lit
<1> QED BY <1>1, LueAccorde DEF Su

LEMMA RienDeChange ==
  UNCHANGED tables => \A q \in Racine : MemesTables(q)
BY DEF tables, tablesDesDomaines, tablesDesGroupes, MemesTables

\* A domain that is needed is there, or closed.
LEMMA DomaineRequis ==
  ASSUME NEW r \in Racine, NEW d \in Emise,
         \A f \in FaitDe(Emise) : f.quoi = "domaine" /\ f.de = d => Su(r, f)
  PROVE  d \in DOMAIN domaines[r] \/ DomaineClos(r, d)
<1>1. PICK f : f = [quoi |-> "domaine", de |-> d, date |-> Aucune] OBVIOUS
<1>2. f \in FaitDe(Emise) /\ f.quoi = "domaine" /\ f.de = d BY <1>1 DEF FaitDe
<1>3. Su(r, f) BY <1>2
<1> QED BY <1>2, <1>3 DEF Su, Tient, Clos

LEMMA CreeRequis ==
  ASSUME NEW r \in Racine, NEW g \in Emise,
         \A f \in FaitDe(Emise) : f.quoi = "groupe" /\ f.de = g => Su(r, f)
  PROVE  g \in DOMAIN groupes[r] \/ CreeClos(r, g)
<1>1. PICK f : f = [quoi |-> "groupe", de |-> g, date |-> Aucune] OBVIOUS
<1>2. f \in FaitDe(Emise) /\ f.quoi = "groupe" /\ f.de = g BY <1>1 DEF FaitDe
<1>3. Su(r, f) BY <1>2
<1> QED BY <1>2, <1>3 DEF Su, Tient, Clos

LEMMA DroitRequis ==
  ASSUME NEW r \in Racine, NEW d \in Emise,
         \A f \in FaitDe(Emise) : f.quoi = "droit" /\ f.de = d => Su(r, f)
  PROVE  d \in DOMAIN droits[r] \/ DroitClos(r, d)
<1>1. PICK f : f = [quoi |-> "droit", de |-> d, date |-> Aucune] OBVIOUS
<1>2. f \in FaitDe(Emise) /\ f.quoi = "droit" /\ f.de = d BY <1>1 DEF FaitDe
<1>3. Su(r, f) BY <1>2
<1> QED BY <1>2, <1>3 DEF Su, Tient, Clos

\* A group that is needed and is not there, or is marked, is closed.
LEMMA GroupeRefuse ==
  ASSUME NEW r \in Racine, NEW g \in GroupeDe(Emise),
         \A f \in FaitDe(Emise) : DuGroupe(g, f) => Su(r, f), ~Rangee(r, g) \/ Marque(r, g)
  PROVE  GroupeClos(r, g)
<1>1. g.sorte \in {"domaine", "administrateurs", "personnel"} /\ g.de \in Emise
  BY DEF GroupeDe, SorteDeGroupe
<1>2. CASE g.sorte = "domaine"
  <2>1. g.de \in DOMAIN groupes[r] \/ CreeClos(r, g.de)
    BY <1>1, <1>2, CreeRequis DEF DuGroupe
  <2> QED BY <1>2, <2>1 DEF Rangee, Marque, GroupeClos
<1>3. CASE g.sorte = "administrateurs"
  <2>1. g.de \in DOMAIN domaines[r] \/ DomaineClos(r, g.de)
    BY <1>1, <1>3, DomaineRequis DEF DuGroupe
  <2> QED BY <1>3, <2>1 DEF Rangee, Marque, GroupeClos
<1>4. CASE g.sorte = "personnel" BY <1>4 DEF Rangee, Marque, GroupeClos
<1> QED BY <1>1, <1>2, <1>3, <1>4

LEMMA PremiereMarquee ==
  ASSUME NEW x \in DateOuNon(Estampille), NEW e \in Estampille
  PROVE  /\ Marquee(PremiereMarque(x, e), e)
         /\ PremiereMarque(x, e) = e \/ PremiereMarque(x, e) = x
<1>1. e # Aucune /\ ~Avant(e, e) BY PasDEstampille, OrdreTotal
<1>2. CASE x = Aucune BY <1>1, <1>2 DEF PremiereMarque, Marquee
<1>3. CASE x # Aucune
  <2>1. PremiereMarque(x, e) = PlusTot(x, e) BY <1>3 DEF PremiereMarque
  <2>2. x \in Estampille BY <1>3 DEF DateOuNon
  <2>3. CASE Avant(e, x)
    <3>1. PlusTot(x, e) = e BY <2>2, <2>3, OrdreTotal DEF PlusTot
    <3> QED BY <1>1, <2>1, <3>1 DEF Marquee
  <2>4. CASE ~Avant(e, x)
    <3>1. PlusTot(x, e) = x \/ PlusTot(x, e) = e BY DEF PlusTot
    <3> QED BY <1>1, <1>3, <2>1, <2>4, <3>1 DEF Marquee
  <2> QED BY <2>3, <2>4
<1> QED BY <1>2, <1>3

LEMMA AliasRecu ==
  ASSUME IInv, IInv', Accord, NEW r \in Racine, NEW operation, Lit(r, operation),
         operation.quoi = "alias", AppliquerAlias(r, operation),
         UNCHANGED <<tablesDesGroupes, droits>>
  PROVE  Accord'
<1> DEFINE c == operation.compte
           e == PlusTard(comptes[r][c].estampille, operation.estampille)
<1>1. \A f \in FaitDe(Emise) : ~Porte(operation, f) BY DEF Porte
<1>2. UNCHANGED <<domaines, poses, tablesDesGroupes, droits>> BY DEF AppliquerAlias
<1>3. CASE ~CompteVivant(r, c)
  <2>1. UNCHANGED tables BY <1>3 DEF AppliquerAlias, tables, tablesDesDomaines
  <2> QED BY <1>1, <2>1, RienDeChange, RefuseeAccorde
<1>4. CASE CompteVivant(r, c)
  <2>1. comptes' = [comptes EXCEPT ![r][c].estampille = e] BY <1>4 DEF AppliquerAlias
  <2>2. c \in Connus BY <1>4, TousConnus DEF IInv, Locale
  <2>3. DOMAIN comptes = Racine /\ comptes[r] \in [Connus -> CompteDe(Emise)]
    BY DEF IInv, Racines, Locale, ComptesJustes
  <2>4. comptes[r][c] \in CompteDe(Emise) BY <2>2, <2>3
  <2> HIDE DEF e
  <2>5. /\ DOMAIN comptes'[r] = DOMAIN comptes[r] /\ comptes'[r][c].efface = comptes[r][c].efface
        /\ \A x \in DOMAIN comptes[r] : x # c => comptes'[r][x] = comptes[r][x]
        /\ \A q \in Racine \ {r} : comptes'[q] = comptes[q]
    BY <2>1, <2>2, <2>3, <2>4 DEF CompteDe
  <2>6. \A x : CompteVivant(r, x)' <=> CompteVivant(r, x) BY <2>5 DEF CompteVivant
  <2>7. \A q \in Racine \ {r} : MemesTables(q) BY <1>2, <2>5 DEF MemesTables, tablesDesGroupes
  <2>8. Ajoute(r, operation) /\ Grandit(r) BY <1>2, <2>6, ComptesSeuls
  <2> QED BY <1>1, <2>7, <2>8, AjouteEncore, PriseAccorde
<1> QED BY <1>3, <1>4

LEMMA DomaineRecu ==
  ASSUME IInv, IInv', Accord, NEW r \in Racine, NEW operation, Lit(r, operation),
         operation.quoi = "domaine", AppliquerDomaine(r, operation),
         UNCHANGED <<tablesDesGroupes, droits>>
  PROVE  Accord'
<1> DEFINE d == operation.de
           c == operation.proprietaire
<1>1. UNCHANGED <<comptes, poses, tablesDesGroupes, droits>> BY DEF AppliquerDomaine
<1>2. \A f : Porte(operation, f) => f.quoi = "domaine" /\ f.de = d BY DEF Porte
<1>3. CASE CompteEfface(r, c) \/ d \in DOMAIN domaines[r]
  <2>1. domaines' = [domaines EXCEPT ![r] = @] BY <1>3 DEF AppliquerDomaine, Garder
  <2>3. \A q \in Racine : MemesTables(q)
    BY <1>1, <2>1 DEF IInv, Racines, MemesTables, tablesDesGroupes
  <2>4. CompteEfface(r, c) => DomaineClos(r, d)
    <3>1. DitPar(operation, "domaine", d, c) BY DEF DitPar
    <3>2. \A x : EstDit("domaine", d, x) => x = c BY <3>1, OperationLue
    <3> QED BY <3>2 DEF DomaineClos, CompteEfface, CompteVivant
  <2>5. \A f \in FaitDe(Emise) : Porte(operation, f) => Su(r, f)
    BY <1>2, <1>3, <2>4 DEF Su, Tient, Clos
  <2> QED BY <2>3, <2>5, RefuseeAccorde
<1>4. CASE ~CompteEfface(r, c) /\ d \notin DOMAIN domaines[r]
  <2>1. domaines' = [domaines EXCEPT ![r] =
          Poser(@, operation.de, Domaine(operation.proprietaire, operation.estampille))]
    BY <1>4 DEF AppliquerDomaine, Garder
  <2>2. PICK e : e = operation.estampille OBVIOUS
  <2>3. domaines' = [domaines EXCEPT ![r] =
          Poser(@, operation.de, Domaine(operation.proprietaire, e))]
    BY <2>1, <2>2
  <2>4. Ajoute(r, operation) /\ Grandit(r) /\ \A q \in Racine \ {r} : MemesTables(q)
    BY <1>1, <1>4, <2>3, DomaineAjoute
  <2>5. d \in DOMAIN domaines'[r] BY <2>3 DEF IInv, Racines, Poser
  <2>6. \A f \in FaitDe(Emise) : Porte(operation, f) => Tient(r, f)'
    BY <1>2, <2>5 DEF Tient
  <2> QED BY <2>4, <2>6, AjouteEncore, PriseAccorde
<1> QED BY <1>3, <1>4

LEMMA SuppressionRecue ==
  ASSUME IInv, IInv', Accord, NEW r \in Racine, NEW operation, Lit(r, operation),
         operation.quoi = "supprime", AppliquerDomaineSupprime(r, operation),
         UNCHANGED <<tablesDesGroupes, droits>>
  PROVE  Accord'
<1>1. PICK d : d = operation.de OBVIOUS
<1>2. PICK e : e = operation.estampille OBVIOUS
<1>3. d \in Emise /\ e \in Estampille
  <2>1. operation \in AuxDomaines(Emise) BY OperationLue, SorteDOperation
  <2> QED BY <1>1, <1>2, <2>1, ChampsDomaines, EmiseEstampilles
<1>4. UNCHANGED <<comptes, poses, tablesDesGroupes, droits>> BY DEF AppliquerDomaineSupprime
<1>5. \A f : Porte(operation, f) => f.quoi = "supprime" /\ f.de = d /\ f.date = e
  BY <1>1, <1>2 DEF Porte
<1>6. CASE d \notin DOMAIN domaines[r]
  <2>1. UNCHANGED tables
    BY <1>1, <1>4, <1>6 DEF AppliquerDomaineSupprime, tables, tablesDesDomaines
  <2>2. \A f \in FaitDe(Emise) : f.quoi = "domaine" /\ f.de = d => Su(r, f)
    BY <1>1, OperationLue DEF Requiert
  <2>3. DomaineClos(r, d) BY <1>3, <1>6, <2>2, DomaineRequis
  <2>4. \A f \in FaitDe(Emise) : Porte(operation, f) => Su(r, f) BY <1>5, <2>3 DEF Su, Clos
  <2> QED BY <2>1, <2>4, RienDeChange, RefuseeAccorde
<1>7. CASE d \in DOMAIN domaines[r]
  <2>1. PICK m : m = PremiereMarque(domaines[r][d].supprime, e) OBVIOUS
  <2>2. domaines' = [domaines EXCEPT ![r][d].supprime = m]
    BY <1>1, <1>2, <1>7, <2>1 DEF AppliquerDomaineSupprime
  <2>3. DomaineMarque(r, d, m) BY <1>7, <2>2, DomaineEstMarque
  <2>4. domaines[r][d].supprime \in DateOuNon(Estampille) BY <1>7, DatesLues DEF DatesDe
  <2>5. Marquee(m, e) /\ (m = operation.estampille \/ m = domaines[r][d].supprime)
    BY <1>2, <1>3, <2>1, <2>4, PremiereMarquee
  <2>6. operation.de = d BY <1>1
  <2>7. /\ Ajoute(r, operation) /\ Grandit(r) /\ \A q \in Racine \ {r} : MemesTables(q)
        /\ d \in DOMAIN domaines'[r] /\ domaines'[r][d].supprime = m
    BY <1>4, <1>7, <2>3, <2>5, <2>6, SuppressionAjoute
  <2>8. \A f \in FaitDe(Emise) : Porte(operation, f) => Tient(r, f)'
    BY <1>5, <2>5, <2>7 DEF Tient
  <2> QED BY <2>7, <2>8, AjouteEncore, PriseAccorde
<1> QED BY <1>6, <1>7

LEMMA PoseRecue ==
  ASSUME IInv, IInv', Accord, NEW r \in Racine, NEW operation, Lit(r, operation),
         operation.quoi = "pose", AppliquerPose(r, operation),
         UNCHANGED <<tablesDesGroupes, droits>>
  PROVE  Accord'
<1>1. PICK k : k = operation.cle OBVIOUS
<1>2. PICK e : e = operation.estampille OBVIOUS
<1>3. k \in CleDe(Emise) /\ e \in Estampille
  <2>1. operation \in AuxDomaines(Emise) BY OperationLue, SorteDOperation
  <2> QED BY <1>1, <1>2, <2>1, ChampsDomaines, EmiseEstampilles
<1>4. UNCHANGED <<comptes, domaines, tablesDesGroupes, droits>> BY DEF AppliquerPose
<1>5. \A f : Porte(operation, f) => f.quoi = "pose" /\ f.de = k /\ f.date = e
  BY <1>1, <1>2 DEF Porte
<1>6. CASE ~(Accueille(r, k) /\ Remplace(poses[r], k, e))
  <2>1. poses' = [poses EXCEPT ![r] = @] BY <1>1, <1>2, <1>6 DEF AppliquerPose
  <2>3. \A q \in Racine : MemesTables(q)
    BY <1>4, <2>1 DEF IInv, Racines, MemesTables, tablesDesGroupes
  <2>4. ~Accueille(r, k) => CleClose(r, k)
    <3>1. CASE k.quoi = "alias"
      <4>1. \A f \in FaitDe(Emise) : f.quoi = "domaine" /\ f.de = k.de => Su(r, f)
        BY <1>1, <3>1, OperationLue DEF Requiert
      <4>2. k.de \in Emise BY <1>3 DEF CleDe
      <4> QED BY <3>1, <4>1, <4>2, DomaineRequis DEF Accueille, CleClose
    <3>2. CASE k.quoi # "alias" BY <3>2 DEF Accueille, CleClose
    <3> QED BY <3>1, <3>2
  <2>5. ~Remplace(poses[r], k, e) =>
          k \in DOMAIN poses[r] /\ ~Avant(poses[r][k].estampille, e)
    BY DEF Remplace
  <2>6. \A f \in FaitDe(Emise) : Porte(operation, f) => Su(r, f)
    BY <1>5, <1>6, <2>4, <2>5 DEF Su, Tient, Clos
  <2> QED BY <2>3, <2>6, RefuseeAccorde
<1>7. CASE Accueille(r, k) /\ Remplace(poses[r], k, e)
  <2>1. poses' = [poses EXCEPT ![r] = Poser(@, operation.cle,
          [estampille |-> operation.estampille, valeur |-> operation.valeur])]
    BY <1>1, <1>2, <1>7 DEF AppliquerPose
  <2>2. operation.cle \in DOMAIN poses[r] =>
          ~Avant(operation.estampille, poses[r][operation.cle].estampille)
    <3>1. k \in DOMAIN poses[r] => poses[r][k].estampille \in Estampille
      BY DatesLues DEF DatesDe
    <3>2. k \in DOMAIN poses[r] => Avant(poses[r][k].estampille, e) BY <1>7 DEF Remplace
    <3> QED BY <1>1, <1>2, <1>3, <3>1, <3>2, OrdreTotal
  <2>3. /\ Ajoute(r, operation) /\ Grandit(r) /\ \A q \in Racine \ {r} : MemesTables(q)
        /\ operation.cle \in DOMAIN poses'[r]
        /\ poses'[r][operation.cle].estampille = operation.estampille
    BY <1>4, <2>1, <2>2, PoseAjoute
  <2>4. ~Avant(e, e) BY <1>3, OrdreTotal
  <2>5. \A f \in FaitDe(Emise) : Porte(operation, f) => Tient(r, f)'
    BY <1>1, <1>2, <1>5, <2>3, <2>4 DEF Tient
  <2> QED BY <2>3, <2>5, AjouteEncore, PriseAccorde
<1> QED BY <1>6, <1>7

LEMMA GroupeRecu ==
  ASSUME IInv, IInv', Accord, NEW r \in Racine, NEW operation, Lit(r, operation),
         operation.quoi = "groupe", AppliquerGroupe(r, operation),
         UNCHANGED <<tablesDesDomaines, droits>>
  PROVE  Accord'
<1>1. PICK g : g = operation.de OBVIOUS
<1>2. PICK e : e = operation.etiquette OBVIOUS
<1>3. PICK d : d = operation.domaine OBVIOUS
<1>4. g \in Emise /\ d \in Emise /\ e \in Estampille /\ ~Avant(e, e)
  <2>1. operation \in AuxGroupes(Emise) BY OperationLue, SorteDOperation
  <2>2. g \in Emise /\ d \in Emise /\ e \in Estampille
    BY <1>1, <1>2, <1>3, <2>1, ChampsGroupes, EmiseEstampilles
  <2> QED BY <2>2, OrdreTotal
<1>5. UNCHANGED <<tablesDesDomaines, marques, adhesions, droits>> BY DEF AppliquerGroupe
<1>6. \A f : Porte(operation, f) =>
        f.quoi \in {"groupe", "etiquette"} /\ f.de = g /\ (f.quoi = "etiquette" => f.date = e)
  BY <1>1, <1>2 DEF Porte
<1>7. CASE d \notin DOMAIN domaines[r]
  <2>1. UNCHANGED tables
    BY <1>3, <1>5, <1>7 DEF AppliquerGroupe, tables, tablesDesGroupes
  <2>2. \A f \in FaitDe(Emise) : f.quoi = "domaine" /\ f.de = d => Su(r, f)
    BY <1>3, OperationLue DEF Requiert
  <2>3. DomaineClos(r, d) BY <1>4, <1>7, <2>2, DomaineRequis
  <2>4. DitPar(operation, "groupe", g, d) BY <1>1, <1>3 DEF DitPar
  <2>5. \A x : EstDit("groupe", g, x) => x = d BY <2>4, OperationLue
  <2>6. CreeClos(r, g) BY <2>3, <2>5 DEF CreeClos
  <2>7. \A f \in FaitDe(Emise) : Porte(operation, f) => Su(r, f) BY <1>6, <2>6 DEF Su, Clos
  <2> QED BY <2>1, <2>7, RienDeChange, RefuseeAccorde
<1>8. CASE d \in DOMAIN domaines[r] /\ g \in DOMAIN groupes[r]
  <2>1. PoserLEtiquette(r, operation.de, e) BY <1>1, <1>2, <1>3, <1>8 DEF AppliquerGroupe
  <2>2. /\ Ajoute(r, operation) /\ Grandit(r) /\ \A q \in Racine \ {r} : MemesTables(q)
        /\ DOMAIN groupes'[r] = DOMAIN groupes[r]
        /\ operation.de \in DOMAIN groupes[r] => ~Avant(groupes'[r][operation.de].etiquette, e)
    BY <1>2, <1>4, <1>5, <2>1, EtiquetteAjoute
  <2>3. \A f \in FaitDe(Emise) : Porte(operation, f) => Tient(r, f)'
    BY <1>1, <1>6, <1>8, <2>2 DEF Tient
  <2> QED BY <2>2, <2>3, AjouteEncore, PriseAccorde
<1>9. CASE d \in DOMAIN domaines[r] /\ g \notin DOMAIN groupes[r]
  <2>1. /\ operation.de \notin DOMAIN groupes[r]
        /\ groupes' = [groupes EXCEPT ![r] = Poser(@, operation.de,
             [domaine |-> operation.domaine, etiquette |-> operation.etiquette])]
    BY <1>1, <1>3, <1>9 DEF AppliquerGroupe
  <2>2. /\ Ajoute(r, operation) /\ Grandit(r) /\ \A q \in Racine \ {r} : MemesTables(q)
        /\ operation.de \in DOMAIN groupes'[r]
        /\ groupes'[r][operation.de].etiquette = operation.etiquette
    BY <1>5, <2>1, GroupeAjoute
  <2>3. \A f \in FaitDe(Emise) : Porte(operation, f) => Tient(r, f)'
    BY <1>1, <1>2, <1>4, <1>6, <2>2 DEF Tient
  <2> QED BY <2>2, <2>3, AjouteEncore, PriseAccorde
<1> QED BY <1>7, <1>8, <1>9

LEMMA EtiquetteRecue ==
  ASSUME IInv, IInv', Accord, NEW r \in Racine, NEW operation, Lit(r, operation),
         operation.quoi = "etiquette", AppliquerGroupeEtiquette(r, operation),
         UNCHANGED <<tablesDesDomaines, droits>>
  PROVE  Accord'
<1>1. PICK g : g = operation.de OBVIOUS
<1>2. PICK e : e = operation.estampille OBVIOUS
<1>3. g \in Emise /\ e \in Estampille
  <2>1. operation \in AuxGroupes(Emise) BY OperationLue, SorteDOperation
  <2> QED BY <1>1, <1>2, <2>1, ChampsGroupes, EmiseEstampilles
<1>4. PoserLEtiquette(r, operation.de, e) /\ UNCHANGED <<tablesDesDomaines, marques, adhesions, droits>>
  BY <1>2 DEF AppliquerGroupeEtiquette
<1>5. \A f : Porte(operation, f) => f.quoi = "etiquette" /\ f.de = g /\ f.date = e
  BY <1>1, <1>2 DEF Porte
<1>6. /\ Ajoute(r, operation) /\ Grandit(r) /\ \A q \in Racine \ {r} : MemesTables(q)
      /\ DOMAIN groupes'[r] = DOMAIN groupes[r]
      /\ operation.de \in DOMAIN groupes[r] => ~Avant(groupes'[r][operation.de].etiquette, e)
  BY <1>2, <1>3, <1>4, EtiquetteAjoute
<1>7. \A f \in FaitDe(Emise) : f.quoi = "groupe" /\ f.de = g => Su(r, f)
  BY <1>1, OperationLue DEF Requiert
<1>8. g \in DOMAIN groupes[r] \/ CreeClos(r, g) BY <1>3, <1>7, CreeRequis
<1>9. \A f \in FaitDe(Emise) : Porte(operation, f) => Su(r, f) \/ Tient(r, f)'
  BY <1>1, <1>5, <1>6, <1>8 DEF Tient, Su, Clos
<1> QED BY <1>6, <1>9, AjouteEncore, PriseAccorde

\* An addition that is not taken is closed.
LEMMA AjoutRefuse ==
  ASSUME IInv, Accord, NEW r \in Racine, NEW operation, Lit(r, operation),
         operation.quoi \in {"membre", "retire"},
         CompteEfface(r, operation.compte) \/ ~PeutRecevoir(r, operation.groupe)
  PROVE  AjoutClos(r, AjoutDe(operation))
<1> DEFINE a == AjoutDe(operation)
<1>1. /\ a \in AdhesionDe(Emise) /\ a.groupe = operation.groupe /\ a.compte = operation.compte
  BY OperationLue, AjoutType
<1>2. EstDit("adhesion", a, a)
  <2>1. DitPar(operation, "adhesion", a, a) BY DEF DitPar
  <2> QED BY <2>1, OperationLue
<1> HIDE DEF a
<1>3. a.groupe.sorte # "personnel" /\ a.groupe \in GroupeDe(Emise)
  BY <1>1, <1>2 DEF Accord, JamaisDOffice, AdhesionDe
<1>4. CASE CompteEfface(r, operation.compte)
  BY <1>1, <1>4 DEF AjoutClos, CompteEfface, CompteVivant, a
<1>5. CASE ~PeutRecevoir(r, operation.groupe)
  <2>1. ~Rangee(r, a.groupe) \/ Marque(r, a.groupe) BY <1>1, <1>3, <1>5 DEF PeutRecevoir
  <2>2. \A f \in FaitDe(Emise) : DuGroupe(a.groupe, f) => Su(r, f)
    BY <1>1, OperationLue DEF Requiert
  <2>3. GroupeClos(r, a.groupe) BY <1>3, <2>1, <2>2, GroupeRefuse
  <2> QED BY <2>3 DEF AjoutClos, a
<1> QED BY <1>4, <1>5

LEMMA MembreRecu ==
  ASSUME IInv, IInv', Accord, NEW r \in Racine, NEW operation, Lit(r, operation),
         operation.quoi = "membre", AppliquerGroupeMembre(r, operation),
         UNCHANGED <<tablesDesDomaines, droits>>
  PROVE  Accord'
<1>1. PICK a : a = AjoutDe(operation) OBVIOUS
<1>2. /\ a = [groupe |-> operation.groupe, compte |-> operation.compte,
              ajout |-> operation.estampille]
      /\ a.compte = operation.compte /\ a.groupe = operation.groupe
  BY <1>1 DEF AjoutDe
<1>3. UNCHANGED <<tablesDesDomaines, groupes, marques, droits>> BY DEF AppliquerGroupeMembre
<1>4. adhesions' = [adhesions EXCEPT ![r] =
        IF ~CompteEfface(r, a.compte) /\ PeutRecevoir(r, a.groupe)
          THEN Garder(@, a, Aucune) ELSE @]
  BY <1>2 DEF AppliquerGroupeMembre
<1>5. \A f : Porte(operation, f) => f.quoi = "membre" /\ f.de = a BY <1>1 DEF Porte
<1>6. CASE ~(~CompteEfface(r, a.compte) /\ PeutRecevoir(r, a.groupe)) \/ a \in DOMAIN adhesions[r]
  <2>1. adhesions' = [adhesions EXCEPT ![r] = @] BY <1>4, <1>6 DEF Garder
  <2>2. \A q \in Racine : MemesTables(q)
    BY <1>3, <2>1 DEF IInv, Racines, MemesTables, tablesDesDomaines
  <2>3. AjoutClos(r, a) \/ a \in DOMAIN adhesions[r] BY <1>1, <1>2, <1>6, AjoutRefuse
  <2>4. \A f \in FaitDe(Emise) : Porte(operation, f) => Su(r, f)
    BY <1>5, <2>3 DEF Su, Tient, Clos
  <2> QED BY <2>2, <2>4, RefuseeAccorde
<1>7. CASE ~CompteEfface(r, a.compte) /\ PeutRecevoir(r, a.groupe) /\ a \notin DOMAIN adhesions[r]
  <2>1. adhesions' = [adhesions EXCEPT ![r] = Poser(@, a, Aucune)] BY <1>4, <1>7 DEF Garder
  <2>2. PICK v : v = Aucune OBVIOUS
  <2>3. AjoutMis(r, AjoutDe(operation), v) /\ AjoutVu(r, operation, v)
    BY <1>1, <2>1, <2>2 DEF AjoutMis, AjoutVu, IInv, Racines, Poser
  <2>4. /\ Ajoute(r, operation) /\ Grandit(r) /\ \A q \in Racine \ {r} : MemesTables(q)
        /\ AjoutDe(operation) \in DOMAIN adhesions'[r]
        /\ adhesions'[r][AjoutDe(operation)] = v
    BY <1>3, <2>3, AdhesionAjoute
  <2>5. \A f \in FaitDe(Emise) : Porte(operation, f) => Tient(r, f)'
    BY <1>1, <1>5, <2>4 DEF Tient
  <2> QED BY <2>4, <2>5, AjouteEncore, PriseAccorde
<1> QED BY <1>6, <1>7

LEMMA RetraitRecu ==
  ASSUME IInv, IInv', Accord, NEW r \in Racine, NEW operation, Lit(r, operation),
         operation.quoi = "retire", AppliquerGroupeMembreRetire(r, operation),
         UNCHANGED <<tablesDesDomaines, droits>>
  PROVE  Accord'
<1>1. PICK a : a = AjoutDe(operation) OBVIOUS
<1>2. PICK e : e = operation.estampille OBVIOUS
<1>3. /\ a = [groupe |-> operation.groupe, compte |-> operation.compte,
              ajout |-> operation.ajout]
      /\ a.compte = operation.compte /\ a.groupe = operation.groupe
  BY <1>1 DEF AjoutDe
<1>4. e \in Estampille
  <2>1. operation \in AuxGroupes(Emise) BY OperationLue, SorteDOperation
  <2> QED BY <1>2, <2>1, ChampsGroupes, EmiseEstampilles
<1> DEFINE entre == /\ ~CompteEfface(r, a.compte) /\ PeutRecevoir(r, a.groupe)
                    /\ a.compte \notin DOffice(r, a.groupe)
           marque == IF a \in DOMAIN adhesions[r] THEN adhesions[r][a] ELSE Aucune
<1>5. UNCHANGED <<tablesDesDomaines, groupes, marques, droits>>
  BY DEF AppliquerGroupeMembreRetire
<1>6. adhesions' = [adhesions EXCEPT ![r] =
        IF entre THEN Poser(@, a, PremiereMarque(marque, e)) ELSE @]
  BY <1>2, <1>3 DEF AppliquerGroupeMembreRetire
<1>7. \A f : Porte(operation, f) =>
        f.quoi \in {"membre", "retire"} /\ f.de = a /\ (f.quoi = "retire" => f.date = e)
  BY <1>1, <1>2 DEF Porte
<1>8. a.compte \notin DOffice(r, a.groupe)
  <2>1. EstDit("adhesion", a, a)
    <3>1. DitPar(operation, "adhesion", a, a) BY <1>1 DEF DitPar
    <3> QED BY <3>1, OperationLue
  <2>2. /\ a.groupe.sorte # "personnel"
        /\ a.groupe.sorte = "administrateurs" => ~EstDit("domaine", a.groupe.de, a.compte)
    BY <2>1 DEF Accord, JamaisDOffice
  <2>3. a.groupe.de \in DOMAIN domaines[r] =>
          EstDit("domaine", a.groupe.de, domaines[r][a.groupe.de].proprietaire)
    BY DEF EstDit, DitIci
  <2> QED BY <2>2, <2>3 DEF DOffice
<1>9. CASE ~entre
  <2>1. adhesions' = [adhesions EXCEPT ![r] = @] BY <1>6, <1>9
  <2>2. \A q \in Racine : MemesTables(q)
    BY <1>5, <2>1 DEF IInv, Racines, MemesTables, tablesDesDomaines
  <2>3. AjoutClos(r, a) BY <1>1, <1>3, <1>8, <1>9, AjoutRefuse
  <2>4. \A f \in FaitDe(Emise) : Porte(operation, f) => Su(r, f)
    BY <1>7, <2>3 DEF Su, Clos
  <2> QED BY <2>2, <2>4, RefuseeAccorde
<1>10. CASE entre
  <2>1. PICK v : v = PremiereMarque(marque, e) OBVIOUS
  <2>2. adhesions' = [adhesions EXCEPT ![r] = Poser(@, a, v)] BY <1>6, <1>10, <2>1
  <2>3. marque \in DateOuNon(Estampille) BY DatesLues DEF DatesDe, DateOuNon
  <2>4. Marquee(v, e) /\ (v = e \/ v = marque) BY <1>4, <2>1, <2>3, PremiereMarquee
  <2>5. AjoutMis(r, AjoutDe(operation), v)
    BY <1>1, <2>2 DEF AjoutMis, IInv, Racines, Poser
  <2>6. AjoutVu(r, operation, v) BY <1>1, <1>2, <2>4 DEF AjoutVu
  <2>7. /\ Ajoute(r, operation) /\ Grandit(r) /\ \A q \in Racine \ {r} : MemesTables(q)
        /\ AjoutDe(operation) \in DOMAIN adhesions'[r]
        /\ adhesions'[r][AjoutDe(operation)] = v
    BY <1>5, <2>5, <2>6, AdhesionAjoute
  <2>8. \A f \in FaitDe(Emise) : Porte(operation, f) => Tient(r, f)'
    BY <1>1, <1>7, <2>4, <2>7 DEF Tient
  <2> QED BY <2>7, <2>8, AjouteEncore, PriseAccorde
<1> QED BY <1>9, <1>10

LEMMA DissolutionRecue ==
  ASSUME IInv, IInv', Accord, NEW r \in Racine, NEW operation, Lit(r, operation),
         operation.quoi = "dissous", AppliquerGroupeSupprime(r, operation),
         OublierLesDroits(r, DroitsDuGroupe(r, DuDomaine(operation.de))),
         UNCHANGED tablesDesDomaines
  PROVE  Accord'
<1>1. PICK g : g = operation.de OBVIOUS
<1>2. PICK e : e = operation.estampille OBVIOUS
<1>3. /\ Marquer(r, operation.de, e) /\ Marquer(r, g, e)
      /\ OublierLesDroits(r, DroitsDuGroupe(r, DuDomaine(g)))
  BY <1>1, <1>2 DEF AppliquerGroupeSupprime
<1>4. /\ Ajoute(r, operation) /\ \A q \in Racine \ {r} : MemesTables(q)
      /\ operation.de \in DOMAIN marques'[r]
  BY <1>3, DissolutionAjoute
<1>5. DitsRestent => Garde(r) BY <1>3, DissolutionGarde DEF Accord
<1>6. \A f \in FaitDe(Emise) : Porte(operation, f) => Su(r, f)'
  BY <1>4 DEF Porte, Su, Tient
<1> QED BY <1>4, <1>5, <1>6, AjouteEncore, LueAccorde

LEMMA DroitRecu ==
  ASSUME IInv, IInv', Accord, NEW r \in Racine, NEW operation, Lit(r, operation),
         operation.quoi = "droit", AppliquerDroit(r, operation)
  PROVE  Accord'
<1>1. PICK d : d = operation.estampille OBVIOUS
<1>2. PICK droit : droit = operation.enregistrement OBVIOUS
<1>3. droit \in DroitDe(Emise)
  <2>1. operation \in AuxDroits(Emise) BY OperationLue, SorteDOperation
  <2> QED BY <1>2, <2>1, ChampsDroits
<1>4. UNCHANGED <<tablesDesDomaines, tablesDesGroupes>> BY DEF AppliquerDroit
<1>5. droits' = [droits EXCEPT ![r] = IF PeutEntrer(r, droit) THEN Garder(@, d, droit) ELSE @]
  BY <1>1, <1>2 DEF AppliquerDroit
<1>6. \A f : Porte(operation, f) => f.quoi = "droit" /\ f.de = d BY <1>1 DEF Porte
<1>7. CASE ~PeutEntrer(r, droit) \/ d \in DOMAIN droits[r]
  <2>1. droits' = [droits EXCEPT ![r] = @] BY <1>5, <1>7 DEF Garder
  <2>2. \A q \in Racine : MemesTables(q)
    BY <1>4, <2>1 DEF IInv, Racines, MemesTables, tablesDesDomaines, tablesDesGroupes
  <2>3. ASSUME ~PeutEntrer(r, droit) PROVE DroitClos(r, d)
    <3>5. RangeeClose(r, droit)
      <4>1. /\ droit.groupe \in GroupeDe(Emise) /\ droit.element \in ElementDe(Emise)
            /\ droit.par \in Connus
        BY <1>3 DEF DroitDe
      <4>2. CASE CompteEfface(r, droit.par) BY <4>2 DEF RangeeClose, CompteEfface, CompteVivant
      <4>3. CASE ~Rangee(r, droit.groupe) \/ Marque(r, droit.groupe)
        <5>1. \A f \in FaitDe(Emise) : DuGroupe(droit.groupe, f) => Su(r, f)
          BY <1>2, OperationLue DEF Requiert
        <5> QED BY <4>1, <4>3, <5>1, GroupeRefuse DEF RangeeClose
      <4>4. CASE droit.element \notin Elements(r)
        <5>1. PICK x : x = droit.element OBVIOUS
        <5>2. x.sorte \in {"domaine", "machine", "compte"} /\ x.de \in Emise
          BY <4>1, <5>1 DEF ElementDe
        <5>3. CASE x.sorte = "domaine"
          <6>1. x.de \notin DOMAIN domaines[r]
            BY <4>1, <4>4, <5>1, <5>3 DEF Elements, LeDomaine, ElementDe
          <6>2. \A f \in FaitDe(Emise) : f.quoi = "domaine" /\ f.de = x.de => Su(r, f)
            BY <1>2, <5>1, <5>3, OperationLue DEF Requiert
          <6>3. DomaineClos(r, x.de) BY <5>2, <6>1, <6>2, DomaineRequis
          <6> QED BY <5>1, <5>3, <6>3 DEF RangeeClose, ElementClos
        <5>4. CASE x.sorte = "machine"
          <6>1. ~MachineLa(r, x.de)
            BY <4>1, <4>4, <5>1, <5>4 DEF Elements, LaMachine, ElementDe, MachineLa
          <6> QED BY <5>1, <5>4, <6>1 DEF RangeeClose, ElementClos
        <5>5. CASE x.sorte = "compte"
          <6>1. ~CompteVivant(r, x.de)
            BY <4>1, <4>4, <5>1, <5>5 DEF Elements, LeCompte, ElementDe, CompteVivant
          <6> QED BY <5>1, <5>5, <6>1 DEF RangeeClose, ElementClos
        <5> QED BY <5>2, <5>3, <5>4, <5>5
      <4> QED BY <2>3, <4>2, <4>3, <4>4 DEF PeutEntrer
    <3>6. ASSUME NEW autre, EstDit("droit", d, autre) PROVE RangeeClose(r, autre)
      <4>1. DitPar(operation, "droit", d, SansSonRetrait(droit)) BY <1>1, <1>2 DEF DitPar
      <4>2. autre = SansSonRetrait(droit) BY <3>6, <4>1, OperationLue
      <4>3. /\ autre.par = droit.par /\ autre.groupe = droit.groupe
            /\ autre.element = droit.element
        BY <1>3, <4>2 DEF SansSonRetrait, DroitDe
      <4> QED BY <3>5, <4>3 DEF RangeeClose
    <3> QED BY <3>6 DEF DroitClos
  <2>4. \A f \in FaitDe(Emise) : Porte(operation, f) => Su(r, f)
    BY <1>6, <1>7, <2>3 DEF Su, Tient, Clos
  <2> QED BY <2>2, <2>4, RefuseeAccorde
<1>8. CASE PeutEntrer(r, droit) /\ d \notin DOMAIN droits[r]
  <2>1. /\ operation.estampille \notin DOMAIN droits[r]
        /\ amorcages = 0 => operation.enregistrement.retire = Aucune
        /\ droits' = [droits EXCEPT ![r] =
             Poser(@, operation.estampille, operation.enregistrement)]
    BY <1>1, <1>2, <1>5, <1>8, OperationLue DEF Garder
  <2>2. /\ AjouteSauf(r, operation) /\ Grandit(r) /\ \A q \in Racine \ {r} : MemesTables(q)
        /\ operation.enregistrement.retire = Aucune => Ajoute(r, operation)
        /\ operation.estampille \in DOMAIN droits'[r]
    BY <1>4, <2>1, DroitAjoute
  <2>3. \A f \in FaitDe(Emise) : Porte(operation, f) => Tient(r, f)'
    BY <1>1, <1>6, <2>2 DEF Tient
  <2> QED BY <2>2, <2>3, PriseAccorde
<1> QED BY <1>7, <1>8

LEMMA DroitRetireRecu ==
  ASSUME IInv, IInv', Accord, NEW r \in Racine, NEW operation, Lit(r, operation),
         operation.quoi = "droitRetire", AppliquerDroitRetire(r, operation)
  PROVE  Accord'
<1>1. PICK d : d = operation.droit OBVIOUS
<1>2. PICK e : e = operation.estampille OBVIOUS
<1>3. d \in Emise /\ e \in Estampille
  <2>1. operation \in AuxDroits(Emise) BY OperationLue, SorteDOperation
  <2> QED BY <1>1, <1>2, <2>1, ChampsDroits, EmiseEstampilles
<1>4. UNCHANGED <<tablesDesDomaines, tablesDesGroupes>> BY DEF AppliquerDroitRetire
<1>5. \A f : Porte(operation, f) => f.quoi = "droitRetire" /\ f.de = d /\ f.date = e
  BY <1>1, <1>2 DEF Porte
<1>6. CASE d \notin DOMAIN droits[r]
  <2>1. UNCHANGED tables BY <1>1, <1>4, <1>6 DEF AppliquerDroitRetire, tables
  <2>2. \A f \in FaitDe(Emise) : f.quoi = "droit" /\ f.de = d => Su(r, f)
    BY <1>1, OperationLue DEF Requiert
  <2>3. DroitClos(r, d) BY <1>3, <1>6, <2>2, DroitRequis
  <2>4. \A f \in FaitDe(Emise) : Porte(operation, f) => Su(r, f) BY <1>5, <2>3 DEF Su, Clos
  <2> QED BY <2>1, <2>4, RienDeChange, RefuseeAccorde
<1>7. CASE d \in DOMAIN droits[r]
  <2>1. PICK m : m = PremiereMarque(droits[r][d].retire, e) OBVIOUS
  <2>2. droits' = [droits EXCEPT ![r][d].retire = m]
    BY <1>1, <1>2, <1>7, <2>1 DEF AppliquerDroitRetire
  <2>3. DroitMarque(r, d, m) BY <1>7, <2>2, DroitEstMarque
  <2>4. droits[r][d].retire \in DateOuNon(Estampille) BY <1>7, DatesLues DEF DatesDe
  <2>5. Marquee(m, e) /\ (m = operation.estampille \/ m = droits[r][d].retire)
    BY <1>2, <1>3, <2>1, <2>4, PremiereMarquee
  <2>6. operation.droit = d BY <1>1
  <2>7. /\ Ajoute(r, operation) /\ Grandit(r) /\ \A q \in Racine \ {r} : MemesTables(q)
        /\ d \in DOMAIN droits'[r] /\ droits'[r][d].retire = m
    BY <1>4, <1>7, <2>3, <2>5, <2>6, DroitRetireAjoute
  <2>8. \A f \in FaitDe(Emise) : Porte(operation, f) => Tient(r, f)'
    BY <1>5, <2>5, <2>7 DEF Tient
  <2> QED BY <2>7, <2>8, AjouteEncore, PriseAccorde
<1> QED BY <1>6, <1>7

LEMMA EffacementRecu ==
  ASSUME IInv, IInv', Accord, NEW r \in Racine, NEW operation, Lit(r, operation),
         operation.quoi = "efface", AppliquerCompteEfface(r, operation)
  PROVE  Accord'
<1>1. PICK c : c = operation.compte OBVIOUS
<1>2. c \in Connus
  <2>1. operation \in AuxDomaines(Emise) BY OperationLue, SorteDOperation
  <2> QED BY <1>1, <2>1, ChampsDomaines
<1>3. \A f : Porte(operation, f) => f.quoi = "efface" /\ f.de = c BY <1>1 DEF Porte
<1>4. CASE CompteEfface(r, c)
  <2>1. UNCHANGED tables BY <1>1, <1>4 DEF AppliquerCompteEfface
  <2>2. \A f \in FaitDe(Emise) : Porte(operation, f) => Su(r, f)
    BY <1>3, <1>4 DEF Su, Tient, CompteEfface, CompteVivant
  <2> QED BY <2>1, <2>2, RienDeChange, RefuseeAccorde
<1>5. CASE ~CompteEfface(r, c)
  <2>1. EffacerDans(r, c) /\ EffacerDans(r, operation.compte) /\ operation.compte \in Connus
    BY <1>1, <1>2, <1>5 DEF AppliquerCompteEfface
  <2>2. /\ Ajoute(r, operation) /\ \A q \in Racine \ {r} : MemesTables(q)
        /\ ~CompteVivant(r, operation.compte)'
    BY <2>1, EffacementAjoute
  <2>3. DitsRestent => Garde(r) BY <1>2, <2>1, EffacementGarde DEF Accord
  <2>4. \A f \in FaitDe(Emise) : Porte(operation, f) => Su(r, f)'
    BY <1>1, <1>3, <2>2 DEF Su, Tient
  <2> QED BY <2>2, <2>3, <2>4, AjouteEncore, LueAccorde
<1> QED BY <1>4, <1>5

LEMMA ReceptionsAccordent ==
  ASSUME IInv, IInv', Accord, NEW r \in Racine, \A q \in Racine : Tenus(q), Recevoir(r)
  PROVE  Accord'
<1>1. PICK operation : operation = Head(enRoute[r]) OBVIOUS
<1>2. Lit(r, operation) BY <1>1 DEF Lit, Recevoir
<1>3. \/ AppliquerAuxDomaines(r, operation) \/ AppliquerAuxGroupes(r, operation)
      \/ /\ operation.quoi = "dissous" /\ AppliquerGroupeSupprime(r, operation)
         /\ OublierLesDroits(r, DroitsDuGroupe(r, DuDomaine(operation.de)))
         /\ UNCHANGED tablesDesDomaines
      \/ operation.quoi = "droit"       /\ AppliquerDroit(r, operation)
      \/ operation.quoi = "droitRetire" /\ AppliquerDroitRetire(r, operation)
      \/ operation.quoi = "efface"      /\ AppliquerCompteEfface(r, operation)
      \/ operation.quoi = "fin"         /\ UNCHANGED tables
  BY <1>1 DEF Recevoir
<1>4. CASE AppliquerAuxDomaines(r, operation)
  <2>1. UNCHANGED <<tablesDesGroupes, droits>> BY <1>4 DEF AppliquerAuxDomaines
  <2>2. CASE operation.quoi = "compte" /\ AppliquerCompte(r, operation)
    <3>1. operation.compte \in Connus BY <1>2, <2>2, OperationLue, SorteDOperation, ChampsDomaines
    <3>2. operation.compte \in DOMAIN comptes[r] BY <3>1, TousConnus DEF IInv, Locale
    <3>3. UNCHANGED tables BY <2>1, <2>2, <3>2 DEF AppliquerCompte, tables
    <3>4. \A f : ~Porte(operation, f) BY <2>2 DEF Porte
    <3> QED BY <1>2, <3>3, <3>4, RienDeChange, RefuseeAccorde
  <2> QED BY <1>2, <1>4, <2>1, <2>2, AliasRecu, DomaineRecu, SuppressionRecue, PoseRecue
    DEF AppliquerAuxDomaines
<1>5. CASE AppliquerAuxGroupes(r, operation)
  BY <1>2, <1>5, GroupeRecu, EtiquetteRecue, MembreRecu, RetraitRecu DEF AppliquerAuxGroupes
<1>6. CASE operation.quoi = "fin" /\ UNCHANGED tables
  <2>1. \A f : ~Porte(operation, f) BY <1>6 DEF Porte
  <2> QED BY <1>2, <1>6, <2>1, RienDeChange, RefuseeAccorde
<1> QED BY <1>2, <1>3, <1>4, <1>5, <1>6, DissolutionRecue, DroitRecu, DroitRetireRecu,
           EffacementRecu

-----------------------------------------------------------------------------
(* A snapshot tells what the tables of its root hold, in the order it needs. *)

\* What the operation says, brings and needs is in the tables of q.
Fidele(q, operation) ==
  /\ \A quoi, cle, valeur : DitPar(operation, quoi, cle, valeur) => DitIci(q, quoi, cle, valeur)
  /\ \A f \in FaitDe(Emise) : Porte(operation, f) \/ Requiert(operation, f) => Sait(q, f)

\* Every fact of q of the kinds B is brought; what is needed is brought before, or is of
\* the kinds A.
Raconte(q, s, A, B) ==
  /\ \A i \in DOMAIN s : Fidele(q, s[i])
  /\ \A i \in DOMAIN s : \A f \in FaitDe(Emise) : Requiert(s[i], f) =>
       f.quoi \in A \/ \E j \in DOMAIN s : j < i /\ Porte(s[j], f)
  /\ \A f \in FaitDe(Emise) : Sait(q, f) /\ f.quoi \in B =>
       \E i \in DOMAIN s : Porte(s[i], f)

LEMMA RaconteDUnEnsemble ==
  ASSUME NEW q, NEW S, IsFiniteSet(S), NEW T, NEW g \in [S -> T], NEW s,
         s = [i \in DOMAIN SetToSeq(S) |-> g[SetToSeq(S)[i]]], NEW A, NEW B,
         \A x \in S : Fidele(q, g[x]),
         \A x \in S : \A f \in FaitDe(Emise) : Requiert(g[x], f) => f.quoi \in A,
         \A f \in FaitDe(Emise) : Sait(q, f) /\ f.quoi \in B => \E x \in S : Porte(g[x], f)
  PROVE  Raconte(q, s, A, B)
<1>1. PICK l : l = SetToSeq(S) OBVIOUS
<1>2. /\ \A i \in DOMAIN l : l[i] \in S
      /\ \A x \in S : \E i \in DOMAIN l : l[i] = x
  BY <1>1, SuiteDe, SuiteLue
<1>3. DOMAIN s = DOMAIN l /\ \A i \in DOMAIN l : s[i] = g[l[i]] BY <1>1
<1>4. \A i \in DOMAIN s : Fidele(q, s[i]) BY <1>2, <1>3
<1>5. \A i \in DOMAIN s : \A f \in FaitDe(Emise) : Requiert(s[i], f) => f.quoi \in A
  BY <1>2, <1>3
<1>6. \A f \in FaitDe(Emise) : Sait(q, f) /\ f.quoi \in B => \E i \in DOMAIN s : Porte(s[i], f)
  BY <1>2, <1>3
<1> QED BY <1>4, <1>5, <1>6 DEF Raconte

LEMMA RaconteEnDeux ==
  ASSUME NEW q, NEW T, NEW a \in Seq(T), NEW b \in Seq(T), NEW t, t = a \o b,
         NEW A, NEW B, NEW C, NEW D, C \subseteq A \cup B,
         Raconte(q, a, A, B), Raconte(q, b, C, D)
  PROVE  Raconte(q, t, A, B \cup D)
<1>1. Jointe(t, a, b) BY SuiteJointe
<1>2. /\ \A i \in DOMAIN a : i \in DOMAIN t /\ t[i] = a[i]
      /\ \A j \in DOMAIN b : Len(a) + j \in DOMAIN t /\ t[Len(a) + j] = b[j]
      /\ \A i \in DOMAIN t :
           \/ i \in DOMAIN a /\ t[i] = a[i]
           \/ \E j \in DOMAIN b : i = Len(a) + j /\ t[i] = b[j]
  BY <1>1 DEF Jointe
<1>3. /\ Len(a) \in Nat /\ DOMAIN a = 1..Len(a)
      /\ Len(b) \in Nat /\ DOMAIN b = 1..Len(b)
  OBVIOUS
<1>4. \A i \in DOMAIN t : Fidele(q, t[i]) BY <1>2 DEF Raconte
<1>5. ASSUME NEW f \in FaitDe(Emise), Sait(q, f), f.quoi \in B \cup D
      PROVE  \E i \in DOMAIN t : Porte(t[i], f)
  <2>1. CASE f.quoi \in B
    <3>1. PICK i \in DOMAIN a : Porte(a[i], f) BY <1>5, <2>1 DEF Raconte
    <3> QED BY <1>2, <3>1
  <2>2. CASE f.quoi \in D
    <3>1. PICK j \in DOMAIN b : Porte(b[j], f) BY <1>5, <2>2 DEF Raconte
    <3> QED BY <1>2, <3>1
  <2> QED BY <1>5, <2>1, <2>2
<1>6. ASSUME NEW i \in DOMAIN t, NEW f \in FaitDe(Emise), Requiert(t[i], f), f.quoi \notin A
      PROVE  \E j \in DOMAIN t : j < i /\ Porte(t[j], f)
  <2>1. CASE i \in DOMAIN a /\ t[i] = a[i]
    <3>1. PICK j \in DOMAIN a : j < i /\ Porte(a[j], f) BY <1>6, <2>1 DEF Raconte
    <3> QED BY <1>2, <3>1
  <2>2. ASSUME NEW m \in DOMAIN b, i = Len(a) + m, t[i] = b[m]
        PROVE  \E j \in DOMAIN t : j < i /\ Porte(t[j], f)
    <3>1. CASE f.quoi \in C
      <4>1. Sait(q, f) BY <1>4, <1>6 DEF Fidele
      <4>2. PICK j \in DOMAIN a : Porte(a[j], f) BY <1>6, <3>1, <4>1 DEF Raconte
      <4>3. j < i BY <1>3, <2>2
      <4> QED BY <1>2, <4>2, <4>3
    <3>2. CASE f.quoi \notin C
      <4>1. PICK j \in DOMAIN b : j < m /\ Porte(b[j], f) BY <1>6, <2>2, <3>2 DEF Raconte
      <4>2. Len(a) + j < i BY <1>3, <2>2, <4>1
      <4> QED BY <1>2, <4>1, <4>2
    <3> QED BY <3>1, <3>2
  <2> QED BY <1>2, <2>1, <2>2
<1> QED BY <1>4, <1>5, <1>6 DEF Raconte

\* Each operation of a sequence of sequences.
RacontentEnFiles(q, s, A, B) ==
  /\ \A k \in 1..Len(s) : \A i \in DOMAIN s[k] :
       /\ Fidele(q, s[k][i])
       /\ \A x \in FaitDe(Emise) : Requiert(s[k][i], x) => x.quoi \in A
  /\ \A x \in FaitDe(Emise) : Sait(q, x) /\ x.quoi \in B =>
       \E k \in 1..Len(s) : \E i \in DOMAIN s[k] : Porte(s[k][i], x)

LEMMA RaconteEnFiles ==
  ASSUME NEW q, NEW T, NEW s \in Seq(Seq(T)), NEW f, f = FlattenSeq(s), NEW A, NEW B,
         RacontentEnFiles(q, s, A, B)
  PROVE  f \in Seq(T) /\ Raconte(q, f, A, B)
<1>1. f \in Seq(T) /\ Reprend(f, s, Len(s)) BY AplatieReprend
<1>2. ASSUME NEW i \in DOMAIN f
      PROVE  /\ Fidele(q, f[i])
             /\ \A x \in FaitDe(Emise) : Requiert(f[i], x) => x.quoi \in A
  <2>1. PICK k \in 1..Len(s) : \E j \in DOMAIN s[k] : f[i] = s[k][j] BY <1>1 DEF Reprend
  <2> QED BY <2>1 DEF RacontentEnFiles
<1>3. ASSUME NEW x \in FaitDe(Emise), Sait(q, x), x.quoi \in B
      PROVE  \E i \in DOMAIN f : Porte(f[i], x)
  <2>1. PICK k \in 1..Len(s) : \E j \in DOMAIN s[k] : Porte(s[k][j], x)
    BY <1>3 DEF RacontentEnFiles
  <2>2. PICK j \in DOMAIN s[k] : Porte(s[k][j], x) BY <2>1
  <2>3. \E i \in DOMAIN f : f[i] = s[k][j] BY <1>1 DEF Reprend
  <2> QED BY <2>2, <2>3
<1> QED BY <1>1, <1>2, <1>3 DEF Raconte

LEMMA RaconteLesComptes ==
  ASSUME IInv, NEW q \in Racine, NEW d,
         d = [i \in DOMAIN SetToSeq(DOMAIN comptes[q]) |->
                [quoi |-> IF CompteEfface(q, SetToSeq(DOMAIN comptes[q])[i])
                            THEN "efface" ELSE "compte",
                 estampille |-> comptes[q][SetToSeq(DOMAIN comptes[q])[i]].estampille,
                 compte |-> SetToSeq(DOMAIN comptes[q])[i]]]
  PROVE  Raconte(q, d, {}, {"efface"})
<1> DEFINE S == DOMAIN comptes[q]
           g == [c \in S |-> [quoi |-> IF CompteEfface(q, c) THEN "efface" ELSE "compte",
                              estampille |-> comptes[q][c].estampille, compte |-> c]]
<1>1. S = Connus BY TousConnus DEF IInv, Locale
<1>2. IsFiniteSet(S) BY <1>1, DepartJuste DEF Connus, TableDe
<1>3. d = [i \in DOMAIN SetToSeq(S) |-> g[SetToSeq(S)[i]]] BY <1>2, SuiteLue
<1>4. ASSUME NEW c \in S
      PROVE  /\ Fidele(q, g[c])
             /\ \A f \in FaitDe(Emise) : ~Requiert(g[c], f)
             /\ \A f \in FaitDe(Emise) : f.quoi = "efface" /\ f.de = c /\ Sait(q, f) =>
                  Porte(g[c], f)
  <2>1. PICK o : o = g[c] OBVIOUS
  <2>2. /\ o.quoi = (IF CompteEfface(q, c) THEN "efface" ELSE "compte")
        /\ o.quoi \in {"efface", "compte"} /\ o.compte = c
    BY <2>1
  <2> HIDE DEF g
  <2>3. CompteEfface(q, c) <=> ~CompteVivant(q, c) BY DEF CompteEfface, CompteVivant
  <2>4. \A f : ~Requiert(o, f) BY <2>2 DEF Requiert
  <2>5. \A quoi, cle, valeur : ~DitPar(o, quoi, cle, valeur) BY <2>2 DEF DitPar
  <2>6. \A f : Porte(o, f) <=> f.quoi = "efface" /\ f.de = c /\ CompteEfface(q, c)
    BY <2>2 DEF Porte
  <2>7. Fidele(q, o) BY <2>3, <2>4, <2>5, <2>6 DEF Fidele, Sait
  <2> QED BY <2>1, <2>3, <2>4, <2>6, <2>7 DEF Sait
<1>5. \A f \in FaitDe(Emise) : Sait(q, f) /\ f.quoi \in {"efface"} =>
        \E c \in S : Porte(g[c], f)
  BY <1>1, <1>4, FaitLu
<1>6. PICK T : T = {g[c] : c \in S} OBVIOUS
<1>7. g \in [S -> T] BY <1>6
<1> HIDE DEF S, g
<1>8. \A c \in S : Fidele(q, g[c]) BY <1>4
<1>9. \A c \in S : \A f \in FaitDe(Emise) : Requiert(g[c], f) => f.quoi \in {} BY <1>4
<1> QED BY <1>2, <1>3, <1>5, <1>7, <1>8, <1>9, RaconteDUnEnsemble

LEMMA RaconteLesDomaines ==
  ASSUME IInv, NEW q \in Racine
  PROVE  Raconte(q, DitsDesDomaines(q), {}, {"domaine"} \cup {"supprime"})
<1> DEFINE T == OperationDe(Emise)
           S == DOMAIN domaines[q]
           M == {d \in DOMAIN domaines[q] : domaines[q][d].supprime # Aucune}
           g == [d \in S |-> [quoi |-> "domaine", estampille |-> domaines[q][d].estampille,
                              de |-> d, proprietaire |-> domaines[q][d].proprietaire]]
           h == [d \in M |-> [quoi |-> "supprime", estampille |-> domaines[q][d].supprime,
                              de |-> d]]
           a == [i \in DOMAIN SetToSeq(S) |->
                   [quoi |-> "domaine", estampille |-> domaines[q][SetToSeq(S)[i]].estampille,
                    de |-> SetToSeq(S)[i],
                    proprietaire |-> domaines[q][SetToSeq(S)[i]].proprietaire]]
           b == [i \in DOMAIN SetToSeq(M) |->
                   [quoi |-> "supprime", estampille |-> domaines[q][SetToSeq(M)[i]].supprime,
                    de |-> SetToSeq(M)[i]]]
<1>1. DitsDesDomaines(q) = a \o b BY DEF DitsDesDomaines
<1>2. IsFiniteSet(S) /\ M \subseteq S BY DEF IInv, Locale, DomainesJustes, TableDe
<1>3. IsFiniteSet(M) BY <1>2, FS_Subset
<1>4. ASSUME NEW d \in S
      PROVE  /\ g[d] \in T /\ Fidele(q, g[d])
             /\ \A f : ~Requiert(g[d], f)
             /\ \A f : f.quoi = "domaine" /\ f.de = d => Porte(g[d], f)
  <2>1. PICK o : o = g[d] OBVIOUS
  <2>2. /\ o = [quoi |-> "domaine", estampille |-> domaines[q][d].estampille, de |-> d,
                proprietaire |-> domaines[q][d].proprietaire]
        /\ o.quoi = "domaine" /\ o.de = d /\ o.proprietaire = domaines[q][d].proprietaire
    BY <2>1
  <2> HIDE DEF g
  <2>3. /\ d \in DomaineNe(Emise) /\ domaines[q][d].proprietaire \in Connus
        /\ domaines[q][d].estampille \in Emise /\ domaines[q][d].estampille = Naissance(d)
    BY DomaineType
  <2>4. o \in T
    <3>1. o \in AuxDomaines(Emise) BY <2>2, <2>3 DEF AuxDomaines
    <3> QED BY <3>1, Operations
  <2>5. \A f : ~Requiert(o, f) BY <2>2 DEF Requiert
  <2>6. \A quoi, cle, valeur : DitPar(o, quoi, cle, valeur) => DitIci(q, quoi, cle, valeur)
    BY <2>2 DEF DitPar, DitIci
  <2>7. \A f : Porte(o, f) <=> f.quoi = "domaine" /\ f.de = d BY <2>2 DEF Porte
  <2>8. Fidele(q, o) BY <2>5, <2>6, <2>7 DEF Fidele, Sait
  <2> QED BY <2>1, <2>4, <2>5, <2>7, <2>8
<1>5. ASSUME NEW d \in M
      PROVE  /\ h[d] \in T /\ Fidele(q, h[d])
             /\ \A f : Requiert(h[d], f) => f.quoi \in {"domaine"}
             /\ \A f : f.quoi = "supprime" /\ f.de = d /\ f.date = domaines[q][d].supprime =>
                  Porte(h[d], f)
  <2>1. PICK o : o = h[d] OBVIOUS
  <2>2. /\ o = [quoi |-> "supprime", estampille |-> domaines[q][d].supprime, de |-> d]
        /\ o.quoi = "supprime" /\ o.de = d /\ o.estampille = domaines[q][d].supprime
    BY <2>1
  <2> HIDE DEF h
  <2>3. d \in DOMAIN domaines[q] OBVIOUS
  <2>4. d \in Emise /\ domaines[q][d].supprime \in Emise BY DomaineType DEF DateOuNon
  <2>5. o \in T
    <3>1. o \in AuxDomaines(Emise) BY <2>2, <2>4 DEF AuxDomaines
    <3> QED BY <3>1, Operations
  <2>6. \A f : Requiert(o, f) <=> f.quoi = "domaine" /\ f.de = d BY <2>2 DEF Requiert
  <2>7. \A quoi, cle, valeur : ~DitPar(o, quoi, cle, valeur) BY <2>2 DEF DitPar
  <2>8. \A f : Porte(o, f) <=>
          f.quoi = "supprime" /\ f.de = d /\ f.date = domaines[q][d].supprime
    BY <2>2 DEF Porte
  <2>9. Fidele(q, o) BY <2>3, <2>6, <2>7, <2>8 DEF Fidele, Sait
  <2> QED BY <2>1, <2>5, <2>6, <2>8, <2>9
<1>6. /\ \A i \in DOMAIN SetToSeq(S) : SetToSeq(S)[i] \in S
      /\ \A i \in DOMAIN SetToSeq(M) : SetToSeq(M)[i] \in M
  BY <1>2, <1>3, SuiteLue
<1>7. a = [i \in DOMAIN SetToSeq(S) |-> g[SetToSeq(S)[i]]]
  <2> HIDE DEF S
  <2> QED BY <1>6
<1>8. b = [i \in DOMAIN SetToSeq(M) |-> h[SetToSeq(M)[i]]]
  <2> HIDE DEF M
  <2> QED BY <1>6
<1>9. \A f \in FaitDe(Emise) : Sait(q, f) /\ f.quoi \in {"domaine"} => \E d \in S : Porte(g[d], f)
  <2> HIDE DEF g
  <2> QED BY <1>4 DEF Sait
<1>10. \A f \in FaitDe(Emise) : Sait(q, f) /\ f.quoi \in {"supprime"} =>
         \E d \in M : Porte(h[d], f)
  <2> SUFFICES ASSUME NEW f \in FaitDe(Emise), Sait(q, f), f.quoi = "supprime"
               PROVE  \E d \in M : Porte(h[d], f)
    OBVIOUS
  <2>1. f.date # Aucune BY FaitDate, EmiseEstampilles
  <2>2. f.de \in M /\ f.date = domaines[q][f.de].supprime BY <2>1 DEF Sait
  <2> HIDE DEF h, M
  <2> QED BY <1>5, <2>2
<1>11. g \in [S -> T] /\ h \in [M -> T]
  <2>1. g \in [S -> T] BY <1>4
  <2>2. h \in [M -> T]
    <3> HIDE DEF T
    <3> QED BY <1>5
  <2> QED BY <2>1, <2>2
<1> HIDE DEF S, M, g, h, T, a, b
<1>12. a \in Seq(T) /\ b \in Seq(T) BY <1>2, <1>3, <1>7, <1>8, <1>11, SuiteDite
<1>13. Raconte(q, a, {}, {"domaine"})
  BY <1>2, <1>4, <1>7, <1>9, <1>11, RaconteDUnEnsemble
<1>14. Raconte(q, b, {"domaine"}, {"supprime"})
  BY <1>3, <1>5, <1>8, <1>10, <1>11, RaconteDUnEnsemble
<1>15. {"domaine"} \subseteq {} \cup {"domaine"} OBVIOUS
<1> QED BY <1>1, <1>12, <1>13, <1>14, <1>15, RaconteEnDeux

\* The group of a row is there.
LEMMA DuGroupeSu ==
  ASSUME NEW q \in Racine, NEW g, GroupeLa(q, g), NEW f, DuGroupe(g, f)
  PROVE  Sait(q, f) /\ f.quoi \in {"domaine", "groupe"}
BY DEF GroupeLa, Rangee, DuGroupe, Sait

\* An addition is told with its removal.
LEMMA AdhesionFidele ==
  ASSUME IInv, NEW q \in Racine, NEW a \in DOMAIN adhesions[q], NEW o,
         \/ o = [quoi |-> "membre", estampille |-> a.ajout, groupe |-> a.groupe,
                 compte |-> a.compte]
         \/ /\ adhesions[q][a] # Aucune
            /\ o = [quoi |-> "retire", estampille |-> adhesions[q][a],
                    groupe |-> a.groupe, compte |-> a.compte, ajout |-> a.ajout]
  PROVE  /\ Fidele(q, o)
         /\ \A f : Requiert(o, f) => f.quoi \in {"domaine", "groupe"}
         /\ \A f : f.quoi = "membre" /\ f.de = a => Porte(o, f)
         /\ \A f : /\ o.quoi = "retire" /\ f.quoi = "retire" /\ f.de = a
                   /\ f.date = adhesions[q][a]
                   => Porte(o, f)
<1>1. /\ a \in AdhesionDe(Emise) /\ GroupeLa(q, a.groupe)
  BY DEF IInv, Locale, AdhesionsJustes, TableDe
<1>2. /\ o.quoi \in {"membre", "retire"} /\ o.groupe = a.groupe /\ o.compte = a.compte
      /\ o.quoi = "membre" => o.estampille = a.ajout
      /\ o.quoi = "retire" => o.estampille = adhesions[q][a] /\ o.ajout = a.ajout
  OBVIOUS
<1>3. AjoutDe(o) = a
  <2>1. a = [groupe |-> a.groupe, compte |-> a.compte, ajout |-> a.ajout]
    BY <1>1 DEF AdhesionDe
  <2> QED BY <1>2, <2>1 DEF AjoutDe
<1>4. \A f : Requiert(o, f) => Sait(q, f) /\ f.quoi \in {"domaine", "groupe"}
  <2>1. \A f : Requiert(o, f) => DuGroupe(a.groupe, f) BY <1>2 DEF Requiert
  <2> QED BY <1>1, <2>1, DuGroupeSu
<1>5. \A quoi, cle, valeur : DitPar(o, quoi, cle, valeur) => DitIci(q, quoi, cle, valeur)
  BY <1>2, <1>3 DEF DitPar, DitIci
<1>6. \A f : Porte(o, f) <=>
        \/ f.quoi = "membre" /\ f.de = a
        \/ /\ o.quoi = "retire" /\ f.quoi = "retire" /\ f.de = a
           /\ f.date = adhesions[q][a]
  <2> HIDE DEF AjoutDe
  <2> QED BY <1>2, <1>3 DEF Porte
<1>7. \A f : Porte(o, f) => Sait(q, f) BY <1>6 DEF Sait
<1> QED BY <1>4, <1>5, <1>6, <1>7 DEF Fidele

\* The operations of an addition.
DitesDe(q, a) ==
  LET membre == [quoi |-> "membre", estampille |-> a.ajout, groupe |-> a.groupe,
                 compte |-> a.compte]
  IN IF adhesions[q][a] = Aucune THEN <<membre>>
       ELSE <<membre, [quoi |-> "retire", estampille |-> adhesions[q][a],
                       groupe |-> a.groupe, compte |-> a.compte, ajout |-> a.ajout]>>

LEMMA RaconteLesAdhesions ==
  ASSUME IInv, NEW q \in Racine, NEW A, A = DOMAIN adhesions[q], NEW k, NEW T,
         k \in [A -> Seq(T)],
         \A a \in A : k[a] = DitesDe(q, a),
         NEW s, s = [i \in DOMAIN SetToSeq(A) |-> k[SetToSeq(A)[i]]]
  PROVE  /\ FlattenSeq(s) \in Seq(T)
         /\ Raconte(q, FlattenSeq(s), {"domaine", "groupe"}, {"membre", "retire"})
<1>1. IsFiniteSet(A) BY DEF IInv, Locale, AdhesionsJustes, TableDe
<1>2. PICK l : l = SetToSeq(A) OBVIOUS
<1>3. /\ \A i \in DOMAIN l : l[i] \in A
      /\ \A x \in A : \E i \in DOMAIN l : l[i] = x
  BY <1>1, <1>2, SuiteDe, SuiteLue
<1>4. DOMAIN s = DOMAIN l /\ \A i \in DOMAIN l : s[i] = k[l[i]] BY <1>2
<1>5. s \in Seq(Seq(T))
  <2>1. PICK U : U = Seq(T) OBVIOUS
  <2>2. k \in [A -> U] BY <2>1
  <2>3. s \in Seq(U) BY <1>1, <2>2, SuiteDite
  <2> QED BY <2>1, <2>3
<1>6. DOMAIN s = 1..Len(s) BY <1>5
<1>7. ASSUME NEW a \in A
      PROVE  /\ \A i \in DOMAIN k[a] :
                  /\ Fidele(q, k[a][i])
                  /\ \A f \in FaitDe(Emise) : Requiert(k[a][i], f) =>
                       f.quoi \in {"domaine", "groupe"}
             /\ \A f \in FaitDe(Emise) :
                  Sait(q, f) /\ f.quoi \in {"membre", "retire"} /\ f.de = a =>
                    \E i \in DOMAIN k[a] : Porte(k[a][i], f)
  <2>1. PICK m : m = [quoi |-> "membre", estampille |-> a.ajout, groupe |-> a.groupe,
                      compte |-> a.compte]
    OBVIOUS
  <2>2. PICK o : o = [quoi |-> "retire", estampille |-> adhesions[q][a],
                      groupe |-> a.groupe, compte |-> a.compte, ajout |-> a.ajout]
    OBVIOUS
  <2>3. o.quoi = "retire" BY <2>2
  <2>4. PICK t : t = k[a] OBVIOUS
  <2>5. t = IF adhesions[q][a] = Aucune THEN <<m>> ELSE <<m, o>>
    BY <2>1, <2>2, <2>4 DEF DitesDe
  <2>6. /\ adhesions[q][a] = Aucune => DOMAIN t = {1} /\ t[1] = m
        /\ adhesions[q][a] # Aucune => DOMAIN t = {1, 2} /\ t[1] = m /\ t[2] = o
    BY <2>5
  <2>7. /\ Fidele(q, m)
        /\ \A f : Requiert(m, f) => f.quoi \in {"domaine", "groupe"}
        /\ \A f : f.quoi = "membre" /\ f.de = a => Porte(m, f)
    BY <2>1, AdhesionFidele
  <2>8. adhesions[q][a] # Aucune =>
        /\ Fidele(q, o)
        /\ \A f : Requiert(o, f) => f.quoi \in {"domaine", "groupe"}
        /\ \A f : f.quoi = "retire" /\ f.de = a /\ f.date = adhesions[q][a] => Porte(o, f)
    BY <2>2, <2>3, AdhesionFidele
  <2>9. ASSUME NEW f \in FaitDe(Emise), Sait(q, f), f.quoi \in {"membre", "retire"}, f.de = a
        PROVE  \E i \in DOMAIN t : Porte(t[i], f)
    <3>1. CASE f.quoi = "membre" BY <2>6, <2>7, <2>9, <3>1
    <3>2. CASE f.quoi = "retire"
      <4>1. f.date # Aucune BY <3>2, FaitDate, EmiseEstampilles
      <4>2. adhesions[q][a] = f.date BY <2>9, <3>2 DEF Sait
      <4> QED BY <2>6, <2>8, <2>9, <3>2, <4>1, <4>2
    <3> QED BY <2>9, <3>1, <3>2
  <2>10. \A i \in DOMAIN t :
           /\ Fidele(q, t[i])
           /\ \A f \in FaitDe(Emise) : Requiert(t[i], f) => f.quoi \in {"domaine", "groupe"}
    BY <2>6, <2>7, <2>8
  <2> QED BY <2>4, <2>9, <2>10
<1>8. \A j \in 1..Len(s) : \A i \in DOMAIN s[j] :
        /\ Fidele(q, s[j][i])
        /\ \A f \in FaitDe(Emise) : Requiert(s[j][i], f) => f.quoi \in {"domaine", "groupe"}
  BY <1>3, <1>4, <1>6, <1>7
<1>9. ASSUME NEW f \in FaitDe(Emise), Sait(q, f), f.quoi \in {"membre", "retire"}
      PROVE  \E j \in 1..Len(s) : \E i \in DOMAIN s[j] : Porte(s[j][i], f)
  <2>1. f.de \in A BY <1>9 DEF Sait
  <2>2. PICK j \in DOMAIN l : l[j] = f.de BY <1>3, <2>1
  <2>3. j \in 1..Len(s) /\ s[j] = k[f.de] BY <1>4, <1>6, <2>2
  <2>4. \E i \in DOMAIN k[f.de] : Porte(k[f.de][i], f) BY <1>7, <1>9, <2>1
  <2> QED BY <2>3, <2>4
<1>10. RacontentEnFiles(q, s, {"domaine", "groupe"}, {"membre", "retire"})
  BY <1>8, <1>9 DEF RacontentEnFiles
<1> QED BY <1>5, <1>10, RaconteEnFiles

LEMMA RaconteLesGroupes ==
  ASSUME IInv, NEW q \in Racine
  PROVE  Raconte(q, DitsDesGroupes(q), {"domaine"},
                 (({"groupe", "etiquette"} \cup {"dissous"}) \cup {"membre", "retire"}))
<1> DEFINE T == OperationDe(Emise)
           S == DOMAIN groupes[q]
           M == DOMAIN marques[q]
           A == DOMAIN adhesions[q]
           g == [x \in S |-> [quoi |-> "groupe", estampille |-> x, de |-> x,
                              domaine |-> groupes[q][x].domaine,
                              etiquette |-> groupes[q][x].etiquette]]
           h == [x \in M |-> [quoi |-> "dissous", estampille |-> marques[q][x], de |-> x]]
           k == [a \in A |-> DitesDe(q, a)]
           b1 == [i \in DOMAIN SetToSeq(S) |->
                    [quoi |-> "groupe", estampille |-> SetToSeq(S)[i], de |-> SetToSeq(S)[i],
                     domaine |-> groupes[q][SetToSeq(S)[i]].domaine,
                     etiquette |-> groupes[q][SetToSeq(S)[i]].etiquette]]
           b2 == [i \in DOMAIN SetToSeq(M) |->
                    [quoi |-> "dissous", estampille |-> marques[q][SetToSeq(M)[i]],
                     de |-> SetToSeq(M)[i]]]
           b3 == [i \in DOMAIN SetToSeq(A) |-> DitesDe(q, SetToSeq(A)[i])]
<1>1. DitsDesGroupes(q) = b1 \o b2 \o FlattenSeq(b3) BY DEF DitsDesGroupes, DitesDe
<1>2. GroupesJustes(q) /\ AdhesionsJustes(q) BY DEF IInv, Locale
<1>3. IsFiniteSet(S) /\ IsFiniteSet(M) /\ IsFiniteSet(A)
  BY <1>2 DEF GroupesJustes, AdhesionsJustes, TableDe
<1>4. ASSUME NEW x \in S
      PROVE  /\ g[x] \in T /\ Fidele(q, g[x])
             /\ \A f : Requiert(g[x], f) => f.quoi \in {"domaine"}
             /\ \A f : f.quoi = "groupe" /\ f.de = x => Porte(g[x], f)
             /\ \A f : /\ f.quoi = "etiquette" /\ f.de = x
                       /\ f.date = groupes[q][x].etiquette
                       => Porte(g[x], f)
  <2>1. PICK o : o = g[x] OBVIOUS
  <2>2. /\ o = [quoi |-> "groupe", estampille |-> x, de |-> x,
                domaine |-> groupes[q][x].domaine, etiquette |-> groupes[q][x].etiquette]
        /\ o.quoi = "groupe" /\ o.de = x /\ o.domaine = groupes[q][x].domaine
        /\ o.etiquette = groupes[q][x].etiquette
    BY <2>1
  <2> HIDE DEF g, T
  <2>3. /\ x \in Emise /\ groupes[q][x].domaine \in Emise /\ groupes[q][x].etiquette \in Emise
        /\ groupes[q][x].domaine \in DOMAIN domaines[q]
    BY <1>2 DEF GroupesJustes, TableDe, GroupeCree
  <2>4. o \in T
    <3>1. o \in AuxGroupes(Emise) BY <2>2, <2>3 DEF AuxGroupes
    <3> QED BY <3>1, Operations DEF T
  <2>5. \A f : Requiert(o, f) <=> f.quoi = "domaine" /\ f.de = groupes[q][x].domaine
    BY <2>2 DEF Requiert
  <2>6. \A quoi, cle, valeur : DitPar(o, quoi, cle, valeur) => DitIci(q, quoi, cle, valeur)
    BY <2>2 DEF DitPar, DitIci
  <2>7. \A f : Porte(o, f) <=>
          \/ f.quoi = "groupe" /\ f.de = x
          \/ f.quoi = "etiquette" /\ f.de = x /\ f.date = groupes[q][x].etiquette
    BY <2>2 DEF Porte
  <2>8. Fidele(q, o) BY <2>3, <2>5, <2>6, <2>7 DEF Fidele, Sait
  <2> QED BY <2>1, <2>4, <2>5, <2>7, <2>8
<1>5. ASSUME NEW x \in M
      PROVE  /\ h[x] \in T /\ Fidele(q, h[x])
             /\ \A f : ~Requiert(h[x], f)
             /\ \A f : f.quoi = "dissous" /\ f.de = x => Porte(h[x], f)
  <2>1. PICK o : o = h[x] OBVIOUS
  <2>2. /\ o = [quoi |-> "dissous", estampille |-> marques[q][x], de |-> x]
        /\ o.quoi = "dissous" /\ o.de = x
    BY <2>1
  <2> HIDE DEF h, T
  <2>3. x \in Emise /\ marques[q][x] \in Emise BY <1>2 DEF GroupesJustes, TableDe
  <2>4. o \in T
    <3>1. o \in AuxGroupes(Emise) BY <2>2, <2>3 DEF AuxGroupes
    <3> QED BY <3>1, Operations DEF T
  <2>5. \A f : ~Requiert(o, f) BY <2>2 DEF Requiert
  <2>6. \A quoi, cle, valeur : ~DitPar(o, quoi, cle, valeur) BY <2>2 DEF DitPar
  <2>7. \A f : Porte(o, f) <=> f.quoi = "dissous" /\ f.de = x BY <2>2 DEF Porte
  <2>8. Fidele(q, o) BY <2>5, <2>6, <2>7 DEF Fidele, Sait
  <2> QED BY <2>1, <2>4, <2>5, <2>7, <2>8
<1>6. k \in [A -> Seq(T)]
  <2> SUFFICES ASSUME NEW a \in A PROVE DitesDe(q, a) \in Seq(T) OBVIOUS
  <2> QED BY DitsAdhesion DEF DitesDe
<1>7. /\ \A i \in DOMAIN SetToSeq(S) : SetToSeq(S)[i] \in S
      /\ \A i \in DOMAIN SetToSeq(M) : SetToSeq(M)[i] \in M
      /\ \A i \in DOMAIN SetToSeq(A) : SetToSeq(A)[i] \in A
  BY <1>3, SuiteLue
<1>8. \A f \in FaitDe(Emise) : Sait(q, f) /\ f.quoi \in {"groupe", "etiquette"} =>
        \E x \in S : Porte(g[x], f)
  <2> HIDE DEF g
  <2> QED BY <1>4 DEF Sait
<1>9. \A f \in FaitDe(Emise) : Sait(q, f) /\ f.quoi \in {"dissous"} => \E x \in M : Porte(h[x], f)
  <2> HIDE DEF h
  <2> QED BY <1>5 DEF Sait
<1>10. \A a \in A : k[a] = DitesDe(q, a) OBVIOUS
<1> HIDE DEF S, M
<1>11. b1 = [i \in DOMAIN SetToSeq(S) |-> g[SetToSeq(S)[i]]] BY <1>7
<1>12. b2 = [i \in DOMAIN SetToSeq(M) |-> h[SetToSeq(M)[i]]] BY <1>7
<1>13. b3 = [i \in DOMAIN SetToSeq(A) |-> k[SetToSeq(A)[i]]]
  <2> HIDE DEF A
  <2> QED BY <1>7
<1>14. g \in [S -> T] /\ h \in [M -> T]
  <2> HIDE DEF T
  <2>1. g \in [S -> T] BY <1>4
  <2>2. h \in [M -> T] BY <1>5
  <2> QED BY <2>1, <2>2
<1>15. A = DOMAIN adhesions[q] OBVIOUS
<1> HIDE DEF g, h, k, T, b1, b2, b3, A
<1>16. b1 \in Seq(T) /\ b2 \in Seq(T) BY <1>3, <1>11, <1>12, <1>14, SuiteDite
<1>17. FlattenSeq(b3) \in Seq(T)
       /\ Raconte(q, FlattenSeq(b3), {"domaine", "groupe"}, {"membre", "retire"})
  BY <1>6, <1>10, <1>13, <1>15, RaconteLesAdhesions
<1>18. Raconte(q, b1, {"domaine"}, {"groupe", "etiquette"})
  BY <1>3, <1>4, <1>8, <1>11, <1>14, RaconteDUnEnsemble
<1>19. Raconte(q, b2, {}, {"dissous"})
  <2>1. \A x \in M : Fidele(q, h[x]) BY <1>5
  <2>2. \A x \in M : \A f \in FaitDe(Emise) : Requiert(h[x], f) => f.quoi \in {} BY <1>5
  <2> QED BY <1>3, <1>9, <1>12, <1>14, <2>1, <2>2, RaconteDUnEnsemble
<1>20. PICK c : c = b1 \o b2 OBVIOUS
<1>21. c \in Seq(T) BY <1>16, <1>20
<1>22. Raconte(q, c, {"domaine"}, {"groupe", "etiquette"} \cup {"dissous"})
  <2>1. {} \subseteq {"domaine"} \cup {"groupe", "etiquette"} OBVIOUS
  <2> QED BY <1>16, <1>18, <1>19, <1>20, <2>1, RaconteEnDeux
<1>23. DitsDesGroupes(q) = c \o FlattenSeq(b3) BY <1>1, <1>20
<1>24. {"domaine", "groupe"} \subseteq {"domaine"} \cup ({"groupe", "etiquette"} \cup {"dissous"})
  OBVIOUS
<1>25. PICK y : y = FlattenSeq(b3) OBVIOUS
<1>26. y \in Seq(T) /\ Raconte(q, y, {"domaine", "groupe"}, {"membre", "retire"})
  BY <1>17, <1>25
<1>27. PICK B : B = {"groupe", "etiquette"} \cup {"dissous"} OBVIOUS
<1>28. PICK X, Y, t : /\ X = {"domaine"} /\ Y = {"domaine", "groupe"}
                      /\ t = DitsDesGroupes(q)
  OBVIOUS
<1>29. PICK D : D = {"membre", "retire"} OBVIOUS
<1>30. Raconte(q, c, X, B) /\ Y \subseteq X \cup B BY <1>22, <1>24, <1>27, <1>28
<1>31. Raconte(q, y, Y, D) BY <1>26, <1>28, <1>29
<1>32. t = c \o y BY <1>23, <1>25, <1>28
<1>33. Raconte(q, t, X, B \cup D) BY <1>21, <1>26, <1>30, <1>31, <1>32, RaconteEnDeux
<1> QED BY <1>27, <1>28, <1>29, <1>33

LEMMA RaconteLesDroits ==
  ASSUME IInv, NEW q \in Racine, NEW s,
         s = [i \in DOMAIN SetToSeq(DOMAIN droits[q]) |->
                [quoi |-> "droit", estampille |-> SetToSeq(DOMAIN droits[q])[i],
                 enregistrement |-> droits[q][SetToSeq(DOMAIN droits[q])[i]]]]
  PROVE  Raconte(q, s, {"domaine", "groupe"}, {"droit"})
<1> DEFINE S == DOMAIN droits[q]
           g == [x \in S |-> [quoi |-> "droit", estampille |-> x,
                              enregistrement |-> droits[q][x]]]
<1>1. IsFiniteSet(S) BY DEF IInv, Locale, DroitsJustes, TableDe
<1>2. s = [i \in DOMAIN SetToSeq(S) |-> g[SetToSeq(S)[i]]] BY <1>1, SuiteLue
<1>3. ASSUME NEW x \in S
      PROVE  /\ Fidele(q, g[x])
             /\ \A f : Requiert(g[x], f) => f.quoi \in {"domaine", "groupe"}
             /\ \A f : f.quoi = "droit" /\ f.de = x => Porte(g[x], f)
  <2>1. PICK o : o = g[x] OBVIOUS
  <2>2. o.quoi = "droit" /\ o.estampille = x /\ o.enregistrement = droits[q][x] BY <2>1
  <2> HIDE DEF g
  <2>3. /\ GroupeLa(q, droits[q][x].groupe) /\ droits[q][x].element \in Elements(q)
    BY DEF IInv, Locale, DroitsJustes
  <2>4. droits[q][x].element.sorte = "domaine" => droits[q][x].element.de \in DOMAIN domaines[q]
    BY <2>3 DEF Elements, LeDomaine, LaMachine, LeCompte
  <2>5. ASSUME NEW f, Requiert(o, f) PROVE Sait(q, f) /\ f.quoi \in {"domaine", "groupe"}
    <3>1. CASE DuGroupe(droits[q][x].groupe, f) BY <2>3, <3>1, DuGroupeSu
    <3>2. CASE ~DuGroupe(droits[q][x].groupe, f)
      <4>1. /\ droits[q][x].element.sorte = "domaine" /\ f.quoi = "domaine"
            /\ f.de = droits[q][x].element.de
        BY <2>2, <2>5, <3>2 DEF Requiert
      <4> QED BY <2>4, <4>1 DEF Sait
    <3> QED BY <3>1, <3>2
  <2>6. \A quoi, cle, valeur : DitPar(o, quoi, cle, valeur) => DitIci(q, quoi, cle, valeur)
    BY <2>2 DEF DitPar, DitIci
  <2>7. \A f : Porte(o, f) <=> f.quoi = "droit" /\ f.de = x BY <2>2 DEF Porte
  <2>8. Fidele(q, o) BY <2>5, <2>6, <2>7 DEF Fidele, Sait
  <2> QED BY <2>1, <2>5, <2>7, <2>8
<1>4. \A f \in FaitDe(Emise) : Sait(q, f) /\ f.quoi \in {"droit"} => \E x \in S : Porte(g[x], f)
  <2> HIDE DEF g
  <2> QED BY <1>3 DEF Sait
<1>5. PICK T : T = {g[x] : x \in S} OBVIOUS
<1>6. g \in [S -> T] BY <1>5
<1> HIDE DEF S, g
<1>7. \A x \in S : \A f \in FaitDe(Emise) : Requiert(g[x], f) => f.quoi \in {"domaine", "groupe"}
  BY <1>3
<1>8. \A x \in S : Fidele(q, g[x]) BY <1>3
<1> QED BY <1>1, <1>2, <1>4, <1>6, <1>7, <1>8, RaconteDUnEnsemble

LEMMA RaconteLesPoses ==
  ASSUME IInv, NEW q \in Racine
  PROVE  Raconte(q, DitsDesPoses(q), {"domaine"}, {"pose"})
<1> DEFINE S == DOMAIN poses[q]
           g == [x \in S |-> Pose(x, poses[q][x].valeur, poses[q][x].estampille)]
<1>1. IsFiniteSet(S) BY DEF IInv, Locale, PosesJustes, TableDe
<1>2. DitsDesPoses(q) = [i \in DOMAIN SetToSeq(S) |-> g[SetToSeq(S)[i]]]
  BY <1>1, SuiteLue DEF DitsDesPoses
<1>3. ASSUME NEW x \in S
      PROVE  /\ Fidele(q, g[x])
             /\ \A f : Requiert(g[x], f) => f.quoi \in {"domaine"}
             /\ \A f : f.quoi = "pose" /\ f.de = x /\ f.date = poses[q][x].estampille =>
                  Porte(g[x], f)
  <2>1. PICK o : o = g[x] OBVIOUS
  <2>2. /\ o.quoi = "pose" /\ o.cle = x /\ o.valeur = poses[q][x].valeur
        /\ o.estampille = poses[q][x].estampille
    BY <2>1 DEF Pose
  <2> HIDE DEF g
  <2>3. Accueille(q, x) BY DEF IInv, Locale, PosesJustes
  <2>4. \A f : Requiert(o, f) <=> x.quoi = "alias" /\ f.quoi = "domaine" /\ f.de = x.de
    BY <2>2 DEF Requiert
  <2>5. \A f : Requiert(o, f) => Sait(q, f) /\ f.quoi \in {"domaine"}
    BY <2>3, <2>4 DEF Accueille, Sait
  <2>6. \A quoi, cle, valeur : DitPar(o, quoi, cle, valeur) => DitIci(q, quoi, cle, valeur)
    BY <2>2 DEF DitPar, DitIci
  <2>7. \A f : Porte(o, f) <=> f.quoi = "pose" /\ f.de = x /\ f.date = poses[q][x].estampille
    BY <2>2 DEF Porte
  <2>8. Fidele(q, o) BY <2>5, <2>6, <2>7 DEF Fidele, Sait
  <2> QED BY <2>1, <2>5, <2>7, <2>8
<1>4. \A f \in FaitDe(Emise) : Sait(q, f) /\ f.quoi \in {"pose"} => \E x \in S : Porte(g[x], f)
  <2> HIDE DEF g
  <2> QED BY <1>3 DEF Sait
<1>5. PICK T : T = {g[x] : x \in S} OBVIOUS
<1>6. g \in [S -> T] BY <1>5
<1> HIDE DEF S, g
<1>7. \A x \in S : \A f \in FaitDe(Emise) : Requiert(g[x], f) => f.quoi \in {"domaine"}
  BY <1>3
<1>8. \A x \in S : Fidele(q, g[x]) BY <1>3
<1> QED BY <1>1, <1>2, <1>4, <1>6, <1>7, <1>8, RaconteDUnEnsemble

\* The end frame tells nothing.
LEMMA FinRaconte ==
  ASSUME NEW q \in Racine, NEW s, s = <<Fin(q)>>
  PROVE  Raconte(q, s, {}, {})
<1>1. PICK o : o = Fin(q) OBVIOUS
<1>2. o.quoi = "fin" BY <1>1 DEF Fin
<1>3. DOMAIN s = {1} /\ s[1] = o
  <2>1. s = <<o>> BY <1>1
  <2> QED BY <2>1
<1>4. \A f : ~Requiert(o, f) /\ ~Porte(o, f) BY <1>2 DEF Requiert, Porte
<1>5. \A quoi, cle, valeur : ~DitPar(o, quoi, cle, valeur) BY <1>2 DEF DitPar
<1> QED BY <1>3, <1>4, <1>5 DEF Raconte, Fidele

LEMMA RaconteTout ==
  ASSUME IInv, NEW q \in Racine, NEW s, s = Instantane(q) \o <<Fin(q)>>
  PROVE  /\ \A i \in DOMAIN s : Fidele(q, s[i])
         /\ \A i \in DOMAIN s : \A f \in FaitDe(Emise) : Requiert(s[i], f) =>
              \E j \in DOMAIN s : j < i /\ Porte(s[j], f)
         /\ \A f \in FaitDe(Emise) : Sait(q, f) /\ f.quoi # "droitRetire" =>
              \E i \in DOMAIN s : Porte(s[i], f)
<1> DEFINE T == OperationDe(Emise)
           C == SetToSeq(DOMAIN comptes[q])
           D == SetToSeq(DOMAIN droits[q])
           a == [i \in DOMAIN C |->
                   [quoi |-> IF CompteEfface(q, C[i]) THEN "efface" ELSE "compte",
                    estampille |-> comptes[q][C[i]].estampille, compte |-> C[i]]]
           b == DitsDesDomaines(q)
           c == DitsDesGroupes(q)
           d == [i \in DOMAIN D |->
                   [quoi |-> "droit", estampille |-> D[i], enregistrement |-> droits[q][D[i]]]]
           e == DitsDesPoses(q)
           f1 == <<Fin(q)>>
<1>1. s = (a \o b \o c \o d \o e) \o f1
  <2>1. Instantane(q) = a \o b \o c \o d \o e BY ONLY DEF Instantane
  <2> HIDE DEF a, b, c, d, e, C, D
  <2> QED BY <2>1
<1>2. a \in Seq(T) /\ Raconte(q, a, {}, {"efface"}) BY DitsComptes, RaconteLesComptes
<1>3. b \in Seq(T) /\ Raconte(q, b, {}, {"domaine"} \cup {"supprime"})
  BY DitsDomaines, RaconteLesDomaines
<1>4. c \in Seq(T)
      /\ Raconte(q, c, {"domaine"},
                 (({"groupe", "etiquette"} \cup {"dissous"}) \cup {"membre", "retire"}))
  BY DitsGroupes, RaconteLesGroupes
<1>5. d \in Seq(T) /\ Raconte(q, d, {"domaine", "groupe"}, {"droit"})
  BY DitsDroits, RaconteLesDroits
<1>6. e \in Seq(T) /\ Raconte(q, e, {"domaine"}, {"pose"}) BY DitsPoses, RaconteLesPoses
<1>7. f1 \in Seq(T) /\ Raconte(q, f1, {}, {})
  <2>1. Fin(q) \in T
    <3>1. Fin(q).estampille \in Emise BY FinEmise DEF IInv, Voies
    <3>2. Fin(q) \in AuxDomaines(Emise) BY <3>1 DEF Fin, AuxDomaines
    <3> QED BY <3>2, Operations
  <2> HIDE DEF T
  <2>2. f1 \in Seq(T) BY <2>1
  <2> QED BY <2>2, FinRaconte
<1>8. PICK E0, E1, E2, E3, E4, E5, E6, E7 :
        /\ E0 = {} /\ E1 = {"efface"} /\ E2 = {"domaine"} \cup {"supprime"}
        /\ E3 = (({"groupe", "etiquette"} \cup {"dissous"}) \cup {"membre", "retire"})
        /\ E4 = {"droit"} /\ E5 = {"pose"} /\ E6 = {"domaine"} /\ E7 = {"domaine", "groupe"}
  OBVIOUS
<1> HIDE DEF T, C, D, a, b, c, d, e, f1
<1>9. PICK u, v, w, x, z, n : u = a /\ v = b /\ w = c /\ x = d /\ z = e /\ n = f1
  OBVIOUS
<1>10. /\ u \in Seq(T) /\ Raconte(q, u, E0, E1) /\ v \in Seq(T) /\ Raconte(q, v, E0, E2)
       /\ w \in Seq(T) /\ Raconte(q, w, E6, E3) /\ x \in Seq(T) /\ Raconte(q, x, E7, E4)
       /\ z \in Seq(T) /\ Raconte(q, z, E6, E5) /\ n \in Seq(T) /\ Raconte(q, n, E0, E0)
  <2>1. Raconte(q, u, E0, E1) /\ Raconte(q, v, E0, E2) BY <1>2, <1>3, <1>8, <1>9
  <2>2. Raconte(q, w, E6, E3) /\ Raconte(q, x, E7, E4) BY <1>4, <1>5, <1>8, <1>9
  <2>3. Raconte(q, z, E6, E5) /\ Raconte(q, n, E0, E0) BY <1>6, <1>7, <1>8, <1>9
  <2>4. /\ u \in Seq(T) /\ v \in Seq(T) /\ w \in Seq(T) /\ x \in Seq(T) /\ z \in Seq(T)
        /\ n \in Seq(T)
    BY <1>2, <1>3, <1>4, <1>5, <1>6, <1>7, <1>9
  <2> QED BY <2>1, <2>2, <2>3, <2>4
<1>20. PICK y1 : y1 = u \o v OBVIOUS
<1>21. PICK y2 : y2 = y1 \o w OBVIOUS
<1>22. PICK y3 : y3 = y2 \o x OBVIOUS
<1>23. PICK y4 : y4 = y3 \o z OBVIOUS
<1>11. s = y4 \o n BY <1>1, <1>9, <1>20, <1>21, <1>22, <1>23
<1>12. y1 \in Seq(T) /\ y2 \in Seq(T) /\ y3 \in Seq(T) /\ y4 \in Seq(T)
  <2>1. y1 \in Seq(T) BY <1>10, <1>20
  <2>2. y2 \in Seq(T) BY <1>10, <1>21, <2>1
  <2>3. y3 \in Seq(T) BY <1>10, <1>22, <2>2
  <2>4. y4 \in Seq(T) BY <1>10, <1>23, <2>3
  <2> QED BY <2>1, <2>2, <2>3, <2>4
<1>24. PICK F1, F2, F3, F4 :
         F1 = E1 \cup E2 /\ F2 = F1 \cup E3 /\ F3 = F2 \cup E4 /\ F4 = F3 \cup E5
  OBVIOUS
<1>25. /\ E0 \subseteq E0 \cup E1 /\ E6 \subseteq E0 \cup F1 /\ E7 \subseteq E0 \cup F2
       /\ E6 \subseteq E0 \cup F3 /\ E0 \subseteq E0 \cup F4
  BY <1>8, <1>24
<1>13. Raconte(q, y1, E0, F1) BY <1>10, <1>20, <1>24, <1>25, RaconteEnDeux
<1>14. Raconte(q, y2, E0, F2) BY <1>10, <1>12, <1>13, <1>21, <1>24, <1>25, RaconteEnDeux
<1>15. Raconte(q, y3, E0, F3) BY <1>10, <1>12, <1>14, <1>22, <1>24, <1>25, RaconteEnDeux
<1>16. Raconte(q, y4, E0, F4) BY <1>10, <1>12, <1>15, <1>23, <1>24, <1>25, RaconteEnDeux
<1>17. Raconte(q, s, E0, F4 \cup E0) BY <1>10, <1>11, <1>12, <1>16, <1>25, RaconteEnDeux
<1>18. \A f \in FaitDe(Emise) : f.quoi # "droitRetire" =>
         f.quoi \in F4 \cup E0
  BY <1>8, <1>24, FaitLu
<1>19. \A x1 : x1 \notin E0 BY <1>8
<1> QED BY <1>17, <1>18, <1>19 DEF Raconte

\* What is in the tables of a root is known there.
LEMMA SaitSu ==
  ASSUME IInv, NEW q \in Racine, NEW f \in FaitDe(Emise), Sait(q, f)
  PROVE  Su(q, f)
<1>1. f.quoi \in {"supprime", "etiquette", "droitRetire", "retire", "pose"} =>
        f.date # Aucune /\ ~Avant(f.date, f.date)
  BY FaitLu, FaitDate, EmiseEstampilles, OrdreTotal
<1> QED BY <1>1 DEF Sait, Su, Tient, Marquee

LEMMA AmorcageAccorde ==
  ASSUME IInv, IInv', Accord, NEW r \in Racine, \A q \in Racine : Tenus(q), Amorcer(r)
  PROVE  Accord'
<1>1. PICK q : q = Pair[r] OBVIOUS
<1>2. /\ q \in Racine /\ q # r /\ Pair[q] = r
      /\ \A x \in Racine : Pair[x] = r <=> x = q
      /\ \A x \in Racine : Pair[x] \in Racine
  BY <1>1, DeuxRacines
<1>3. AmorcerPar(r, Instantane(q)) /\ UNCHANGED tables BY <1>1 DEF Amorcer
<1>4. PICK s : s = Instantane(q) \o <<Fin(q)>> OBVIOUS
<1>5. /\ enRoute'[r] = s /\ \A x \in Racine : x # r => enRoute'[x] = enRoute[x]
      /\ compteur' = compteur /\ amorcages' = amorcages + 1 /\ amorcages' # 0
  <2>1. enRoute \in [Racine -> Seq(OperationDe(Emise))] /\ amorcages \in Nat BY DEF IInv, Voies
  <2>2. /\ enRoute' = [enRoute EXCEPT ![r] = s] /\ amorcages' = amorcages + 1
        /\ compteur' = compteur
    BY <1>1, <1>3, <1>4 DEF AmorcerPar
  <2>3. amorcages + 1 # 0 BY <2>1
  <2> QED BY <2>1, <2>2, <2>3
<1>6. Emise' = Emise BY <1>5 DEF Emise
<1>7. \A x \in Racine : MemesTables(x) BY <1>3, RienDeChange
<1>8. /\ \A i \in DOMAIN s : Fidele(q, s[i])
      /\ \A i \in DOMAIN s : \A f \in FaitDe(Emise) : Requiert(s[i], f) =>
           \E j \in DOMAIN s : j < i /\ Porte(s[j], f)
      /\ \A f \in FaitDe(Emise) : Sait(q, f) /\ f.quoi # "droitRetire" =>
           \E i \in DOMAIN s : Porte(s[i], f)
  BY <1>2, <1>4, RaconteTout
<1>9. ASSUME NEW quoi, NEW cle, NEW valeur, EstDit(quoi, cle, valeur)'
      PROVE  EstDit(quoi, cle, valeur)
  <2>1. PICK x \in Racine :
          \/ DitIci(x, quoi, cle, valeur)'
          \/ \E i \in DOMAIN enRoute'[x] : DitPar(enRoute'[x][i], quoi, cle, valeur)
    BY <1>9 DEF EstDit, DitPar, AjoutDe
  <2>2. CASE DitIci(x, quoi, cle, valeur)'
    <3>1. DitIci(x, quoi, cle, valeur) BY <1>7, <2>2, MemesTablesDisent
    <3> QED BY <3>1 DEF EstDit
  <2>3. ASSUME NEW i \in DOMAIN enRoute'[x], DitPar(enRoute'[x][i], quoi, cle, valeur)
        PROVE  EstDit(quoi, cle, valeur)
    <3>1. CASE x = r
      <4>1. i \in DOMAIN s /\ DitPar(s[i], quoi, cle, valeur) BY <1>5, <2>3, <3>1
      <4>2. DitIci(q, quoi, cle, valeur) BY <1>8, <4>1 DEF Fidele
      <4> QED BY <1>2, <4>2 DEF EstDit
    <3>2. CASE x # r
      <4>1. i \in DOMAIN enRoute[x] /\ DitPar(enRoute[x][i], quoi, cle, valeur)
        BY <1>5, <2>3, <3>2
      <4> QED BY <4>1 DEF EstDit
    <3> QED BY <3>1, <3>2
  <2> QED BY <2>1, <2>2, <2>3
<1>10. \A x \in Racine : Garde(x) BY <1>7, <1>9, MemesTablesGardent DEF DitsRestent
<1>11. DitUneFois'
  <2> SUFFICES ASSUME NEW quoi, NEW cle, NEW v, NEW w, EstDit(quoi, cle, v)',
                      EstDit(quoi, cle, w)'
               PROVE  v = w
    BY DEF DitUneFois
  <2>1. EstDit(quoi, cle, v) /\ EstDit(quoi, cle, w) BY <1>9
  <2> QED BY <2>1 DEF Accord, DitUneFois
<1>12. JamaisDOffice'
  <2> SUFFICES ASSUME NEW a, EstDit("adhesion", a, a)'
               PROVE  /\ a.groupe.sorte # "personnel"
                      /\ a.groupe.sorte = "administrateurs" =>
                           ~EstDit("domaine", a.groupe.de, a.compte)'
    BY DEF JamaisDOffice
  <2>1. EstDit("adhesion", a, a) BY <1>9
  <2> QED BY <1>9, <2>1 DEF Accord, JamaisDOffice
<1>13. SansRetraits' BY <1>5 DEF SansRetraits
<1>14. ASSUME NEW x \in Racine PROVE Ecrit(x)'
  <2> SUFFICES ASSUME NEW i \in DOMAIN enRoute'[Pair[x]], NEW f \in FaitDe(Emise'),
                      Porte(enRoute'[Pair[x]][i], f)
               PROVE  Su(x, f)'
    BY DEF Ecrit
  <2>1. f \in FaitDe(Emise) BY <1>6
  <2>2. CASE x = q
    <3>1. i \in DOMAIN s /\ Porte(s[i], f) BY <1>2, <1>5, <2>2
    <3>2. Sait(q, f) BY <1>8, <2>1, <3>1 DEF Fidele
    <3>3. Su(q, f) BY <1>2, <2>1, <3>2, SaitSu
    <3> QED BY <1>10, <2>1, <2>2, <3>3 DEF Garde
  <2>3. CASE x # q
    <3>1. enRoute'[Pair[x]] = enRoute[Pair[x]] BY <1>2, <1>5, <2>3
    <3>2. i \in DOMAIN enRoute[Pair[x]] /\ Porte(enRoute[Pair[x]][i], f) BY <3>1
    <3>3. Su(x, f) BY <2>1, <3>2 DEF Accord, Ecrit
    <3> QED BY <1>10, <2>1, <3>3 DEF Garde
  <2> QED BY <2>2, <2>3
<1>15. ASSUME NEW x \in Racine PROVE Couvert(x)'
  <2> SUFFICES ASSUME NEW f \in FaitDe(Emise'), Sait(Pair[x], f)',
                      f.quoi = "droitRetire" => amorcages' = 0
               PROVE  Su(x, f)' \/ \E i \in DOMAIN enRoute'[x] : Porte(enRoute'[x][i], f)
    BY DEF Couvert, Porte, AjoutDe
  <2>1. f \in FaitDe(Emise) /\ f.quoi # "droitRetire" BY <1>5, <1>6
  <2>2. Sait(Pair[x], f) BY <1>2, <1>7, MemesTablesSavent
  <2>3. CASE x = r BY <1>1, <1>5, <1>8, <2>1, <2>2, <2>3
  <2>4. CASE x # r
    <3>1. Su(x, f) \/ \E i \in DOMAIN enRoute[x] : Porte(enRoute[x][i], f)
      BY <2>1, <2>2 DEF Accord, Couvert
    <3> QED BY <1>5, <1>10, <2>1, <2>4, <3>1 DEF Garde
  <2> QED BY <2>3, <2>4
<1>16. ASSUME NEW x \in Racine PROVE Ordonne(x)'
  <2> SUFFICES ASSUME NEW i \in DOMAIN enRoute'[x], NEW f \in FaitDe(Emise'),
                      Requiert(enRoute'[x][i], f)
               PROVE  Su(x, f)' \/ \E j \in DOMAIN enRoute'[x] : j < i /\ Porte(enRoute'[x][j], f)
    BY DEF Ordonne, Precede
  <2>1. f \in FaitDe(Emise) BY <1>6
  <2>2. CASE x = r
    <3>1. i \in DOMAIN s /\ Requiert(s[i], f) BY <1>5, <2>2
    <3>2. \E j \in DOMAIN s : j < i /\ Porte(s[j], f) BY <1>8, <2>1, <3>1
    <3> QED BY <1>5, <2>2, <3>2
  <2>3. CASE x # r
    <3>1. i \in DOMAIN enRoute[x] /\ Requiert(enRoute[x][i], f) BY <1>5, <2>3
    <3>2. Su(x, f) \/ \E j \in DOMAIN enRoute[x] : j < i /\ Porte(enRoute[x][j], f)
      BY <2>1, <3>1 DEF Accord, Ordonne, Precede
    <3> QED BY <1>5, <1>10, <2>1, <2>3, <3>2 DEF Garde
  <2> QED BY <2>2, <2>3
<1> QED BY <1>11, <1>12, <1>13, <1>14, <1>15, <1>16 DEF Accord

-----------------------------------------------------------------------------
(* The agreement holds.                                                    *)

LEMMA AccordDepart ==
  ASSUME Neuves = {}, Init
  PROVE  Accord
<1>1. /\ enRoute = [q \in Racine |-> <<>>]
      /\ comptes = [q \in Racine |-> Depart.comptes]
      /\ domaines = [q \in Racine |-> Depart.domaines]
      /\ poses = [q \in Racine |-> Depart.poses]
      /\ groupes = [q \in Racine |-> Depart.groupes]
      /\ marques = [q \in Racine |-> <<>>]
      /\ adhesions = [q \in Racine |-> Depart.adhesions]
      /\ droits = [q \in Racine |-> Depart.droits]
  BY DEF Init, Au
<1>2. IInv BY PasInit
<1>3. \A r \in Racine : \A i : i \notin DOMAIN enRoute[r]
  <2>1. PICK vide : vide = <<>> OBVIOUS
  <2>2. DOMAIN vide = {} BY <2>1
  <2>3. \A r \in Racine : enRoute[r] = vide BY <1>1, <2>1
  <2> QED BY <2>2, <2>3
<1>4. ASSUME NEW r \in Racine
      PROVE  /\ comptes[r] = Depart.comptes /\ domaines[r] = Depart.domaines
             /\ poses[r] = Depart.poses /\ groupes[r] = Depart.groupes
             /\ adhesions[r] = Depart.adhesions /\ droits[r] = Depart.droits
  BY <1>1
<1>5. \A r, q \in Racine :
        /\ comptes[r] = comptes[q] /\ domaines[r] = domaines[q] /\ poses[r] = poses[q]
        /\ groupes[r] = groupes[q] /\ marques[r] = marques[q]
        /\ adhesions[r] = adhesions[q] /\ droits[r] = droits[q]
  BY <1>1
<1>6. \A quoi, cle, valeur : EstDit(quoi, cle, valeur) =>
        \E r \in Racine : DitIci(r, quoi, cle, valeur)
  BY <1>3 DEF EstDit
<1>7. DitUneFois
  <2> SUFFICES ASSUME NEW quoi, NEW cle, NEW v, NEW w, EstDit(quoi, cle, v),
                      EstDit(quoi, cle, w)
               PROVE  v = w
    BY DEF DitUneFois
  <2>1. PICK r \in Racine : DitIci(r, quoi, cle, v) BY <1>6
  <2>2. PICK q \in Racine : DitIci(q, quoi, cle, w) BY <1>6
  <2>3. DitIci(r, quoi, cle, w)
    <3>1. /\ domaines[r] = domaines[q] /\ poses[r] = poses[q] /\ groupes[r] = groupes[q]
          /\ adhesions[r] = adhesions[q] /\ droits[r] = droits[q]
      BY <1>5
    <3> QED BY <2>2, <3>1 DEF DitIci
  <2> QED BY <2>1, <2>3 DEF DitIci
<1>8. JamaisDOffice
  <2> SUFFICES ASSUME NEW a, EstDit("adhesion", a, a)
               PROVE  /\ a.groupe.sorte # "personnel"
                      /\ a.groupe.sorte = "administrateurs" =>
                           ~EstDit("domaine", a.groupe.de, a.compte)
    BY DEF JamaisDOffice
  <2>1. PICK r \in Racine : a \in DOMAIN adhesions[r] BY <1>6 DEF DitIci
  <2>2. a \in DOMAIN Depart.adhesions BY <1>4, <2>1
  <2>3. a.groupe \in GroupesDeDepart BY <2>2, DroitsAssumption DEF EstTable
  <2>4. \/ \E g \in DOMAIN Depart.groupes : a.groupe = DuDomaine(g)
        \/ \E d \in DOMAIN Depart.domaines : a.groupe = Administrateurs(d)
    BY <2>3 DEF GroupesDeDepart
  <2>8. /\ \A g : DuDomaine(g).sorte = "domaine"
        /\ \A d : Administrateurs(d).sorte = "administrateurs"
    BY DEF DuDomaine, Administrateurs
  <2>7. a.groupe.sorte = "administrateurs" =>
          \E d \in DOMAIN Depart.domaines : a.groupe = Administrateurs(d)
    BY <2>4, <2>8
  <2>5. ASSUME EstDit("domaine", a.groupe.de, a.compte), a.groupe.sorte = "administrateurs"
        PROVE  FALSE
    <3>1. PICK d \in DOMAIN Depart.domaines : a.groupe = Administrateurs(d)
      BY <2>5, <2>7
    <3>2. a.groupe.de = d BY <3>1 DEF Administrateurs
    <3>3. a.compte = Depart.domaines[d].proprietaire BY <1>4, <1>6, <2>5, <3>2 DEF DitIci
    <3>4. a.compte # Depart.domaines[d].proprietaire BY <2>2, <3>1, DroitsAssumption
    <3> QED BY <3>3, <3>4
  <2>6. a.groupe.sorte # "personnel" BY <2>4, <2>8
  <2> QED BY <2>5, <2>6
<1>9. SansRetraits BY <1>3 DEF SansRetraits
<1>10. \A r \in Racine : Pair[r] \in Racine BY DeuxRacines
<1>11. ASSUME NEW r \in Racine PROVE Ecrit(r) BY <1>3, <1>10 DEF Ecrit
<1>12. ASSUME NEW r \in Racine PROVE Couvert(r)
  <2> SUFFICES ASSUME NEW f \in FaitDe(Emise), Sait(Pair[r], f) PROVE Su(r, f)
    BY DEF Couvert
  <2>1. PICK q \in Racine : q = Pair[r] BY <1>10
  <2>2. Sait(r, f)
    <3>1. /\ comptes[r] = comptes[q] /\ domaines[r] = domaines[q] /\ poses[r] = poses[q]
          /\ groupes[r] = groupes[q] /\ marques[r] = marques[q]
          /\ adhesions[r] = adhesions[q] /\ droits[r] = droits[q]
      BY <1>5
    <3>2. Sait(q, f) BY <2>1
    <3> QED BY <3>1, <3>2 DEF Sait, CompteVivant
  <2> QED BY <1>2, <2>2, SaitSu
<1>13. ASSUME NEW r \in Racine PROVE Ordonne(r) BY <1>3 DEF Ordonne
<1> QED BY <1>7, <1>8, <1>9, <1>11, <1>12, <1>13 DEF Accord

LEMMA AccordSuivant == IInv /\ Accord /\ [Next]_vars => Accord'
<1> SUFFICES ASSUME IInv, Accord, [Next]_vars PROVE Accord' OBVIOUS
<1>1. IInv' BY PasSuivant
<1>2. \A r \in Racine : Tenus(r) BY PasTenu
<1>3. CASE UNCHANGED vars
  <2>1. /\ compteur' = compteur /\ enRoute' = enRoute /\ amorcages' = amorcages
        /\ comptes' = comptes /\ domaines' = domaines /\ poses' = poses
        /\ groupes' = groupes /\ marques' = marques /\ adhesions' = adhesions
        /\ droits' = droits
    BY <1>3 DEF vars, voie, tables, tablesDesDomaines, tablesDesGroupes
  <2>2. Emise' = Emise BY <2>1 DEF Emise
  <2>3. \A r, c : CompteVivant(r, c)' <=> CompteVivant(r, c) BY <2>1 DEF CompteVivant
  <2>4. \A r, m : MachineLa(r, m)' <=> MachineLa(r, m) BY <2>3 DEF MachineLa
  <2>5. \A quoi, cle, valeur : EstDit(quoi, cle, valeur)' <=> EstDit(quoi, cle, valeur)
    BY <2>1 DEF EstDit, DitIci, DitPar, AjoutDe
  <2>6. DitsRestent BY <2>5 DEF DitsRestent
  <2>7. \A q \in Racine : MemesTables(q) BY <2>1 DEF MemesTables
  <2>8. \A q \in Racine : Garde(q) BY <1>1, <1>2, <2>6, <2>7, MemesTablesGardent
  <2>9. DitUneFois' /\ JamaisDOffice' BY <2>5 DEF Accord, DitUneFois, JamaisDOffice
  <2>10. SansRetraits' BY <2>1 DEF Accord, SansRetraits
  <2>11. \A q \in Racine : Pair[q] \in Racine BY DeuxRacines
  <2>12. ASSUME NEW q \in Racine PROVE Ecrit(q)'
    <3> SUFFICES ASSUME NEW i \in DOMAIN enRoute'[Pair[q]], NEW f \in FaitDe(Emise'),
                        Porte(enRoute'[Pair[q]][i], f)
                 PROVE  Su(q, f)'
      BY DEF Ecrit
    <3>1. Su(q, f) /\ f \in FaitDe(Emise) BY <2>1, <2>2 DEF Accord, Ecrit
    <3> QED BY <2>8, <3>1 DEF Garde
  <2>13. ASSUME NEW q \in Racine PROVE Couvert(q)'
    <3> SUFFICES ASSUME NEW f \in FaitDe(Emise'), Sait(Pair[q], f)',
                        f.quoi = "droitRetire" => amorcages' = 0
                 PROVE  Su(q, f)' \/ \E i \in DOMAIN enRoute'[q] : Porte(enRoute'[q][i], f)
      BY DEF Couvert, Porte, AjoutDe
    <3>1. Sait(Pair[q], f) BY <2>7, <2>11, MemesTablesSavent
    <3>2. f \in FaitDe(Emise) BY <2>2
    <3>3. Su(q, f) \/ \E i \in DOMAIN enRoute[q] : Porte(enRoute[q][i], f)
      BY <2>1, <3>1, <3>2 DEF Accord, Couvert
    <3> QED BY <2>1, <2>8, <3>2, <3>3 DEF Garde
  <2>14. ASSUME NEW q \in Racine PROVE Ordonne(q)'
    <3> SUFFICES ASSUME NEW i \in DOMAIN enRoute'[q], NEW f \in FaitDe(Emise'),
                        Requiert(enRoute'[q][i], f)
                 PROVE  Su(q, f)'
                        \/ \E j \in DOMAIN enRoute'[q] : j < i /\ Porte(enRoute'[q][j], f)
      BY DEF Ordonne, Precede
    <3>1. f \in FaitDe(Emise) BY <2>2
    <3>2. Su(q, f) \/ \E j \in DOMAIN enRoute[q] : j < i /\ Porte(enRoute[q][j], f)
      BY <2>1, <3>1 DEF Accord, Ordonne, Precede
    <3> QED BY <2>1, <2>8, <3>1, <3>2 DEF Garde
  <2> QED BY <2>9, <2>10, <2>12, <2>13, <2>14 DEF Accord
<1>4. CASE Next
  <2>1. PICK r \in Racine : (\E c : Demander(r, c)) \/ Recevoir(r) \/ Amorcer(r)
    BY <1>4 DEF Next
  <2> QED BY <1>1, <1>2, <2>1, DemandeAccorde, ReceptionsAccordent, AmorcageAccorde
<1> QED BY <1>3, <1>4

LEMMA AccordInvariant ==
  ASSUME Neuves = {}
  PROVE  Spec => [](IInv /\ Accord)
<1>1. Init => IInv /\ Accord BY PasInit, AccordDepart
<1>2. IInv /\ Accord /\ [Next]_vars => (IInv /\ Accord)' BY PasSuivant, AccordSuivant
<1> QED BY <1>1, <1>2, PTL DEF Spec

-----------------------------------------------------------------------------
(* What a root has is not closed.                                          *)

\* The fact is about a row of q.
Presente(q, f) ==
  \/ f.quoi = "efface"
  \/ f.quoi \in {"domaine", "supprime"} /\ f.de \in DOMAIN domaines[q]
  \/ f.quoi \in {"groupe", "etiquette", "dissous"} /\ f.de \in DOMAIN groupes[q]
  \/ f.quoi \in {"membre", "retire"} /\ f.de \in DOMAIN adhesions[q]
  \/ f.quoi \in {"droit", "droitRetire"} /\ f.de \in DOMAIN droits[q]
  \/ f.quoi = "pose" /\ f.de \in DOMAIN poses[q]

\* The accounts of q are alive on r, and no group of q is deleted on r alone.
Ouvert(q, r) ==
  /\ \A c : CompteVivant(q, c) => CompteVivant(r, c)
  /\ \A g \in DOMAIN groupes[q] : g \in DOMAIN marques[r] => g \in DOMAIN marques[q]

LEMMA RangeesOuvertes ==
  ASSUME IInv, NEW q \in Racine, NEW r \in Racine,
         \A c : CompteVivant(q, c) => CompteVivant(r, c)
  PROVE  /\ \A d \in DOMAIN domaines[q] : ~DomaineClos(r, d)
         /\ \A g \in DOMAIN groupes[q] : ~CreeClos(r, g)
<1>1. DomainesJustes(q) /\ GroupesJustes(q) BY DEF IInv, Locale
<1>2. ASSUME NEW d \in DOMAIN domaines[q] PROVE ~DomaineClos(r, d)
  <2>1. PICK c : c = domaines[q][d].proprietaire OBVIOUS
  <2>2. EstDit("domaine", d, c) BY <2>1 DEF EstDit, DitIci
  <2>3. CompteVivant(r, c) BY <1>1, <2>1 DEF DomainesJustes
  <2> QED BY <2>2, <2>3 DEF DomaineClos
<1>3. ASSUME NEW g \in DOMAIN groupes[q] PROVE ~CreeClos(r, g)
  <2>1. PICK d : d = groupes[q][g].domaine OBVIOUS
  <2>2. EstDit("groupe", g, d) BY <2>1 DEF EstDit, DitIci
  <2>3. d \in DOMAIN domaines[q] BY <1>1, <2>1 DEF GroupesJustes
  <2> QED BY <1>2, <2>2, <2>3 DEF CreeClos
<1> QED BY <1>2, <1>3

LEMMA GroupeOuvert ==
  ASSUME IInv, NEW q \in Racine, NEW r \in Racine, Ouvert(q, r), NEW g, GroupeLa(q, g)
  PROVE  ~GroupeClos(r, g)
<1>1. /\ \A d \in DOMAIN domaines[q] : ~DomaineClos(r, d)
      /\ \A x \in DOMAIN groupes[q] : ~CreeClos(r, x)
  BY RangeesOuvertes DEF Ouvert
<1>2. Rangee(q, g) /\ ~Marque(q, g) BY DEF GroupeLa
<1>3. CASE g.sorte = "domaine"
  <2>1. g.de \in DOMAIN groupes[q] BY <1>2, <1>3 DEF Rangee
  <2>2. g.de \notin DOMAIN marques[q] BY <1>2, <1>3 DEF Marque
  <2>3. g.de \notin DOMAIN marques[r] BY <2>1, <2>2 DEF Ouvert
  <2> QED BY <1>1, <1>3, <2>1, <2>3 DEF GroupeClos
<1>4. CASE g.sorte = "administrateurs"
  <2>1. g.de \in DOMAIN domaines[q] BY <1>2, <1>4 DEF Rangee
  <2> QED BY <1>1, <1>4, <2>1 DEF GroupeClos
<1>5. CASE g.sorte = "personnel"
  <2>1. CompteVivant(r, g.de) BY <1>2, <1>5 DEF Rangee, Ouvert
  <2> QED BY <1>5, <2>1 DEF GroupeClos
<1> QED BY <1>3, <1>4, <1>5 DEF GroupeClos

LEMMA PresentePasClose ==
  ASSUME IInv, NEW q \in Racine, NEW r \in Racine, Ouvert(q, r), NEW f, Presente(q, f)
  PROVE  ~Clos(r, f)
<1>1. /\ \A d \in DOMAIN domaines[q] : ~DomaineClos(r, d)
      /\ \A x \in DOMAIN groupes[q] : ~CreeClos(r, x)
  BY RangeesOuvertes DEF Ouvert
<1>2. AdhesionsJustes(q) /\ DroitsJustes(q) /\ PosesJustes(q) BY DEF IInv, Locale
<1>3. \A m : MachineLa(q, m) => MachineLa(r, m) BY DEF Ouvert, MachineLa
<1>4. CASE f.quoi = "efface" BY <1>4 DEF Clos
<1>5. CASE f.quoi \in {"domaine", "supprime"}
  <2>1. f.de \in DOMAIN domaines[q] BY <1>5 DEF Presente
  <2> QED BY <1>1, <1>5, <2>1 DEF Clos
<1>6. CASE f.quoi \in {"groupe", "etiquette", "dissous"}
  <2>1. f.de \in DOMAIN groupes[q] BY <1>6 DEF Presente
  <2> QED BY <1>1, <1>6, <2>1 DEF Clos
<1>7. CASE f.quoi \in {"membre", "retire"}
  <2>1. f.de \in DOMAIN adhesions[q] BY <1>7 DEF Presente
  <2>2. CompteVivant(q, f.de.compte) /\ GroupeLa(q, f.de.groupe)
    BY <1>2, <2>1 DEF AdhesionsJustes
  <2>3. ~AjoutClos(r, f.de) BY <2>2, GroupeOuvert DEF AjoutClos, Ouvert
  <2> QED BY <1>7, <2>3 DEF Clos
<1>8. CASE f.quoi \in {"droit", "droitRetire"}
  <2>1. f.de \in DOMAIN droits[q] BY <1>8 DEF Presente
  <2>2. PICK droit : droit = droits[q][f.de] OBVIOUS
  <2>3. /\ droit \in DroitDe(Emise) /\ CompteVivant(q, droit.par)
        /\ GroupeLa(q, droit.groupe) /\ droit.element \in Elements(q)
    BY <1>2, <2>1, <2>2, DroitType DEF DroitsJustes
  <2>4. PICK autre : autre = SansSonRetrait(droit) OBVIOUS
  <2>5. /\ autre.par = droit.par /\ autre.groupe = droit.groupe
        /\ autre.element = droit.element
    BY <2>3, <2>4 DEF SansSonRetrait, DroitDe
  <2>6. EstDit("droit", f.de, autre) BY <2>1, <2>2, <2>4 DEF EstDit, DitIci
  <2>7. ~ElementClos(r, droit.element)
    <3>1. PICK x : x = droit.element OBVIOUS
    <3>2. \/ \E d \in DOMAIN domaines[q] : x = LeDomaine(d)
          \/ \E m \in DOMAIN Machines : MachineLa(q, m) /\ x = LaMachine(m)
          \/ \E c \in DOMAIN comptes[q] : CompteVivant(q, c) /\ x = LeCompte(c)
      BY <2>3, <3>1 DEF Elements
    <3>3. CASE \E d \in DOMAIN domaines[q] : x = LeDomaine(d)
      <4>1. x.sorte = "domaine" /\ x.de \in DOMAIN domaines[q] BY <3>3 DEF LeDomaine
      <4> QED BY <1>1, <3>1, <4>1 DEF ElementClos
    <3>4. CASE \E m \in DOMAIN Machines : MachineLa(q, m) /\ x = LaMachine(m)
      <4>1. x.sorte = "machine" /\ MachineLa(q, x.de) BY <3>4 DEF LaMachine
      <4> QED BY <1>3, <3>1, <4>1 DEF ElementClos
    <3>5. CASE \E c \in DOMAIN comptes[q] : CompteVivant(q, c) /\ x = LeCompte(c)
      <4>1. x.sorte = "compte" /\ CompteVivant(q, x.de) BY <3>5 DEF LeCompte
      <4> QED BY <3>1, <4>1 DEF ElementClos, Ouvert
    <3> QED BY <3>2, <3>3, <3>4, <3>5
  <2>8. ~RangeeClose(r, autre) BY <2>3, <2>5, <2>7, GroupeOuvert DEF RangeeClose, Ouvert
  <2> QED BY <1>8, <2>6, <2>8 DEF Clos, DroitClos
<1>9. CASE f.quoi = "pose"
  <2>1. f.de \in DOMAIN poses[q] BY <1>9 DEF Presente
  <2>2. Accueille(q, f.de) BY <1>2, <2>1 DEF PosesJustes
  <2>3. ~CleClose(r, f.de) BY <1>1, <1>3, <2>2 DEF Accueille, CleClose
  <2> QED BY <1>9, <2>3 DEF Clos
<1> QED BY <1>4, <1>5, <1>6, <1>7, <1>8, <1>9 DEF Presente

\* What is known about a row that is there is in the tables.
LEMMA SuDoncTient ==
  ASSUME IInv, NEW r \in Racine, NEW f, Presente(r, f), Su(r, f)
  PROVE  Tient(r, f)
<1>1. Ouvert(r, r) BY DEF Ouvert
<1> QED BY <1>1, PresentePasClose DEF Su

-----------------------------------------------------------------------------
(* The removals are in effect.                                             *)

LEMMA RetraitsTenus ==
  ASSUME IInv, Accord, NEW q \in Racine
  PROVE  RetireEnEffet(q) /\ (amorcages = 0 => RetraitDeDroitEnEffet(q))
<1>1. PICK r \in Racine : r = Pair[q] /\ q = Pair[r] BY DeuxRacines
<1>2. ASSUME NEW f \in FaitDe(Emise), Sait(q, f), Presente(r, f),
             f.quoi = "droitRetire" => amorcages = 0
      PROVE  Tient(r, f) \/ \E o \in Range(enRoute[r]) : Porte(o, f)
  <2>1. Su(r, f) \/ \E i \in DOMAIN enRoute[r] : Porte(enRoute[r][i], f)
    BY <1>1, <1>2 DEF Accord, Couvert
  <2>2. \A i \in DOMAIN enRoute[r] : enRoute[r][i] \in Range(enRoute[r]) BY DEF Range
  <2> QED BY <1>2, <2>1, <2>2, SuDoncTient
<1>3. ASSUME NEW a \in DOMAIN adhesions[q], adhesions[q][a] # Aucune, a \in DOMAIN adhesions[r]
      PROVE  \/ adhesions[r][a] # Aucune
             \/ \E o \in Range(enRoute[r]) :
                  o.quoi = "retire" /\ o.groupe = a.groupe /\ o.compte = a.compte
                    /\ o.ajout = a.ajout
  <2>1. a \in AdhesionDe(Emise) /\ adhesions[q][a] \in Emise
    BY <1>3, RangeesLues DEF DateOuNon
  <2>2. PICK f : f = [quoi |-> "retire", de |-> a, date |-> adhesions[q][a]] OBVIOUS
  <2>3. f \in FaitDe(Emise) /\ f.quoi = "retire" /\ f.de = a /\ f.date = adhesions[q][a]
    BY <2>1, <2>2 DEF FaitDe
  <2>4. Sait(q, f) /\ Presente(r, f) BY <1>3, <2>3 DEF Sait, Presente
  <2>5. CASE Tient(r, f) BY <2>3, <2>5 DEF Tient, Marquee
  <2>6. ASSUME NEW o \in Range(enRoute[r]), Porte(o, f)
        PROVE  o.quoi = "retire" /\ o.groupe = a.groupe /\ o.compte = a.compte
                 /\ o.ajout = a.ajout
    <3>1. o.quoi = "retire" /\ a = AjoutDe(o) BY <2>3, <2>6 DEF Porte
    <3> QED BY <3>1 DEF AjoutDe
  <2> QED BY <1>2, <2>3, <2>4, <2>5, <2>6
<1>4. ASSUME NEW d \in DOMAIN domaines[q] \cap DOMAIN domaines[r],
             domaines[q][d].supprime # Aucune
      PROVE  \/ domaines[r][d].supprime # Aucune
             \/ \E o \in Range(enRoute[r]) : o.quoi = "supprime" /\ o.de = d
  <2>1. d \in Emise /\ domaines[q][d].supprime \in Emise
    BY <1>4, RangeesLues DEF DateOuNon
  <2>2. PICK f : f = [quoi |-> "supprime", de |-> d, date |-> domaines[q][d].supprime] OBVIOUS
  <2>3. f \in FaitDe(Emise) /\ f.quoi = "supprime" /\ f.de = d
        /\ f.date = domaines[q][d].supprime
    BY <2>1, <2>2 DEF FaitDe
  <2>4. Sait(q, f) /\ Presente(r, f) BY <1>4, <2>3 DEF Sait, Presente
  <2>5. CASE Tient(r, f) BY <2>3, <2>5 DEF Tient, Marquee
  <2>6. \A o : Porte(o, f) => o.quoi = "supprime" /\ o.de = d BY <2>3 DEF Porte
  <2> QED BY <1>2, <2>3, <2>4, <2>5, <2>6
<1>5. ASSUME NEW g \in DOMAIN marques[q], g \in DOMAIN groupes[r]
      PROVE  \/ g \in DOMAIN marques[r]
             \/ \E o \in Range(enRoute[r]) : o.quoi = "dissous" /\ o.de = g
  <2>1. g \in Emise BY RangeesLues
  <2>2. PICK f : f = [quoi |-> "dissous", de |-> g, date |-> Aucune] OBVIOUS
  <2>3. f \in FaitDe(Emise) /\ f.quoi = "dissous" /\ f.de = g BY <2>1, <2>2 DEF FaitDe
  <2>4. Sait(q, f) /\ Presente(r, f) BY <1>5, <2>3 DEF Sait, Presente
  <2>5. CASE Tient(r, f) BY <2>3, <2>5 DEF Tient
  <2>6. \A o : Porte(o, f) => o.quoi = "dissous" /\ o.de = g BY <2>3 DEF Porte
  <2> QED BY <1>2, <2>3, <2>4, <2>5, <2>6
<1>6. ASSUME amorcages = 0, NEW d \in DOMAIN droits[q] \cap DOMAIN droits[r],
             droits[q][d].retire # Aucune
      PROVE  \/ droits[r][d].retire # Aucune
             \/ \E o \in Range(enRoute[r]) : o.quoi = "droitRetire" /\ o.droit = d
  <2>1. d \in Emise /\ droits[q][d].retire \in Emise BY <1>6, RangeesLues DEF DateOuNon
  <2>2. PICK f : f = [quoi |-> "droitRetire", de |-> d, date |-> droits[q][d].retire] OBVIOUS
  <2>3. f \in FaitDe(Emise) /\ f.quoi = "droitRetire" /\ f.de = d
        /\ f.date = droits[q][d].retire
    BY <2>1, <2>2 DEF FaitDe
  <2>4. Sait(q, f) /\ Presente(r, f) BY <1>6, <2>3 DEF Sait, Presente
  <2>5. CASE Tient(r, f) BY <2>3, <2>5 DEF Tient, Marquee
  <2>6. \A o : Porte(o, f) => o.quoi = "droitRetire" /\ o.droit = d BY <2>3 DEF Porte
  <2> QED BY <1>2, <1>6, <2>3, <2>4, <2>5, <2>6
<1>7. RetireEnEffet(q) BY <1>1, <1>3, <1>4, <1>5 DEF RetireEnEffet
<1>8. amorcages = 0 => RetraitDeDroitEnEffet(q) BY <1>1, <1>6 DEF RetraitDeDroitEnEffet
<1> QED BY <1>7, <1>8

\* A removal that is written on one root, and that nothing brings any more, is in effect
\* on the other: a withdrawn member, a deleted group, a deleted domain, and a withdrawn
\* right as long as no snapshot was read (groupes.rs 441, domaines.rs 421, droits.rs 276).
THEOREM DroitsRetraitsEnEffet ==
  ASSUME Neuves = {}
  PROVE  Spec => []RetraitsEnEffet
<1>1. IInv /\ Accord => RetraitsEnEffet BY RetraitsTenus DEF RetraitsEnEffet
<1> QED BY <1>1, AccordInvariant, PTL

-----------------------------------------------------------------------------
(* Nothing is on its way: both roots hold the same.                        *)

LEMMA ComptesDAccord ==
  ASSUME IInv, Accord, RienEnRoute, NEW q \in Racine
  PROVE  Ouvert(q, Pair[q])
<1>1. PICK r \in Racine : r = Pair[q] /\ q = Pair[r] BY DeuxRacines
<1>2. ASSUME NEW f \in FaitDe(Emise), Sait(r, f), f.quoi # "droitRetire", Presente(q, f)
      PROVE  Tient(q, f)
  <2>1. Su(q, f) \/ \E i \in DOMAIN enRoute[q] : Porte(enRoute[q][i], f)
    BY <1>1, <1>2 DEF Accord, Couvert
  <2>2. enRoute[q] = <<>> BY DEF RienEnRoute
  <2>3. Su(q, f) BY <2>1, <2>2
  <2> QED BY <1>2, <2>3, SuDoncTient
<1>3. ASSUME NEW c, CompteVivant(q, c), ~CompteVivant(r, c) PROVE FALSE
  <2>1. c \in Connus BY <1>3, TousConnus DEF IInv, Locale
  <2>2. PICK f : f = [quoi |-> "efface", de |-> c, date |-> Aucune] OBVIOUS
  <2>3. f \in FaitDe(Emise) /\ f.quoi = "efface" /\ f.de = c BY <2>1, <2>2 DEF FaitDe
  <2>4. Sait(r, f) /\ Presente(q, f) BY <1>3, <2>3 DEF Sait, Presente
  <2>5. Tient(q, f) BY <1>2, <2>3, <2>4
  <2> QED BY <1>3, <2>3, <2>5 DEF Tient
<1>4. ASSUME NEW g \in DOMAIN groupes[q], g \in DOMAIN marques[r]
      PROVE  g \in DOMAIN marques[q]
  <2>1. g \in Emise BY RangeesLues
  <2>2. PICK f : f = [quoi |-> "dissous", de |-> g, date |-> Aucune] OBVIOUS
  <2>3. f \in FaitDe(Emise) /\ f.quoi = "dissous" /\ f.de = g BY <2>1, <2>2 DEF FaitDe
  <2>4. Sait(r, f) /\ Presente(q, f) BY <1>4, <2>3 DEF Sait, Presente
  <2>5. Tient(q, f) BY <1>2, <2>3, <2>4
  <2> QED BY <2>3, <2>5 DEF Tient
<1> QED BY <1>1, <1>3, <1>4 DEF Ouvert

\* What q knows, r holds; the withdrawals of rights as long as no snapshot was read.
Dans(q, r) ==
  /\ \A d \in DOMAIN domaines[q] :
       /\ d \in DOMAIN domaines[r]
       /\ domaines[q][d].supprime # Aucune =>
            Marquee(domaines[r][d].supprime, domaines[q][d].supprime)
  /\ \A g \in DOMAIN groupes[q] :
       g \in DOMAIN groupes[r] /\ ~Avant(groupes[r][g].etiquette, groupes[q][g].etiquette)
  /\ \A a \in DOMAIN adhesions[q] :
       /\ a \in DOMAIN adhesions[r]
       /\ adhesions[q][a] # Aucune => Marquee(adhesions[r][a], adhesions[q][a])
  /\ \A d \in DOMAIN droits[q] :
       /\ d \in DOMAIN droits[r]
       /\ amorcages = 0 /\ droits[q][d].retire # Aucune =>
            Marquee(droits[r][d].retire, droits[q][d].retire)
  /\ \A k \in DOMAIN poses[q] :
       k \in DOMAIN poses[r] /\ ~Avant(poses[r][k].estampille, poses[q][k].estampille)

LEMMA ToutEstDans ==
  ASSUME IInv, Accord, RienEnRoute, NEW q \in Racine
  PROVE  Dans(q, Pair[q])
<1>1. PICK r \in Racine : r = Pair[q] /\ q = Pair[r] BY DeuxRacines
<1>2. ASSUME NEW f \in FaitDe(Emise), Sait(q, f), Presente(q, f),
             f.quoi = "droitRetire" => amorcages = 0
      PROVE  Tient(r, f)
  <2>1. Su(r, f) \/ \E i \in DOMAIN enRoute[r] : Porte(enRoute[r][i], f)
    BY <1>1, <1>2 DEF Accord, Couvert
  <2>2. enRoute[r] = <<>> BY DEF RienEnRoute
  <2>3. Su(r, f) BY <2>1, <2>2
  <2>4. Ouvert(q, r) BY <1>1, ComptesDAccord
  <2>5. ~Clos(r, f) BY <1>2, <2>4, PresentePasClose
  <2> QED BY <2>3, <2>5 DEF Su
<1>3. ASSUME NEW d \in DOMAIN domaines[q]
      PROVE  /\ d \in DOMAIN domaines[r]
             /\ domaines[q][d].supprime # Aucune =>
                  Marquee(domaines[r][d].supprime, domaines[q][d].supprime)
  <2>1. d \in Emise /\ domaines[q][d].supprime \in DateOuNon(Emise) BY RangeesLues
  <2>2. PICK f : f = [quoi |-> "domaine", de |-> d, date |-> Aucune] OBVIOUS
  <2>3. f \in FaitDe(Emise) /\ f.quoi = "domaine" /\ f.de = d BY <2>1, <2>2 DEF FaitDe
  <2>4. Tient(r, f) BY <1>2, <2>3 DEF Sait, Presente
  <2>5. ASSUME domaines[q][d].supprime # Aucune
        PROVE  Marquee(domaines[r][d].supprime, domaines[q][d].supprime)
    <3>1. PICK e : e = domaines[q][d].supprime OBVIOUS
    <3>2. e \in Emise BY <2>1, <2>5, <3>1 DEF DateOuNon
    <3>3. PICK h : h = [quoi |-> "supprime", de |-> d, date |-> e] OBVIOUS
    <3>4. h \in FaitDe(Emise) /\ h.quoi = "supprime" /\ h.de = d /\ h.date = e
      BY <2>1, <3>2, <3>3 DEF FaitDe
    <3>5. Tient(r, h) BY <1>2, <3>1, <3>4 DEF Sait, Presente
    <3> QED BY <3>1, <3>4, <3>5 DEF Tient
  <2> QED BY <2>3, <2>4, <2>5 DEF Tient
<1>4. ASSUME NEW g \in DOMAIN groupes[q]
      PROVE  g \in DOMAIN groupes[r] /\ ~Avant(groupes[r][g].etiquette, groupes[q][g].etiquette)
  <2>1. g \in Emise /\ groupes[q][g].etiquette \in Emise BY RangeesLues
  <2>2. PICK e : e = groupes[q][g].etiquette OBVIOUS
  <2>3. PICK h : h = [quoi |-> "etiquette", de |-> g, date |-> e] OBVIOUS
  <2>4. h \in FaitDe(Emise) /\ h.quoi = "etiquette" /\ h.de = g /\ h.date = e
    BY <2>1, <2>2, <2>3 DEF FaitDe
  <2>5. Tient(r, h) BY <1>2, <2>2, <2>4 DEF Sait, Presente
  <2> QED BY <2>2, <2>4, <2>5 DEF Tient
<1>5. ASSUME NEW a \in DOMAIN adhesions[q]
      PROVE  /\ a \in DOMAIN adhesions[r]
             /\ adhesions[q][a] # Aucune => Marquee(adhesions[r][a], adhesions[q][a])
  <2>1. a \in AdhesionDe(Emise) /\ adhesions[q][a] \in DateOuNon(Emise) BY RangeesLues
  <2>2. PICK f : f = [quoi |-> "membre", de |-> a, date |-> Aucune] OBVIOUS
  <2>3. f \in FaitDe(Emise) /\ f.quoi = "membre" /\ f.de = a BY <2>1, <2>2 DEF FaitDe
  <2>4. Tient(r, f) BY <1>2, <2>3 DEF Sait, Presente
  <2>5. ASSUME adhesions[q][a] # Aucune
        PROVE  Marquee(adhesions[r][a], adhesions[q][a])
    <3>1. PICK e : e = adhesions[q][a] OBVIOUS
    <3>2. e \in Emise BY <2>1, <2>5, <3>1 DEF DateOuNon
    <3>3. PICK h : h = [quoi |-> "retire", de |-> a, date |-> e] OBVIOUS
    <3>4. h \in FaitDe(Emise) /\ h.quoi = "retire" /\ h.de = a /\ h.date = e
      BY <2>1, <3>2, <3>3 DEF FaitDe
    <3>5. Tient(r, h) BY <1>2, <3>1, <3>4 DEF Sait, Presente
    <3> QED BY <3>1, <3>4, <3>5 DEF Tient
  <2> QED BY <2>3, <2>4, <2>5 DEF Tient
<1>6. ASSUME NEW d \in DOMAIN droits[q]
      PROVE  /\ d \in DOMAIN droits[r]
             /\ amorcages = 0 /\ droits[q][d].retire # Aucune =>
                  Marquee(droits[r][d].retire, droits[q][d].retire)
  <2>1. d \in Emise /\ droits[q][d].retire \in DateOuNon(Emise) BY RangeesLues
  <2>2. PICK f : f = [quoi |-> "droit", de |-> d, date |-> Aucune] OBVIOUS
  <2>3. f \in FaitDe(Emise) /\ f.quoi = "droit" /\ f.de = d BY <2>1, <2>2 DEF FaitDe
  <2>4. Tient(r, f) BY <1>2, <2>3 DEF Sait, Presente
  <2>5. ASSUME amorcages = 0, droits[q][d].retire # Aucune
        PROVE  Marquee(droits[r][d].retire, droits[q][d].retire)
    <3>1. PICK e : e = droits[q][d].retire OBVIOUS
    <3>2. e \in Emise BY <2>1, <2>5, <3>1 DEF DateOuNon
    <3>3. PICK h : h = [quoi |-> "droitRetire", de |-> d, date |-> e] OBVIOUS
    <3>4. h \in FaitDe(Emise) /\ h.quoi = "droitRetire" /\ h.de = d /\ h.date = e
      BY <2>1, <3>2, <3>3 DEF FaitDe
    <3>5. Tient(r, h) BY <1>2, <2>5, <3>1, <3>4 DEF Sait, Presente
    <3> QED BY <3>1, <3>4, <3>5 DEF Tient
  <2> QED BY <2>3, <2>4, <2>5 DEF Tient
<1>7. ASSUME NEW k \in DOMAIN poses[q]
      PROVE  k \in DOMAIN poses[r] /\ ~Avant(poses[r][k].estampille, poses[q][k].estampille)
  <2>1. k \in CleDe(Emise) /\ poses[q][k].estampille \in Emise BY RangeesLues
  <2>2. PICK e : e = poses[q][k].estampille OBVIOUS
  <2>3. PICK h : h = [quoi |-> "pose", de |-> k, date |-> e] OBVIOUS
  <2>4. h \in FaitDe(Emise) /\ h.quoi = "pose" /\ h.de = k /\ h.date = e
    BY <2>1, <2>2, <2>3 DEF FaitDe
  <2>5. Tient(r, h) BY <1>2, <2>2, <2>4 DEF Sait, Presente
  <2> QED BY <2>2, <2>4, <2>5 DEF Tient
<1>8. Dans(q, r) BY ONLY <1>3, <1>4, <1>5, <1>6, <1>7 DEF Dans
<1> QED BY <1>1, <1>8

LEMMA MarquesEgales ==
  ASSUME NEW a \in DateOuNon(Emise), NEW b \in DateOuNon(Emise),
         a # Aucune => Marquee(b, a), b # Aucune => Marquee(a, b)
  PROVE  a = b
<1>1. a # Aucune => a \in Estampille BY DEF DateOuNon, Emise
<1>2. b # Aucune => b \in Estampille BY DEF DateOuNon, Emise
<1> QED BY <1>1, <1>2, OrdreTotal DEF Marquee

\* Two tables with the same rows are equal.
LEMMA MemesRangees ==
  ASSUME NEW S, NEW T, NEW U, NEW V, NEW f, NEW g, TableDe(f, S, T), TableDe(g, U, V),
         \A x \in DOMAIN f : x \in DOMAIN g /\ f[x] = g[x],
         \A x \in DOMAIN g : x \in DOMAIN f
  PROVE  f = g
BY DEF TableDe

LEMMA DomainesEgaux ==
  ASSUME IInv, Accord, NEW q \in Racine, NEW r \in Racine, Dans(q, r), Dans(r, q)
  PROVE  domaines[q] = domaines[r]
<1>1. TableDe(domaines[q], DomaineNe(Emise), RangeeDeDomaine(Emise))
      /\ TableDe(domaines[r], DomaineNe(Emise), RangeeDeDomaine(Emise))
  BY DEF IInv, Locale, DomainesJustes
<1>2. ASSUME NEW d \in DOMAIN domaines[q]
      PROVE  d \in DOMAIN domaines[r] /\ domaines[q][d] = domaines[r][d]
  <2>1. PICK x : x = domaines[q][d] OBVIOUS
  <2>2. PICK y : y = domaines[r][d] OBVIOUS
  <2>3. d \in DOMAIN domaines[r] BY DEF Dans
  <2>4. x \in RangeeDeDomaine(Emise) /\ y \in RangeeDeDomaine(Emise)
    BY <1>1, <2>1, <2>2, <2>3 DEF TableDe
  <2>5. x.supprime \in DateOuNon(Emise) /\ y.supprime \in DateOuNon(Emise)
    BY <2>4 DEF RangeeDeDomaine
  <2>6. /\ x.supprime # Aucune => Marquee(y.supprime, x.supprime)
        /\ y.supprime # Aucune => Marquee(x.supprime, y.supprime)
    BY <2>1, <2>2, <2>3 DEF Dans
  <2>7. x.supprime = y.supprime BY <2>5, <2>6, MarquesEgales
  <2>8. x.estampille = y.estampille BY <2>1, <2>2, <2>3, DomaineType
  <2>9. x.proprietaire = y.proprietaire
    <3>1. PICK v : v = x.proprietaire OBVIOUS
    <3>2. PICK w : w = y.proprietaire OBVIOUS
    <3>3. EstDit("domaine", d, v) BY <2>1, <3>1 DEF EstDit, DitIci
    <3>4. EstDit("domaine", d, w) BY <2>2, <2>3, <3>2 DEF EstDit, DitIci
    <3> QED BY <3>1, <3>2, <3>3, <3>4 DEF Accord, DitUneFois
  <2>10. x = y BY <2>4, <2>7, <2>8, <2>9 DEF RangeeDeDomaine
  <2> QED BY <2>1, <2>2, <2>3, <2>10
<1>3. \A d \in DOMAIN domaines[r] : d \in DOMAIN domaines[q] BY DEF Dans
<1> QED BY <1>1, <1>2, <1>3, MemesRangees

LEMMA PosesEgales ==
  ASSUME IInv, Accord, NEW q \in Racine, NEW r \in Racine, Dans(q, r), Dans(r, q)
  PROVE  poses[q] = poses[r]
<1>1. TableDe(poses[q], CleDe(Emise), PoseDe(Emise))
      /\ TableDe(poses[r], CleDe(Emise), PoseDe(Emise))
  BY DEF IInv, Locale, PosesJustes
<1>2. ASSUME NEW k \in DOMAIN poses[q]
      PROVE  k \in DOMAIN poses[r] /\ poses[q][k] = poses[r][k]
  <2>1. PICK x : x = poses[q][k] OBVIOUS
  <2>2. PICK y : y = poses[r][k] OBVIOUS
  <2>3. k \in DOMAIN poses[r] BY DEF Dans
  <2>4. x \in PoseDe(Emise) /\ y \in PoseDe(Emise)
    BY <1>1, <2>1, <2>2, <2>3 DEF TableDe
  <2>5. x.estampille \in Estampille /\ y.estampille \in Estampille BY <2>4 DEF PoseDe, Emise
  <2>6. ~Avant(x.estampille, y.estampille) /\ ~Avant(y.estampille, x.estampille)
    BY <2>1, <2>2, <2>3 DEF Dans
  <2>7. x.estampille = y.estampille BY <2>5, <2>6, OrdreTotal
  <2>8. x.valeur = y.valeur
    <3>1. PICK v : v = x.valeur OBVIOUS
    <3>2. PICK w : w = y.valeur OBVIOUS
    <3>3. PICK cle : cle = [de |-> k, date |-> x.estampille] OBVIOUS
    <3>4. cle.de = k /\ cle.date = x.estampille BY <3>3
    <3>5. EstDit("pose", cle, v) BY <2>1, <3>1, <3>4 DEF EstDit, DitIci
    <3>6. EstDit("pose", cle, w) BY <2>2, <2>3, <2>7, <3>2, <3>4 DEF EstDit, DitIci
    <3> QED BY <3>1, <3>2, <3>5, <3>6 DEF Accord, DitUneFois
  <2>9. x = y BY <2>4, <2>7, <2>8 DEF PoseDe
  <2> QED BY <2>1, <2>2, <2>3, <2>9
<1>3. \A k \in DOMAIN poses[r] : k \in DOMAIN poses[q] BY DEF Dans
<1> QED BY <1>1, <1>2, <1>3, MemesRangees

LEMMA GroupesEgaux ==
  ASSUME IInv, Accord, NEW q \in Racine, NEW r \in Racine, Dans(q, r), Dans(r, q)
  PROVE  groupes[q] = groupes[r]
<1>1. TableDe(groupes[q], Emise, GroupeCree(Emise))
      /\ TableDe(groupes[r], Emise, GroupeCree(Emise))
  BY DEF IInv, Locale, GroupesJustes
<1>2. ASSUME NEW g \in DOMAIN groupes[q]
      PROVE  g \in DOMAIN groupes[r] /\ groupes[q][g] = groupes[r][g]
  <2>1. PICK x : x = groupes[q][g] OBVIOUS
  <2>2. PICK y : y = groupes[r][g] OBVIOUS
  <2>3. g \in DOMAIN groupes[r] BY DEF Dans
  <2>4. x \in GroupeCree(Emise) /\ y \in GroupeCree(Emise)
    BY <1>1, <2>1, <2>2, <2>3 DEF TableDe
  <2>5. x.etiquette \in Estampille /\ y.etiquette \in Estampille BY <2>4 DEF GroupeCree, Emise
  <2>6. ~Avant(x.etiquette, y.etiquette) /\ ~Avant(y.etiquette, x.etiquette)
    BY <2>1, <2>2, <2>3 DEF Dans
  <2>7. x.etiquette = y.etiquette BY <2>5, <2>6, OrdreTotal
  <2>8. x.domaine = y.domaine
    <3>1. PICK v : v = x.domaine OBVIOUS
    <3>2. PICK w : w = y.domaine OBVIOUS
    <3>3. EstDit("groupe", g, v) BY <2>1, <3>1 DEF EstDit, DitIci
    <3>4. EstDit("groupe", g, w) BY <2>2, <2>3, <3>2 DEF EstDit, DitIci
    <3> QED BY <3>1, <3>2, <3>3, <3>4 DEF Accord, DitUneFois
  <2>9. x = y BY <2>4, <2>7, <2>8 DEF GroupeCree
  <2> QED BY <2>1, <2>2, <2>3, <2>9
<1>3. \A g \in DOMAIN groupes[r] : g \in DOMAIN groupes[q] BY DEF Dans
<1> QED BY <1>1, <1>2, <1>3, MemesRangees

LEMMA AdhesionsEgales ==
  ASSUME IInv, Accord, NEW q \in Racine, NEW r \in Racine, Dans(q, r), Dans(r, q)
  PROVE  adhesions[q] = adhesions[r]
<1>1. TableDe(adhesions[q], AdhesionDe(Emise), DateOuNon(Emise))
      /\ TableDe(adhesions[r], AdhesionDe(Emise), DateOuNon(Emise))
  BY DEF IInv, Locale, AdhesionsJustes
<1>2. ASSUME NEW a \in DOMAIN adhesions[q]
      PROVE  a \in DOMAIN adhesions[r] /\ adhesions[q][a] = adhesions[r][a]
  <2>1. a \in DOMAIN adhesions[r] BY DEF Dans
  <2>2. adhesions[q][a] \in DateOuNon(Emise) /\ adhesions[r][a] \in DateOuNon(Emise)
    BY <1>1, <2>1 DEF TableDe
  <2>3. /\ adhesions[q][a] # Aucune => Marquee(adhesions[r][a], adhesions[q][a])
        /\ adhesions[r][a] # Aucune => Marquee(adhesions[q][a], adhesions[r][a])
    BY <2>1 DEF Dans
  <2> QED BY <2>1, <2>2, <2>3, MarquesEgales
<1>3. \A a \in DOMAIN adhesions[r] : a \in DOMAIN adhesions[q] BY DEF Dans
<1> QED BY <1>1, <1>2, <1>3, MemesRangees

LEMMA DroitsEgaux ==
  ASSUME IInv, Accord, NEW q \in Racine, NEW r \in Racine, Dans(q, r), Dans(r, q)
  PROVE  /\ DroitsSansRetrait(q) = DroitsSansRetrait(r)
         /\ amorcages = 0 => droits[q] = droits[r]
<1>1. TableDe(droits[q], Emise, DroitDe(Emise)) /\ TableDe(droits[r], Emise, DroitDe(Emise))
  BY DEF IInv, Locale, DroitsJustes
<1>2. DOMAIN droits[q] = DOMAIN droits[r] BY DEF Dans
<1>3. ASSUME NEW d \in DOMAIN droits[q]
      PROVE  /\ SansSonRetrait(droits[q][d]) = SansSonRetrait(droits[r][d])
             /\ amorcages = 0 => droits[q][d] = droits[r][d]
  <2>1. PICK x : x = droits[q][d] OBVIOUS
  <2>2. PICK y : y = droits[r][d] OBVIOUS
  <2>3. x \in DroitDe(Emise) /\ y \in DroitDe(Emise) BY <1>1, <1>2, <2>1, <2>2 DEF TableDe
  <2>4. PICK v : v = SansSonRetrait(x) OBVIOUS
  <2>5. PICK w : w = SansSonRetrait(y) OBVIOUS
  <2>6. EstDit("droit", d, v) BY <2>1, <2>4 DEF EstDit, DitIci
  <2>7. EstDit("droit", d, w) BY <1>2, <2>2, <2>5 DEF EstDit, DitIci
  <2>8. v = w BY <2>6, <2>7 DEF Accord, DitUneFois
  <2>9. ASSUME amorcages = 0 PROVE x = y
    <3>1. x.retire \in DateOuNon(Emise) /\ y.retire \in DateOuNon(Emise) BY <2>3 DEF DroitDe
    <3>2. /\ x.retire # Aucune => Marquee(y.retire, x.retire)
          /\ y.retire # Aucune => Marquee(x.retire, y.retire)
      BY <1>2, <2>1, <2>2, <2>9 DEF Dans
    <3>3. x.retire = y.retire BY <3>1, <3>2, MarquesEgales
    <3>4. /\ v.par = x.par /\ v.groupe = x.groupe /\ v.element = x.element
          /\ v.droit = x.droit
      BY <2>3, <2>4 DEF SansSonRetrait, DroitDe
    <3>5. /\ w.par = y.par /\ w.groupe = y.groupe /\ w.element = y.element
          /\ w.droit = y.droit
      BY <2>3, <2>5 DEF SansSonRetrait, DroitDe
    <3> QED BY <2>3, <2>8, <3>3, <3>4, <3>5 DEF DroitDe
  <2> QED BY <2>1, <2>2, <2>4, <2>5, <2>8, <2>9
<1>4. DroitsSansRetrait(q) = DroitsSansRetrait(r)
  <2>1. \A d \in DOMAIN droits[q] :
          [droits[q][d] EXCEPT !.retire = Aucune] = [droits[r][d] EXCEPT !.retire = Aucune]
    BY <1>3 DEF SansSonRetrait
  <2> QED BY <1>2, <2>1 DEF DroitsSansRetrait
<1>5. ASSUME amorcages = 0 PROVE droits[q] = droits[r]
  <2>1. \A d \in DOMAIN droits[q] : d \in DOMAIN droits[r] /\ droits[q][d] = droits[r][d]
    BY <1>2, <1>3, <1>5
  <2>2. \A d \in DOMAIN droits[r] : d \in DOMAIN droits[q] BY <1>2
  <2> QED BY <1>1, <2>1, <2>2, MemesRangees
<1> QED BY <1>4, <1>5

\* What is read is the same on two roots that have the same tables.
Pareils(q, r) ==
  /\ domaines[q] = domaines[r] /\ poses[q] = poses[r]
  /\ groupes[q] = groupes[r] /\ adhesions[q] = adhesions[r] /\ droits[q] = droits[r]
  /\ DOMAIN comptes[q] = DOMAIN comptes[r]
  /\ \A c : CompteVivant(q, c) <=> CompteVivant(r, c)
  /\ \A g \in DOMAIN groupes[q] : g \in DOMAIN marques[q] <=> g \in DOMAIN marques[r]

LEMMA VivantsPareils ==
  ASSUME NEW q, NEW r, Pareils(q, r)
  PROVE  \A d : Vivant(q, d) <=> Vivant(r, d)
BY DEF Pareils, Vivant, Freres

LEMMA LusPareils ==
  ASSUME NEW q, NEW r, Pareils(q, r), NEW g, g.sorte \in SorteDeGroupe
  PROVE  Lu(q, g) <=> Lu(r, g)
<1>1. Rangee(q, g) <=> Rangee(r, g) BY DEF Pareils, Rangee, SorteDeGroupe
<1>2. Rangee(q, g) => (Marque(q, g) <=> Marque(r, g)) BY DEF Pareils, Rangee, Marque
<1>3. Rattache(q, g) = Rattache(r, g) BY DEF Pareils, Rattache
<1> QED BY <1>1, <1>2, <1>3, VivantsPareils DEF Lu

LEMMA GroupesPareils ==
  ASSUME NEW q, NEW r, Pareils(q, r)
  PROVE  /\ GroupesLus(q) = GroupesLus(r)
         /\ \A g : Membres(q, g) = Membres(r, g)
         /\ \A c : GroupesDe(q, c) = GroupesDe(r, c)
<1>1. Groupes(q) = Groupes(r) BY DEF Pareils, Groupes
<1>2. \A g \in Groupes(q) : g.sorte \in SorteDeGroupe
  BY DEF Groupes, DuDomaine, Administrateurs, Personnel, SorteDeGroupe
<1>3. GroupesLus(q) = GroupesLus(r) BY <1>1, <1>2, LusPareils DEF GroupesLus
<1>4. ASSUME NEW g PROVE Membres(q, g) = Membres(r, g)
  <2>1. DOffice(q, g) = DOffice(r, g) BY DEF Pareils, DOffice
  <2>2. \A c : Ajouts(q, g, c) = Ajouts(r, g, c) BY DEF Pareils, Ajouts
  <2>3. {c \in DOMAIN comptes[q] : CompteVivant(q, c) /\ Ajouts(q, g, c) # {}}
          = {c \in DOMAIN comptes[r] : CompteVivant(r, c) /\ Ajouts(r, g, c) # {}}
    BY <2>2 DEF Pareils
  <2> QED BY <2>1, <2>3 DEF Membres
<1>5. ASSUME NEW c PROVE GroupesDe(q, c) = GroupesDe(r, c)
  BY <1>3, <1>4 DEF GroupesDe
<1> QED BY <1>3, <1>4, <1>5

LEMMA LieuxPareils ==
  ASSUME NEW q, NEW r, Pareils(q, r)
  PROVE  /\ \A c : DroitsRecus(q, c) = DroitsRecus(r, c)
         /\ \A c, d : Administre(q, c, d) <=> Administre(r, c, d)
         /\ \A c, d : DroitsSurDomaine(q, c, d) = DroitsSurDomaine(r, c, d)
         /\ \A m : MachineLa(q, m) <=> MachineLa(r, m)
         /\ \A m : DomaineDeMachine(q, m) = DomaineDeMachine(r, m)
<1>1. ASSUME NEW c PROVE DroitsRecus(q, c) = DroitsRecus(r, c)
  <2>1. GroupesDe(q, c) = GroupesDe(r, c) BY GroupesPareils
  <2> QED BY <2>1 DEF Pareils, DroitsRecus
<1>2. ASSUME NEW c, NEW x PROVE RecusSur(q, c, x) = RecusSur(r, c, x)
  <2>1. DroitsRecus(q, c) = DroitsRecus(r, c) BY <1>1
  <2> QED BY <2>1 DEF Pareils, RecusSur
<1>3. ASSUME NEW c, NEW d PROVE Administre(q, c, d) <=> Administre(r, c, d)
  <2>1. Membres(q, Administrateurs(d)) = Membres(r, Administrateurs(d)) BY GroupesPareils
  <2>2. RecusSur(q, c, LeDomaine(d)) = RecusSur(r, c, LeDomaine(d)) BY <1>2
  <2>3. Vivant(q, d) <=> Vivant(r, d) BY VivantsPareils
  <2> QED BY ONLY <2>1, <2>2, <2>3 DEF Administre
<1>4. ASSUME NEW c, NEW d PROVE PeutRanger(q, c, d) <=> PeutRanger(r, c, d)
  <2>1. RecusSur(q, c, LeDomaine(d)) = RecusSur(r, c, LeDomaine(d)) BY <1>2
  <2>2. Vivant(q, d) <=> Vivant(r, d) BY VivantsPareils
  <2> QED BY ONLY <1>3, <2>1, <2>2 DEF PeutRanger
<1>5. ASSUME NEW m PROVE MachineLa(q, m) <=> MachineLa(r, m) BY DEF Pareils, MachineLa
<1>6. ASSUME NEW m PROVE DomaineDeMachine(q, m) = DomaineDeMachine(r, m)
  <2>1. poses[q] = poses[r] BY DEF Pareils
  <2> QED BY ONLY <1>4, <1>5, <2>1 DEF DomaineDeMachine
<1>7. ASSUME NEW c, NEW d PROVE DroitsSurDomaine(q, c, d) = DroitsSurDomaine(r, c, d)
  <2>1. RecusSur(q, c, LeDomaine(d)) = RecusSur(r, c, LeDomaine(d)) BY <1>2
  <2>2. Vivant(q, d) <=> Vivant(r, d) BY VivantsPareils
  <2>3. domaines[q] = domaines[r] BY DEF Pareils
  <2> QED BY ONLY <1>3, <2>1, <2>2, <2>3 DEF DroitsSurDomaine
<1> QED BY <1>1, <1>3, <1>5, <1>6, <1>7

LEMMA AccesPareils ==
  ASSUME NEW q, NEW r, Pareils(q, r), NEW c, NEW voulu,
         \A d \in DOMAIN droits[q] : droits[q][d].element.sorte \in {"domaine", "machine", "compte"}
  PROVE  Acces(q, c, voulu) = Acces(r, c, voulu)
<1>1. droits[q] = droits[r] /\ domaines[q] = domaines[r] BY DEF Pareils
<1>2. ASSUME NEW d \in DOMAIN droits[q] PROVE Vaut(q, d) <=> Vaut(r, d)
  <2>1. \A p, m : PeutAccorderSurLaMachine(q, p, m) <=> PeutAccorderSurLaMachine(r, p, m)
    BY LieuxPareils DEF PeutAccorderSurLaMachine
  <2>2. \A p : CompteVivant(q, p) <=> CompteVivant(r, p) BY DEF Pareils
  <2>3. \A x : Vivant(q, x) <=> Vivant(r, x) BY VivantsPareils
  <2>4. PICK droit : droit = droits[q][d] /\ droit = droits[r][d] BY <1>1
  <2>5. CASE droit.element.sorte = "compte" BY ONLY <2>2, <2>4, <2>5 DEF Vaut
  <2>6. CASE droit.element.sorte = "domaine" BY ONLY <2>3, <2>4, <2>6 DEF Vaut
  <2>7. CASE droit.element.sorte = "machine" BY ONLY <2>1, <2>4, <2>7 DEF Vaut
  <2> QED BY <2>4, <2>5, <2>6, <2>7
<1>3. DroitsRecus(q, c) = DroitsRecus(r, c) /\ DroitsRecus(q, c) \subseteq DOMAIN droits[q]
  BY LieuxPareils DEF DroitsRecus
<1>4. ASSUME NEW m
      PROVE  /\ MachineLa(q, m) <=> MachineLa(r, m)
             /\ DomaineDeMachine(q, m) = DomaineDeMachine(r, m)
             /\ DroitsSurDomaine(q, c, DomaineDeMachine(q, m))
                  = DroitsSurDomaine(r, c, DomaineDeMachine(r, m))
             /\ Administre(q, c, DomaineDeMachine(q, m))
                  <=> Administre(r, c, DomaineDeMachine(r, m))
  <2>1. PICK d : d = DomaineDeMachine(q, m) OBVIOUS
  <2>2. d = DomaineDeMachine(r, m) BY <2>1, LieuxPareils
  <2> QED BY <2>1, <2>2, LieuxPareils
<1>5. ASSUME NEW m \in DOMAIN Machines
      PROVE  m \in Acces(q, c, voulu) <=> m \in Acces(r, c, voulu)
  <2>1. PICK lieu : lieu = DomaineDeMachine(q, m) /\ lieu = DomaineDeMachine(r, m) BY <1>4
  <2> DEFINE Par(t) ==
         \E d \in DroitsRecus(t, c) :
           /\ Permet(voulu, {droits[t][d].droit}) /\ Vaut(t, d)
           /\ LET element == droits[t][d].element IN
                \/ element = LaMachine(m) \/ element = LeCompte(Machines[m])
                \/ element = LeDomaine(DomaineDeMachine(t, m))
  <2> DEFINE Dedans(t) ==
         /\ DomaineDeMachine(t, m) # Aucune
         /\ Permet(voulu, DroitsSurDomaine(t, c, DomaineDeMachine(t, m)))
         /\ \/ domaines[t][DomaineDeMachine(t, m)].proprietaire = c
            \/ Administre(t, c, DomaineDeMachine(t, m))
  <2>2. \A t : m \in Acces(t, c, voulu)
                 <=> MachineLa(t, m) /\ Machines[m] # c /\ (Par(t) \/ Dedans(t))
    BY ONLY m \in DOMAIN Machines DEF Acces
  <2>3. Par(q) <=> Par(r) BY ONLY <1>1, <1>2, <1>3, <2>1
  <2>4. Dedans(q) <=> Dedans(r) BY ONLY <1>1, <1>4, <2>1
  <2> HIDE DEF Par, Dedans
  <2> QED BY <1>4, <2>2, <2>3, <2>4
<1> QED BY ONLY <1>5 DEF Acces

LEMMA RacinesPareilles ==
  ASSUME IInv, Accord, RienEnRoute, NEW q \in Racine, NEW r \in Racine, r = Pair[q]
  PROVE  /\ \A c : CompteVivant(q, c) <=> CompteVivant(r, c)
         /\ \A g \in DOMAIN groupes[q] : g \in DOMAIN marques[q] <=> g \in DOMAIN marques[r]
         /\ domaines[q] = domaines[r] /\ poses[q] = poses[r]
         /\ groupes[q] = groupes[r] /\ adhesions[q] = adhesions[r]
         /\ DroitsSansRetrait(q) = DroitsSansRetrait(r)
         /\ amorcages = 0 => Pareils(q, r)
<1>1. q = Pair[r] BY DeuxRacines
<1>2. Dans(q, r) /\ Dans(r, q) BY <1>1, ToutEstDans
<1>3. Ouvert(q, r) /\ Ouvert(r, q) BY <1>1, ComptesDAccord
<1>4. /\ domaines[q] = domaines[r] /\ poses[q] = poses[r]
      /\ groupes[q] = groupes[r] /\ adhesions[q] = adhesions[r]
  BY <1>2, DomainesEgaux, PosesEgales, GroupesEgaux, AdhesionsEgales
<1>5. /\ DroitsSansRetrait(q) = DroitsSansRetrait(r)
      /\ amorcages = 0 => droits[q] = droits[r]
  BY <1>2, DroitsEgaux
<1>6. /\ \A c : CompteVivant(q, c) <=> CompteVivant(r, c)
      /\ \A g \in DOMAIN groupes[q] : g \in DOMAIN marques[q] <=> g \in DOMAIN marques[r]
  BY <1>3, <1>4 DEF Ouvert
<1>7. DOMAIN comptes[q] = DOMAIN comptes[r] BY TousConnus DEF IInv, Locale
<1>8. amorcages = 0 => Pareils(q, r) BY ONLY <1>4, <1>5, <1>6, <1>7 DEF Pareils
<1> QED BY <1>4, <1>5, <1>6, <1>8

LEMMA AccordDesRacines ==
  ASSUME IInv, Accord
  PROVE  RacinesDAccord
<1> SUFFICES ASSUME RienEnRoute, NEW r \in Racine
             PROVE
               /\ {c \in DOMAIN comptes[r] : CompteVivant(r, c)}
                    = {c \in DOMAIN comptes[Pair[r]] : CompteVivant(Pair[r], c)}
               /\ \A d \in DOMAIN domaines[r] :
                    /\ d \in DOMAIN domaines[Pair[r]]
                    /\ domaines[r][d].supprime = domaines[Pair[r]][d].supprime
               /\ poses[r] = poses[Pair[r]] /\ groupes[r] = groupes[Pair[r]]
               /\ adhesions[r] = adhesions[Pair[r]]
               /\ \A g \in DOMAIN groupes[r] :
                    Marque(r, DuDomaine(g)) <=> Marque(Pair[r], DuDomaine(g))
               /\ DroitsSansRetrait(r) = DroitsSansRetrait(Pair[r])
               /\ amorcages = 0 => droits[r] = droits[Pair[r]]
               /\ amorcages = 0 => \A c \in DOMAIN comptes[r] :
                    Acces(r, c, "voir") = Acces(Pair[r], c, "voir")
  BY DEF RacinesDAccord
<1>1. PICK p \in Racine : p = Pair[r] BY DeuxRacines
<1>2. /\ \A c : CompteVivant(r, c) <=> CompteVivant(p, c)
      /\ \A g \in DOMAIN groupes[r] : g \in DOMAIN marques[r] <=> g \in DOMAIN marques[p]
      /\ domaines[r] = domaines[p] /\ poses[r] = poses[p]
      /\ groupes[r] = groupes[p] /\ adhesions[r] = adhesions[p]
      /\ DroitsSansRetrait(r) = DroitsSansRetrait(p)
      /\ amorcages = 0 => Pareils(r, p)
  BY <1>1, RacinesPareilles
<1>3. {c \in DOMAIN comptes[r] : CompteVivant(r, c)}
        = {c \in DOMAIN comptes[p] : CompteVivant(p, c)}
  BY <1>2 DEF CompteVivant
<1>4. \A g \in DOMAIN groupes[r] : Marque(r, DuDomaine(g)) <=> Marque(p, DuDomaine(g))
  <2>1. \A g : DuDomaine(g).sorte = "domaine" /\ DuDomaine(g).de = g BY DEF DuDomaine
  <2> QED BY <1>2, <2>1 DEF Marque
<1>5. amorcages = 0 => droits[r] = droits[p] BY <1>2 DEF Pareils
<1>6. amorcages = 0 => \A c : Acces(r, c, "voir") = Acces(p, c, "voir")
  <2>1. \A d \in DOMAIN droits[r] :
          droits[r][d].element.sorte \in {"domaine", "machine", "compte"}
    BY RangeesLues DEF DroitDe, ElementDe
  <2> QED BY <1>2, <2>1, AccesPareils
<1> QED BY ONLY <1>1, <1>2, <1>3, <1>4, <1>5, <1>6

\* Two roots that have received everything agree, whatever crossed on the way and
\* whatever snapshots were read: the same accounts, domains, places, groups, members and
\* rights; and, through the journals alone, the same withdrawals and the same answer to
\* who may see which machine (replication.md 203).
THEOREM DroitsRacinesDAccord ==
  ASSUME Neuves = {}
  PROVE  Spec => []RacinesDAccord
<1> QED BY AccordDesRacines, AccordInvariant, PTL
=============================================================================
