-------------------------- MODULE RegistrePreuves ---------------------------
(***************************************************************************)
(* Proofs about Registre.tla: its tables, that a root opens one account at *)
(* most on a code, that a directory has one accepted second at most, that  *)
(* no field of a machine goes back to an older stamp, that the two roots   *)
(* agree once everything is received.                                      *)
(*                                                                         *)
(* The inductive invariants are in RegistreInvariant.tla: IInv and         *)
(* Requetes for the tables, Accord, Attaches and CodesSuivis for the       *)
(* agreement.                                                              *)
(***************************************************************************)
EXTENDS RegistreInvariant

-----------------------------------------------------------------------------
(* Lemmas.                                                                 *)

LEMMA Larges ==
  ASSUME NEW E, NEW F, E \subseteq F
  PROVE  /\ MachineDe(E) \subseteq MachineDe(F)
         /\ CompteOuvert(E) \subseteq CompteOuvert(F)
         /\ PresentationDe(E) \subseteq PresentationDe(F)
         /\ HebergementDe(E) \subseteq HebergementDe(F)
         /\ [machine : E, nom : Noms] \subseteq [machine : F, nom : Noms]
         /\ OperationDe(E) \subseteq OperationDe(F)
<1>1. MachineDe(E) \subseteq MachineDe(F) BY DEF MachineDe
<1>2. /\ CompteOuvert(E) \subseteq CompteOuvert(F)
      /\ PresentationDe(E) \subseteq PresentationDe(F)
      /\ HebergementDe(E) \subseteq HebergementDe(F)
      /\ [machine : E, nom : Noms] \subseteq [machine : F, nom : Noms]
  BY DEF CompteOuvert, PresentationDe, HebergementDe
<1>3. AuxMachines(E) \subseteq AuxMachines(F) BY <1>1 DEF AuxMachines
<1>4. AuxInvitations(E) \subseteq AuxInvitations(F) BY DEF AuxInvitations
<1>5. AuxInscriptions(E) \subseteq AuxInscriptions(F) BY <1>2 DEF AuxInscriptions
<1> QED BY <1>1, <1>2, <1>3, <1>4, <1>5 DEF OperationDe

LEMMA ChampsMachines ==
  ASSUME NEW E, NEW operation \in AuxMachines(E)
  PROVE  /\ operation.quoi \in {"machine", "modifiee", "service", "efface", "fin"}
         /\ operation.estampille \in E \cup {Aucune}
         /\ operation.quoi = "machine" =>
              /\ operation.machine \in E /\ operation.enregistrement \in MachineDe(E)
              /\ operation.enregistrement.estampille = operation.estampille
         /\ operation.quoi = "modifiee" =>
              /\ operation.machine \in E /\ operation.estampille \in E
              /\ operation.champs \subseteq {"nom", "capacites"}
         /\ operation.quoi = "service" =>
              /\ operation.service \in [machine : E, nom : Noms]
              /\ operation.estampille \in E
         /\ operation.quoi = "efface" => operation.compte \in Titulaires
BY DEF AuxMachines

LEMMA ChampsInvitations ==
  ASSUME NEW E, NEW operation \in AuxInvitations(E)
  PROVE  /\ operation.quoi \in {"invitation", "consommee", "ouvert", "premier"}
         /\ operation.estampille \in E \cup {Aucune}
         /\ operation.quoi = "invitation" =>
              operation.invitation \in E /\ operation.etat \in Etats
         /\ operation.quoi = "consommee" => operation.invitation \in E
         /\ operation.quoi = "ouvert" => operation.par \in E /\ operation.compte \in E
BY DEF AuxInvitations

LEMMA ChampsInscriptions ==
  ASSUME NEW E, NEW operation \in AuxInscriptions(E)
  PROVE  /\ operation.quoi \in
              {"inscription", "presentation", "marque", "hebergeur", "locateurs"}
         /\ operation.estampille \in E
         /\ operation.quoi = "inscription" =>
              operation.code \in E /\ operation.enregistrement \in Declaration
         /\ operation.quoi = "presentation" =>
              operation.code \in E /\ operation.enregistrement \in PresentationDe(E)
         /\ operation.quoi = "marque" => operation.marque \in MarqueDe
         /\ operation.quoi = "hebergeur" =>
              /\ operation.domaine \in DOMAIN DomaineDe
              /\ operation.annuaire \in Membres \cup {SansAnnuaire}
         /\ operation.quoi = "locateurs" => operation.membre \in Membres
BY DEF AuxInscriptions

\* What a step does to the clocks, the accounts opened and the codes declared.
Avance ==
  /\ Emise \subseteq Emise' /\ compteur' \in [Racine -> Nat]
  /\ \A q \in Racine : compteur[q] <= compteur'[q]
  /\ \A q \in Racine : ouverts[q] \subseteq ouverts'[q]

MemesMachines(q) ==
  effaces'[q] = effaces[q] /\ machines'[q] = machines[q] /\ services'[q] = services[q]
MemesInvitations(q) ==
  invitations'[q] = invitations[q] /\ ouverts'[q] = ouverts[q] /\ balayees'[q] = balayees[q]
MemesInscriptions(q) ==
  /\ declarations'[q] = declarations[q] /\ presentations'[q] = presentations[q]
  /\ marques'[q] = marques[q] /\ hebergements'[q] = hebergements[q]
  /\ locateurs'[q] = locateurs[q]

LEMMA MachinesRestent ==
  ASSUME NEW q \in Racine, Voies, MachinesDe(q), Avance, MemesMachines(q)
  PROVE  MachinesDe(q)'
<1> DEFINE E == Emise
           F == Emise'
<1>1. E \subseteq F /\ TableDe(machines[q], E, MachineDe(E))
      /\ TableDe(services[q], [machine : E, nom : Noms], E)
  BY DEF Avance, MachinesDe
<1> DEFINE M1 == MachineDe(E)
           M2 == MachineDe(F)
           S1 == [machine : E, nom : Noms]
           S2 == [machine : F, nom : Noms]
<1>5. M1 \subseteq M2 /\ S1 \subseteq S2 BY <1>1, Larges
<1>2. TableDe(machines[q], F, M2)
  <2>1. TableDe(machines[q], E, M1) BY <1>1
  <2> HIDE DEF E, F, M1, M2
  <2> QED BY <2>1, <1>1, <1>5 DEF TableDe
<1>3. TableDe(services[q], S2, F)
  <2>1. TableDe(services[q], S1, E) BY <1>1
  <2> HIDE DEF E, F, S1, S2
  <2> QED BY <2>1, <1>1, <1>5 DEF TableDe
<1>4. \A m \in DOMAIN machines[q] : machines[q][m].estampille.compteur <= compteur'[q]
  <2>1. \A m \in DOMAIN machines[q] :
          /\ machines[q][m].estampille.compteur \in Nat
          /\ machines[q][m].estampille.compteur <= compteur[q]
    BY <1>1 DEF MachinesDe, TableDe, MachineDe, Emise, Estampille
  <2> QED BY <2>1 DEF Avance, Voies
<1> QED BY <1>2, <1>3, <1>4 DEF MachinesDe, MemesMachines

LEMMA InvitationsRestent ==
  ASSUME NEW q \in Racine, InvitationsDe(q), Avance, MemesInvitations(q)
  PROVE  InvitationsDe(q)'
<1>1. TableDe(invitations[q], Emise', Etats) BY TableLarge DEF Avance, InvitationsDe
<1>2. ouverts[q] \subseteq CompteOuvert(Emise') BY Larges DEF Avance, InvitationsDe
<1>3. \A a \in ouverts[q] : a.compte.racine \in Racine
  BY DEF InvitationsDe, CompteOuvert, Emise, Estampille
<1>4. \A a \in ouverts[q] : a \in ouverts'[a.compte.racine]
  BY <1>3 DEF InvitationsDe, Avance
<1> QED BY <1>1, <1>2, <1>4 DEF InvitationsDe, MemesInvitations

LEMMA InscriptionsRestent ==
  ASSUME NEW q \in Racine, InscriptionsDe(q), Avance, MemesInscriptions(q)
  PROVE  InscriptionsDe(q)'
<1> DEFINE E == Emise
           F == Emise'
<1>1. E \subseteq F BY DEF Avance
<1>2. TableDe(declarations[q], F, Declaration) BY <1>1, TableLarge DEF InscriptionsDe
<1>3. TableDe(presentations[q], F, PresentationDe(F))
  BY <1>1, Larges, TableLarge DEF InscriptionsDe
<1>4. TableDe(marques[q], MarqueDe, F) BY <1>1, TableLarge DEF InscriptionsDe
<1>5. TableDe(hebergements[q], DOMAIN DomaineDe, HebergementDe(F))
  <2> DEFINE S == DOMAIN DomaineDe
             H1 == HebergementDe(E)
             H2 == HebergementDe(F)
  <2>1. H1 \subseteq H2 BY <1>1, Larges
  <2>2. TableDe(hebergements[q], S, H1) BY DEF InscriptionsDe
  <2>3. TableDe(hebergements[q], S, H2)
    <3> HIDE DEF S, H1, H2
    <3> QED BY <2>1, <2>2 DEF TableDe
  <2> QED BY <2>3
<1>6. TableDe(locateurs[q], Membres, F) BY <1>1, TableLarge DEF InscriptionsDe
<1> QED BY <1>2, <1>3, <1>4, <1>5, <1>6 DEF InscriptionsDe, MemesInscriptions

-----------------------------------------------------------------------------
(* What is on its way.                                                     *)

LEMMA Ajoutee ==
  ASSUME NEW T, NEW s \in Seq(T), NEW t \in Seq(T)
  PROVE  /\ DOMAIN (s \o t) = 1..(Len(s) + Len(t))
         /\ \A i \in DOMAIN s : i \in DOMAIN (s \o t) /\ (s \o t)[i] = s[i]
         /\ \A i \in DOMAIN t : Len(s) + i \in DOMAIN (s \o t) /\ (s \o t)[Len(s) + i] = t[i]
         /\ \A i \in DOMAIN (s \o t) :
              i \in DOMAIN s \/ (i - Len(s) \in DOMAIN t /\ (s \o t)[i] = t[i - Len(s)])
OBVIOUS

LEMMA InscritsAjoutes ==
  ASSUME NEW T, NEW s \in Seq(T), NEW t \in Seq(T)
  PROVE  Inscrits(s \o t) = Inscrits(s) \cup Inscrits(t)
<1> DEFINE u == s \o t
<1>1. /\ \A i \in DOMAIN s : i \in DOMAIN u /\ u[i] = s[i]
      /\ \A i \in DOMAIN t : Len(s) + i \in DOMAIN u /\ u[Len(s) + i] = t[i]
      /\ \A i \in DOMAIN u : i \in DOMAIN s \/ (i - Len(s) \in DOMAIN t /\ u[i] = t[i - Len(s)])
  BY Ajoutee
<1> HIDE DEF u
<1>2. Inscrits(u) = Inscrits(s) \cup Inscrits(t)
  BY <1>1 DEF Inscrits
<1> QED BY <1>2 DEF u

LEMMA OrdonneeAjoutee ==
  ASSUME NEW T, NEW s \in Seq(T), NEW t \in Seq(T), NEW D, Ordonnee(s, D),
         Ordonnee(t, D \cup Inscrits(s))
  PROVE  Ordonnee(s \o t, D)
<1> DEFINE u == s \o t
           n == Len(s)
<1>1. /\ \A i \in DOMAIN s : i \in DOMAIN u /\ u[i] = s[i]
      /\ \A i \in DOMAIN t : n + i \in DOMAIN u /\ u[n + i] = t[i]
      /\ \A i \in DOMAIN u : i \in DOMAIN s \/ (i - n \in DOMAIN t /\ u[i] = t[i - n])
  BY Ajoutee
<1>2. /\ n \in Nat /\ DOMAIN s = 1..n /\ DOMAIN t = 1..Len(t) /\ Len(t) \in Nat
      /\ DOMAIN u = 1..(n + Len(t))
  BY Ajoutee
<1> HIDE DEF u, n
<1>3. ASSUME NEW i \in DOMAIN u, u[i].quoi = "presentation"
      PROVE  \/ u[i].code \in D
             \/ \E j \in DOMAIN u :
                  j < i /\ u[j].quoi = "inscription" /\ u[j].code = u[i].code
  <2>1. CASE i \in DOMAIN s
    BY <1>1, <1>3, <2>1 DEF Ordonnee
  <2>2. CASE i - n \in DOMAIN t /\ u[i] = t[i - n]
    <3>1. CASE t[i - n].code \in D BY <2>2, <3>1
    <3>2. CASE t[i - n].code \in Inscrits(s)
      <4>1. PICK j \in DOMAIN s : s[j].quoi = "inscription" /\ s[j].code = t[i - n].code
        BY <3>2 DEF Inscrits
      <4>2. j < i BY <1>2, <2>2, <4>1
      <4> QED BY <1>1, <2>2, <4>1, <4>2
    <3>3. CASE \E j \in DOMAIN t : /\ j < i - n /\ t[j].quoi = "inscription"
                                   /\ t[j].code = t[i - n].code
      <4>1. PICK j \in DOMAIN t : /\ j < i - n /\ t[j].quoi = "inscription"
                                  /\ t[j].code = t[i - n].code
        BY <3>3
      <4>2. n + j < i BY <1>2, <2>2, <4>1
      <4> QED BY <1>1, <2>2, <4>1, <4>2
    <3> QED BY <1>3, <2>2, <3>1, <3>2, <3>3 DEF Ordonnee
  <2> QED BY <1>1, <2>1, <2>2
<1>4. Ordonnee(u, D) BY <1>3 DEF Ordonnee
<1> QED BY <1>4 DEF u

\* The rest of a queue, once its head is applied.
LEMMA Suite ==
  ASSUME NEW T, NEW s \in Seq(T), s # <<>>
  PROVE  /\ Tail(s) \in Seq(T) /\ 1 \in DOMAIN s /\ Head(s) = s[1]
         /\ DOMAIN s = 1..Len(s) /\ Len(s) \in Nat
         /\ \A i \in DOMAIN Tail(s) : i \in Nat /\ i + 1 \in DOMAIN s /\ Tail(s)[i] = s[i + 1]
         /\ \A i \in DOMAIN s : i # 1 => i - 1 \in DOMAIN Tail(s) /\ Tail(s)[i - 1] = s[i]
OBVIOUS

LEMMA SuiteOrdonnee ==
  ASSUME NEW T, NEW s \in Seq(T), s # <<>>, NEW D, Ordonnee(s, D)
  PROVE  Ordonnee(Tail(s), D \cup (IF Head(s).quoi = "inscription" THEN {Head(s).code} ELSE {}))
<1> DEFINE t == Tail(s)
           D2 == D \cup (IF Head(s).quoi = "inscription" THEN {Head(s).code} ELSE {})
<1>1. /\ Head(s) = s[1] /\ 1 \in DOMAIN s /\ DOMAIN s \subseteq Nat
      /\ \A i \in DOMAIN t : i \in Nat /\ i + 1 \in DOMAIN s /\ t[i] = s[i + 1]
      /\ \A i \in DOMAIN s : i # 1 => i - 1 \in DOMAIN t /\ t[i - 1] = s[i]
  BY Suite
<1> HIDE DEF t
<1>2. ASSUME NEW i \in DOMAIN t, t[i].quoi = "presentation"
      PROVE  \/ t[i].code \in D2
             \/ \E j \in DOMAIN t :
                  j < i /\ t[j].quoi = "inscription" /\ t[j].code = t[i].code
  <2>1. i + 1 \in DOMAIN s /\ t[i] = s[i + 1] /\ i \in Nat BY <1>1
  <2>2. CASE s[i + 1].code \in D BY <2>1, <2>2
  <2>3. CASE \E j \in DOMAIN s : /\ j < i + 1 /\ s[j].quoi = "inscription"
                                 /\ s[j].code = s[i + 1].code
    <3>1. PICK j \in DOMAIN s : /\ j < i + 1 /\ s[j].quoi = "inscription"
                                /\ s[j].code = s[i + 1].code
      BY <2>3
    <3>2. CASE j = 1 BY <1>1, <2>1, <3>1, <3>2
    <3>3. CASE j # 1
      <4>1. j - 1 \in DOMAIN t /\ t[j - 1] = s[j] BY <1>1, <3>3
      <4>2. j - 1 < i BY <1>1, <2>1, <3>1
      <4> QED BY <2>1, <3>1, <4>1, <4>2
    <3> QED BY <3>2, <3>3
  <2> QED BY <1>2, <2>1, <2>2, <2>3 DEF Ordonnee
<1>3. Ordonnee(t, D2) BY <1>2 DEF Ordonnee
<1> QED BY <1>3 DEF t

LEMMA SuiteInscrits ==
  ASSUME NEW T, NEW s \in Seq(T), s # <<>>
  PROVE  Inscrits(s) = Inscrits(Tail(s))
           \cup (IF Head(s).quoi = "inscription" THEN {Head(s).code} ELSE {})
<1> DEFINE t == Tail(s)
<1>1. /\ Head(s) = s[1] /\ 1 \in DOMAIN s
      /\ \A i \in DOMAIN t : i + 1 \in DOMAIN s /\ t[i] = s[i + 1]
      /\ \A i \in DOMAIN s : i # 1 => i - 1 \in DOMAIN t /\ t[i - 1] = s[i]
  BY Suite
<1> HIDE DEF t
<1>2. Inscrits(s) = Inscrits(t)
        \cup (IF Head(s).quoi = "inscription" THEN {Head(s).code} ELSE {})
  BY <1>1 DEF Inscrits
<1> QED BY <1>2 DEF t

\* The declarations that a queue brings are those of the root that fills it, whatever
\* happens elsewhere; a root that learns more codes keeps the queue well ordered.
LEMMA OrdonneeLarge ==
  ASSUME NEW s, NEW D, NEW D2, D \subseteq D2, Ordonnee(s, D)
  PROVE  Ordonnee(s, D2)
BY DEF Ordonnee

\* What a step of root r leaves alone.
Ailleurs(r) ==
  \A q \in Racine \ {r} : MemesMachines(q) /\ MemesInvitations(q) /\ MemesInscriptions(q)

\* A queue that no root touched.
LEMMA CheminReste ==
  ASSUME IInv, NEW q \in Racine, enRoute'[q] = enRoute[q],
         \A p \in Racine : ouverts[p] \subseteq ouverts'[p],
         DOMAIN declarations'[Pair[q]] = DOMAIN declarations[Pair[q]],
         DOMAIN declarations[q] \subseteq DOMAIN declarations'[q]
  PROVE  CheminDe(q)'
<1>1. CheminDe(q) /\ enRoute[q] \in Seq(OperationDe(Emise)) BY DEF IInv, Voies
<1>2. ASSUME NEW i \in DOMAIN enRoute[q], enRoute[q][i].quoi = "ouvert"
      PROVE  [par |-> enRoute[q][i].par, compte |-> enRoute[q][i].compte]
               \in ouverts'[enRoute[q][i].compte.racine]
  <2>1. enRoute[q][i] \in OperationDe(Emise) BY <1>1
  <2>2. enRoute[q][i] \in AuxInvitations(Emise)
    BY <2>1, <1>2, ChampsMachines, ChampsInscriptions DEF OperationDe
  <2>3. enRoute[q][i].compte \in Emise BY <2>2, <1>2, ChampsInvitations
  <2>4. enRoute[q][i].compte.racine \in Racine BY <2>3 DEF Emise, Estampille
  <2> QED BY <2>4, <1>1, <1>2 DEF CheminDe
<1>3. Ordonnee(enRoute[q], DOMAIN declarations'[q]) BY <1>1, OrdonneeLarge DEF CheminDe
<1> QED BY <1>1, <1>2, <1>3 DEF CheminDe

LEMMA VoiesEcrites ==
  ASSUME IInv, NEW r \in Racine, NEW ops, JournaliserTout(r, ops),
         ops \in Seq(OperationDe(Emise'))
  PROVE  /\ Voies' /\ amorcages' = amorcages
         /\ enRoute'[Pair[r]] = enRoute[Pair[r]] \o ops
         /\ \A q \in Racine : q # Pair[r] => enRoute'[q] = enRoute[q]
<1> DEFINE T == OperationDe(Emise')
<1>1. compteur \in [Racine -> Nat] /\ amorcages \in Nat BY DEF IInv, Voies
<1>2. ops \in Seq(T) /\ Len(ops) \in Nat OBVIOUS
<1>3. compteur' = [compteur EXCEPT ![r] = @ + Len(ops)] BY DEF JournaliserTout
<1>4. compteur' \in [Racine -> Nat] /\ Emise \subseteq Emise'
  BY <1>1, <1>2, <1>3, Ecrite
<1>5. OperationDe(Emise) \subseteq T BY <1>4, Larges
<1>6. enRoute \in [Racine -> Seq(T)] BY <1>5 DEF IInv, Voies
<1> HIDE DEF T
<1>7. /\ enRoute' \in [Racine -> Seq(T)] /\ amorcages' = amorcages
      /\ enRoute'[Pair[r]] = enRoute[Pair[r]] \o ops
      /\ \A q \in Racine : q # Pair[r] => enRoute'[q] = enRoute[q]
  BY <1>1, <1>2, <1>6, Journalisee
<1>8. (enRoute \in [Racine -> Seq(OperationDe(Emise))])' BY <1>7 DEF T
<1> QED BY <1>1, <1>4, <1>7, <1>8 DEF Voies

\* The queue of the other root, when r writes.
LEMMA CheminEcrit ==
  ASSUME IInv, NEW r \in Racine, NEW ops, JournaliserTout(r, ops),
         ops \in Seq(OperationDe(Emise')),
         \A p \in Racine : ouverts[p] \subseteq ouverts'[p],
         \A q \in Racine \ {r} : declarations'[q] = declarations[q],
         DOMAIN declarations'[r] = DOMAIN declarations[r] \cup Inscrits(ops),
         \A i \in DOMAIN ops : ops[i].quoi = "ouvert" =>
           [par |-> ops[i].par, compte |-> ops[i].compte] \in ouverts'[ops[i].compte.racine],
         \A i \in DOMAIN ops :
           ops[i].quoi = "presentation" => ops[i].code \in DOMAIN declarations[r]
  PROVE  \A q \in Racine : CheminDe(q)'
<1>1. /\ enRoute'[Pair[r]] = enRoute[Pair[r]] \o ops
      /\ \A q \in Racine : q # Pair[r] => enRoute'[q] = enRoute[q]
  BY VoiesEcrites
<1>2. Pair[r] \in Racine /\ Pair[r] # r /\ Pair[Pair[r]] = r BY RepliqueAssumption
<1>3. ASSUME NEW q \in Racine, q # Pair[r] PROVE CheminDe(q)'
  <2>1. Pair[q] \in Racine /\ Pair[q] # r BY <1>3, RepliqueAssumption
  <2>2. DOMAIN declarations[q] \subseteq DOMAIN declarations'[q]
    <3>1. CASE q = r BY <3>1
    <3>2. CASE q # r BY <3>2
    <3> QED BY <3>1, <3>2
  <2> QED BY <1>1, <1>3, <2>1, <2>2, CheminReste
<1>4. CheminDe(Pair[r])'
  <2> DEFINE p == Pair[r]
             s == enRoute[p]
             u == s \o ops
             T == OperationDe(Emise')
  <2>1. CheminDe(p) /\ s \in Seq(OperationDe(Emise)) BY <1>2 DEF IInv, Voies
  <2>2. Voies' BY VoiesEcrites
  <2>3. \A i \in DOMAIN s : s[i].quoi = "ouvert" =>
          [par |-> s[i].par, compte |-> s[i].compte] \in ouverts'[s[i].compte.racine]
    <3> SUFFICES ASSUME NEW i \in DOMAIN s, s[i].quoi = "ouvert"
                 PROVE  [par |-> s[i].par, compte |-> s[i].compte]
                          \in ouverts'[s[i].compte.racine]
      OBVIOUS
    <3>1. s[i] \in OperationDe(Emise) BY <2>1
    <3>2. s[i] \in AuxInvitations(Emise)
      BY <3>1, ChampsMachines, ChampsInscriptions DEF OperationDe
    <3>3. s[i].compte \in Emise BY <3>2, ChampsInvitations
    <3>4. s[i].compte.racine \in Racine BY <3>3 DEF Emise, Estampille
    <3> QED BY <3>4, <2>1 DEF CheminDe
  <2>4. s \in Seq(T)
    <3>1. compteur \in [Racine -> Nat] BY DEF IInv, Voies
    <3>2. Len(ops) \in Nat /\ compteur' = [compteur EXCEPT ![r] = @ + Len(ops)]
      BY DEF JournaliserTout
    <3>3. Emise \subseteq Emise' BY <3>1, <3>2, Ecrite
    <3>4. OperationDe(Emise) \subseteq OperationDe(Emise') BY <3>3, Larges
    <3> QED BY <3>4, <2>1
  <2>5. ops \in Seq(T) OBVIOUS
  <2>6. enRoute'[p] = u BY <1>1
  <2> HIDE DEF T
  <2>7. Inscrits(u) = Inscrits(s) \cup Inscrits(ops) BY <2>4, <2>5, InscritsAjoutes
  <2>8. /\ Inscrits(s) \subseteq DOMAIN declarations[r]
        /\ DOMAIN declarations[r] \subseteq DOMAIN declarations[p] \cup Inscrits(s)
        /\ Ordonnee(s, DOMAIN declarations[p])
    BY <2>1, <1>2 DEF CheminDe
  <2>9. Ordonnee(ops, DOMAIN declarations[p] \cup Inscrits(s)) BY <2>8 DEF Ordonnee
  <2>10. Ordonnee(u, DOMAIN declarations[p])
    BY <2>4, <2>5, <2>8, <2>9, OrdonneeAjoutee
  <2>11. \A i \in DOMAIN u : (i \in DOMAIN s /\ u[i] = s[i])
           \/ \E j \in DOMAIN ops : u[i] = ops[j]
    BY <2>4, <2>5, Ajoutee
  <2>12. \A i \in DOMAIN u : u[i].quoi = "ouvert" =>
           [par |-> u[i].par, compte |-> u[i].compte] \in ouverts'[u[i].compte.racine]
    <3> HIDE DEF u, s
    <3> SUFFICES ASSUME NEW i \in DOMAIN u, u[i].quoi = "ouvert"
                 PROVE  [par |-> u[i].par, compte |-> u[i].compte]
                          \in ouverts'[u[i].compte.racine]
      OBVIOUS
    <3>1. CASE i \in DOMAIN s /\ u[i] = s[i] BY <2>3, <3>1
    <3>2. CASE \E j \in DOMAIN ops : u[i] = ops[j]
      <4>1. PICK j \in DOMAIN ops : u[i] = ops[j] BY <3>2
      <4> QED BY <4>1
    <3> QED BY <2>11, <3>1, <3>2
  <2>13. declarations'[p] = declarations[p] BY <1>2
  <2> HIDE DEF u, s
  <2> QED BY <1>2, <2>6, <2>7, <2>8, <2>10, <2>12, <2>13 DEF CheminDe
<1> QED BY <1>3, <1>4

\* The queue of r, whose head is applied; the queue of the other root holds what r had.
LEMMA CheminRecu ==
  ASSUME IInv, NEW r \in Racine, Retirer(r), compteur' \in [Racine -> Nat],
         enRoute'[r] = Tail(enRoute[r]),
         \A q \in Racine : q # r => enRoute'[q] = enRoute[q],
         \A p \in Racine : ouverts[p] \subseteq ouverts'[p],
         \A q \in Racine \ {r} : declarations'[q] = declarations[q],
         DOMAIN declarations'[r] = DOMAIN declarations[r]
           \cup (IF Head(enRoute[r]).quoi = "inscription" THEN {Head(enRoute[r]).code} ELSE {})
  PROVE  \A q \in Racine : CheminDe(q)'
<1> DEFINE T == OperationDe(Emise)
           s == enRoute[r]
           recus == IF Head(s).quoi = "inscription" THEN {Head(s).code} ELSE {}
<1>1. s \in Seq(T) /\ s # <<>> BY DEF IInv, Voies, Retirer
<1>2. CheminDe(r) BY DEF IInv
<1>3. Pair[r] \in Racine /\ Pair[r] # r /\ Pair[Pair[r]] = r BY RepliqueAssumption
<1>4. \A o \in T : o.quoi = "ouvert" => o.compte.racine \in Racine
  <2> SUFFICES ASSUME NEW o \in T, o.quoi = "ouvert" PROVE o.compte.racine \in Racine
    OBVIOUS
  <2>1. o \in AuxInvitations(Emise)
    BY ChampsMachines, ChampsInscriptions DEF OperationDe
  <2>2. o.compte \in Emise BY <2>1, ChampsInvitations
  <2> QED BY <2>2 DEF Emise, Estampille
<1> HIDE DEF T
<1>5. Inscrits(s) = Inscrits(Tail(s)) \cup recus BY <1>1, SuiteInscrits
<1>6. CheminDe(r)'
  <2> DEFINE t == Tail(s)
  <2>1. \A i \in DOMAIN t : i + 1 \in DOMAIN s /\ t[i] = s[i + 1]
    BY <1>1, Suite
  <2>2. \A i \in DOMAIN s : s[i] \in T BY <1>1
  <2>3. Ordonnee(t, DOMAIN declarations[r] \cup recus) BY <1>1, <1>2, SuiteOrdonnee DEF CheminDe
  <2>4. enRoute'[r] = t /\ declarations'[Pair[r]] = declarations[Pair[r]] BY <1>3
  <2>5. DOMAIN declarations'[r] = DOMAIN declarations[r] \cup recus OBVIOUS
  <2>6. \A i \in DOMAIN s : s[i].quoi = "ouvert" =>
          [par |-> s[i].par, compte |-> s[i].compte] \in ouverts[s[i].compte.racine]
    BY <1>2 DEF CheminDe
  <2>7. /\ Inscrits(s) \subseteq DOMAIN declarations[Pair[r]]
        /\ DOMAIN declarations[Pair[r]] \subseteq DOMAIN declarations[r] \cup Inscrits(s)
    BY <1>2 DEF CheminDe
  <2>8. Inscrits(s) = Inscrits(t) \cup recus BY <1>5
  <2> HIDE DEF t, s, recus
  <2>9. \A i \in DOMAIN t : t[i].quoi = "ouvert" =>
          [par |-> t[i].par, compte |-> t[i].compte] \in ouverts'[t[i].compte.racine]
    BY <1>4, <2>1, <2>2, <2>6
  <2> QED BY <2>3, <2>4, <2>5, <2>7, <2>8, <2>9 DEF CheminDe
<1>7. ASSUME NEW q \in Racine, q # r PROVE CheminDe(q)'
  <2>1. CASE Pair[q] # r
    <3>1. Pair[q] \in Racine BY RepliqueAssumption
    <3> QED BY <1>7, <2>1, <3>1, CheminReste
  <2>2. CASE Pair[q] = r
    <3>1. q = Pair[r] BY <2>2, RepliqueAssumption
    <3>2. recus \subseteq DOMAIN declarations[q] BY <1>2, <1>5, <3>1 DEF CheminDe
    <3>3. CheminDe(q) /\ enRoute[q] \in Seq(T) BY DEF IInv, Voies, T
    <3>4. \A i \in DOMAIN enRoute[q] : enRoute[q][i] \in T BY <3>3
    <3>5. DOMAIN declarations'[r] = DOMAIN declarations[r] \cup recus OBVIOUS
    <3> HIDE DEF recus
    <3>6. \A i \in DOMAIN enRoute[q] : enRoute[q][i].quoi = "ouvert" =>
            [par |-> enRoute[q][i].par, compte |-> enRoute[q][i].compte]
              \in ouverts'[enRoute[q][i].compte.racine]
      BY <1>4, <3>3, <3>4 DEF CheminDe
    <3>7. enRoute'[q] = enRoute[q] /\ declarations'[q] = declarations[q] BY <1>7
    <3> QED BY <2>2, <3>2, <3>3, <3>5, <3>6, <3>7 DEF CheminDe
  <2> QED BY <2>1, <2>2
<1> QED BY <1>6, <1>7

-----------------------------------------------------------------------------
(* A snapshot.                                                             *)

\* The accounts that a queue says are opened are those of the root that opened them.
Vraie(s) ==
  \A i \in DOMAIN s : s[i].quoi = "ouvert" =>
    [par |-> s[i].par, compte |-> s[i].compte] \in ouverts[s[i].compte.racine]

LEMMA VraieAjoutee ==
  ASSUME NEW T, NEW s \in Seq(T), NEW t \in Seq(T), Vraie(s), Vraie(t)
  PROVE  Vraie(s \o t)
<1> DEFINE u == s \o t
<1>1. \A i \in DOMAIN u : (i \in DOMAIN s /\ u[i] = s[i]) \/ \E j \in DOMAIN t : u[i] = t[j]
  BY Ajoutee
<1> HIDE DEF u
<1>2. Vraie(u) BY <1>1 DEF Vraie
<1> QED BY <1>2 DEF u

LEMMA FileJointe ==
  ASSUME NEW T, NEW s \in Seq(T), NEW t \in Seq(T), Ordonnee(s, {}), Vraie(s),
         Ordonnee(t, Inscrits(s)), Vraie(t)
  PROVE  /\ s \o t \in Seq(T) /\ Inscrits(s \o t) = Inscrits(s) \cup Inscrits(t)
         /\ Ordonnee(s \o t, {}) /\ Vraie(s \o t)
<1>1. {} \cup Inscrits(s) = Inscrits(s) OBVIOUS
<1>2. Ordonnee(t, {} \cup Inscrits(s)) BY <1>1
<1>3. Ordonnee(s \o t, {}) BY <1>2, OrdonneeAjoutee
<1>4. s \o t \in Seq(T) OBVIOUS
<1>5. Inscrits(s \o t) = Inscrits(s) \cup Inscrits(t) BY InscritsAjoutes
<1>6. Vraie(s \o t) BY VraieAjoutee
<1> QED BY <1>3, <1>4, <1>5, <1>6

LEMMA MachinesMuettes ==
  ASSUME NEW s \in Seq(AuxMachines(Emise))
  PROVE  /\ s \in Seq(OperationDe(Emise)) /\ Inscrits(s) = {} /\ Vraie(s)
         /\ \A D : Ordonnee(s, D)
<1>1. s \in Seq(OperationDe(Emise)) BY DEF OperationDe
<1>2. \A i \in DOMAIN s : s[i].quoi \notin {"inscription", "presentation", "ouvert"}
  <2> SUFFICES ASSUME NEW i \in DOMAIN s
               PROVE  s[i].quoi \notin {"inscription", "presentation", "ouvert"}
    OBVIOUS
  <2>1. s[i] \in AuxMachines(Emise) OBVIOUS
  <2> QED BY <2>1, ChampsMachines
<1> QED BY <1>1, <1>2 DEF Inscrits, Vraie, Ordonnee

LEMMA InvitationsMuettes ==
  ASSUME NEW s \in Seq(AuxInvitations(Emise))
  PROVE  /\ s \in Seq(OperationDe(Emise)) /\ Inscrits(s) = {} /\ \A D : Ordonnee(s, D)
<1>1. s \in Seq(OperationDe(Emise)) BY DEF OperationDe
<1>2. \A i \in DOMAIN s : s[i].quoi \notin {"inscription", "presentation"}
  <2> SUFFICES ASSUME NEW i \in DOMAIN s
               PROVE  s[i].quoi \notin {"inscription", "presentation"}
    OBVIOUS
  <2>1. s[i] \in AuxInvitations(Emise) OBVIOUS
  <2> QED BY <2>1, ChampsInvitations
<1> QED BY <1>1, <1>2 DEF Inscrits, Ordonnee

LEMMA DitsEffaces ==
  ASSUME IInv, NEW q \in Racine PROVE DitsDesEffaces(q) \in Seq(AuxMachines(Emise))
<1> DEFINE tous == SetToSeq(effaces[q])
           n == Cardinality(effaces[q])
           d == [i \in DOMAIN tous |->
                   [quoi |-> "efface", estampille |-> Aucune, compte |-> tous[i]]]
<1>1. IsFiniteSet(effaces[q]) /\ effaces[q] \subseteq Titulaires BY DEF IInv, Locale, MachinesDe
<1>2. n \in Nat /\ tous \in [1..n -> effaces[q]] BY <1>1, SuiteDe
<1> HIDE DEF tous, n
<1>3. \A i \in 1..n : d[i] \in AuxMachines(Emise) BY <1>1, <1>2 DEF AuxMachines
<1>4. DOMAIN d = 1..n BY <1>2
<1> HIDE DEF d
<1>5. d \in Seq(AuxMachines(Emise))
  <2>1. d = [i \in 1..n |-> d[i]] BY <1>4 DEF d
  <2> DEFINE T == AuxMachines(Emise)
  <2> HIDE DEF T
  <2>2. d \in [1..n -> T] BY <1>3, <2>1 DEF T
  <2>3. d \in Seq(T) BY <2>2, <1>2
  <2> QED BY <2>3 DEF T
<1> QED BY <1>5 DEF DitsDesEffaces, d, tous

LEMMA DitsServices ==
  ASSUME IInv, NEW q \in Racine PROVE DitsDesServices(q) \in Seq(AuxMachines(Emise))
<1> DEFINE S == DOMAIN services[q]
           tous == SetToSeq(S)
           n == Cardinality(S)
           d == [i \in DOMAIN tous |->
                   [quoi |-> "service", estampille |-> services[q][tous[i]],
                    service |-> tous[i]]]
           T == AuxMachines(Emise)
<1>1. /\ IsFiniteSet(S) /\ S \subseteq [machine : Emise, nom : Noms]
      /\ \A s \in S : services[q][s] \in Emise
  BY DEF IInv, Locale, MachinesDe, TableDe
<1>2. n \in Nat /\ tous \in [1..n -> S] BY <1>1, SuiteDe
<1> HIDE DEF tous, n
<1>3. \A i \in 1..n : d[i] \in T
  <2> SUFFICES ASSUME NEW i \in 1..n PROVE d[i] \in T OBVIOUS
  <2>1. tous[i] \in S /\ i \in DOMAIN tous BY <1>2
  <2>2. tous[i] \in [machine : Emise, nom : Noms] /\ services[q][tous[i]] \in Emise
    BY <2>1, <1>1
  <2>3. d[i] = [quoi |-> "service", estampille |-> services[q][tous[i]],
                service |-> tous[i]]
    BY <2>1
  <2> HIDE DEF d
  <2> QED BY <2>2, <2>3 DEF AuxMachines
<1>4. DOMAIN d = 1..n /\ d = [i \in DOMAIN d |-> d[i]] BY <1>2
<1> HIDE DEF d, T
<1>5. d \in [1..n -> T] BY <1>3, <1>4
<1>6. d \in Seq(T) BY <1>5, <1>2
<1>7. DitsDesServices(q) = d BY DEF DitsDesServices, d, tous
<1> QED BY <1>6, <1>7 DEF T

\* One machine: its row, then its fields under their stamps.
LEMMA DitsMachine ==
  ASSUME IInv, NEW q \in Racine, NEW m \in DOMAIN machines[q]
  PROVE  DitsDUneMachine(q, m) \in Seq(AuxMachines(Emise))
<1> DEFINE T == AuxMachines(Emise)
           machine == machines[q][m]
           o == [quoi |-> "machine", estampille |-> machine.estampille, machine |-> m,
                 enregistrement |-> machine]
           modifiee(e, champs) == [quoi |-> "modifiee", estampille |-> e, machine |-> m,
                                   champs |-> champs]
           a == modifiee(machine.nom, {"nom", "capacites"})
           b == modifiee(machine.nom, {"nom"})
           c == modifiee(machine.capacites, {"capacites"})
<1>1. /\ machine \in MachineDe(Emise) /\ m \in Emise
      /\ machine.nom \in Emise /\ machine.capacites \in Emise /\ machine.estampille \in Emise
  BY DEF IInv, Locale, MachinesDe, TableDe, MachineDe
<1>2. o \in T
  <2> HIDE DEF machine
  <2> QED BY <1>1 DEF AuxMachines
<1>3. a \in T /\ b \in T /\ c \in T
  <2> HIDE DEF machine
  <2> QED BY <1>1 DEF AuxMachines
<1>4. DitsDUneMachine(q, m)
        = <<o>> \o (IF machine.nom = machine.capacites THEN <<a>> ELSE <<b, c>>)
  BY DEF DitsDUneMachine
<1> HIDE DEF T, o, a, b, c
<1>5. <<o>> \in Seq(T) /\ <<a>> \in Seq(T) /\ <<b, c>> \in Seq(T) BY <1>2, <1>3
<1>6. DitsDUneMachine(q, m) \in Seq(T) BY <1>4, <1>5
<1> QED BY <1>6 DEF T

LEMMA DitsMachines ==
  ASSUME IInv, NEW q \in Racine PROVE DitsDesMachines(q) \in Seq(AuxMachines(Emise))
<1> DEFINE T == AuxMachines(Emise)
           S == DOMAIN machines[q]
           toutes == SetToSeq(S)
           n == Cardinality(S)
           d == [i \in DOMAIN toutes |-> DitsDUneMachine(q, toutes[i])]
<1>1. IsFiniteSet(S) BY DEF IInv, Locale, MachinesDe, TableDe
<1>2. n \in Nat /\ toutes \in [1..n -> S] BY <1>1, SuiteDe
<1>3. \A m \in S : DitsDUneMachine(q, m) \in Seq(T) BY DitsMachine
<1> HIDE DEF T, S, toutes, n
<1>4. d \in [1..n -> Seq(T)] BY <1>2, <1>3
<1> HIDE DEF d
<1>5. d \in Seq(Seq(T)) BY <1>4, <1>2
<1>6. FlattenSeq(d) \in Seq(T) BY <1>5, Aplatie
<1>7. DitsDesMachines(q) = FlattenSeq(d) BY DEF DitsDesMachines, d, toutes, S
<1> QED BY <1>6, <1>7 DEF T

LEMMA DitsInvitations ==
  ASSUME IInv, NEW q \in Racine
  PROVE  DitsDesInvitations(q) \in Seq(AuxInvitations(Emise)) /\ Vraie(DitsDesInvitations(q))
<1> DEFINE T == AuxInvitations(Emise)
           S == DOMAIN invitations[q]
           C == ouverts[q]
           toutes == SetToSeq(S)
           comptes == SetToSeq(C)
           k == Cardinality(S)
           n == Cardinality(C)
           d == [i \in DOMAIN comptes |->
                   [quoi |-> "ouvert", estampille |-> comptes[i].compte,
                    par |-> comptes[i].par, compte |-> comptes[i].compte]]
           f == [i \in DOMAIN toutes |->
                   [quoi |-> "invitation", invitation |-> toutes[i],
                    estampille |-> IF invitations[q][toutes[i]] = "morte" THEN Aucune
                                     ELSE toutes[i],
                    etat |-> invitations[q][toutes[i]]]]
<1>1. /\ IsFiniteSet(S) /\ S \subseteq Emise /\ \A i \in S : invitations[q][i] \in Etats
      /\ IsFiniteSet(C) /\ C \subseteq CompteOuvert(Emise)
      /\ \A a \in C : a \in ouverts[a.compte.racine]
  BY DEF IInv, Locale, InvitationsDe, TableDe
<1>2. /\ n \in Nat /\ comptes \in [1..n -> C]
      /\ k \in Nat /\ toutes \in [1..k -> S]
  BY <1>1, SuiteDe
<1> HIDE DEF toutes, comptes, k, n
<1>3. /\ DOMAIN d = 1..n /\ d = [i \in DOMAIN d |-> d[i]]
      /\ DOMAIN f = 1..k /\ f = [i \in DOMAIN f |-> f[i]]
  BY <1>2
<1>4. ASSUME NEW i \in 1..n
      PROVE  /\ d[i] \in T
             /\ [par |-> d[i].par, compte |-> d[i].compte] \in ouverts[d[i].compte.racine]
  <2>1. comptes[i] \in C /\ i \in DOMAIN comptes BY <1>2
  <2>2. /\ comptes[i].par \in Emise /\ comptes[i].compte \in Emise
        /\ comptes[i] = [par |-> comptes[i].par, compte |-> comptes[i].compte]
        /\ comptes[i] \in ouverts[comptes[i].compte.racine]
    BY <2>1, <1>1 DEF CompteOuvert
  <2>3. d[i] = [quoi |-> "ouvert", estampille |-> comptes[i].compte,
                par |-> comptes[i].par, compte |-> comptes[i].compte]
    BY <2>1
  <2> HIDE DEF d
  <2>4. d[i] \in T BY <2>2, <2>3 DEF AuxInvitations
  <2> QED BY <2>2, <2>3, <2>4
<1>5. ASSUME NEW i \in 1..k PROVE f[i] \in T /\ f[i].quoi = "invitation"
  <2>1. toutes[i] \in S /\ i \in DOMAIN toutes BY <1>2
  <2>2. toutes[i] \in Emise /\ invitations[q][toutes[i]] \in Etats BY <2>1, <1>1
  <2>3. f[i] = [quoi |-> "invitation", invitation |-> toutes[i],
                estampille |-> IF invitations[q][toutes[i]] = "morte" THEN Aucune
                                 ELSE toutes[i],
                etat |-> invitations[q][toutes[i]]]
    BY <2>1
  <2> HIDE DEF f
  <2> QED BY <2>2, <2>3 DEF AuxInvitations
<1>6. DitsDesInvitations(q) = d \o f BY DEF DitsDesInvitations, toutes, comptes
<1> HIDE DEF T, d, f
<1>7. d \in [1..n -> T] /\ f \in [1..k -> T]
  <2>1. (\A i \in 1..n : d[i] \in T) /\ (\A i \in 1..k : f[i] \in T) BY <1>4, <1>5
  <2>2. d \in [1..n -> T] BY <2>1, <1>3
  <2>3. f \in [1..k -> T] BY <2>1, <1>3
  <2> QED BY <2>2, <2>3
<1>8. d \in Seq(T) /\ f \in Seq(T)
  <2>1. d \in Seq(T) BY <1>7, <1>2
  <2>2. f \in Seq(T) BY <1>7, <1>2
  <2> QED BY <2>1, <2>2
<1>9. Vraie(d) BY <1>3, <1>4 DEF Vraie
<1>10. Vraie(f) BY <1>3, <1>5 DEF Vraie
<1>11. d \o f \in Seq(T) /\ Vraie(d \o f) BY <1>8, <1>9, <1>10, VraieAjoutee
<1> QED BY <1>6, <1>11 DEF T

\* What a table of inscriptions says: one operation for each of its keys.
Dite(S, g, d) == d = [i \in DOMAIN SetToSeq(S) |-> g[SetToSeq(S)[i]]]

Complete(S, g, d) ==
  /\ \A i \in DOMAIN d : \E x \in S : d[i] = g[x]
  /\ \A x \in S : \E i \in DOMAIN d : d[i] = g[x]

LEMMA DitsDUneTable ==
  ASSUME NEW S, IsFiniteSet(S), NEW T, NEW d, NEW g \in [S -> T], Dite(S, g, d)
  PROVE  d \in Seq(T) /\ Complete(S, g, d)
<1> DEFINE tous == SetToSeq(S)
           n == Cardinality(S)
<1>1. /\ n \in Nat /\ tous \in [1..n -> S]
      /\ \A x \in S : \E i \in DOMAIN tous : tous[i] = x
  BY SuiteDe
<1> HIDE DEF tous, n
<1>2. d = [i \in DOMAIN tous |-> g[tous[i]]] BY DEF tous, Dite
<1>3. d \in [1..n -> T] BY <1>1, <1>2
<1>4. d \in Seq(T) BY <1>1, <1>3
<1> QED BY <1>1, <1>2, <1>4 DEF Complete

LEMMA DitsInscriptions ==
  ASSUME IInv, NEW q \in Racine
  PROVE  /\ DitsDesInscriptions(q) \in Seq(OperationDe(Emise))
         /\ Inscrits(DitsDesInscriptions(q)) = DOMAIN declarations[q]
         /\ Ordonnee(DitsDesInscriptions(q), {})
         /\ Vraie(DitsDesInscriptions(q))
<1> DEFINE T == AuxInscriptions(Emise)
           S1 == DOMAIN declarations[q]
           S2 == DOMAIN presentations[q]
           S3 == DOMAIN marques[q]
           S4 == DOMAIN hebergements[q]
           S5 == DOMAIN locateurs[q]
           g1 == [c \in S1 |-> [quoi |-> "inscription", estampille |-> c, code |-> c,
                                enregistrement |-> declarations[q][c]]]
           g2 == [c \in S2 |-> [quoi |-> "presentation", code |-> c,
                                estampille |-> presentations[q][c].estampille,
                                enregistrement |-> presentations[q][c]]]
           g3 == [m \in S3 |-> [quoi |-> "marque", estampille |-> marques[q][m],
                                marque |-> m]]
           g4 == [d \in S4 |-> [quoi |-> "hebergeur",
                                estampille |-> hebergements[q][d].estampille,
                                domaine |-> d, annuaire |-> hebergements[q][d].annuaire]]
           g5 == [m \in S5 |-> [quoi |-> "locateurs", estampille |-> locateurs[q][m],
                                membre |-> m]]
           d1 == [i \in DOMAIN SetToSeq(S1) |->
                    [quoi |-> "inscription", estampille |-> SetToSeq(S1)[i],
                     code |-> SetToSeq(S1)[i],
                     enregistrement |-> declarations[q][SetToSeq(S1)[i]]]]
           d2 == [i \in DOMAIN SetToSeq(S2) |->
                    [quoi |-> "presentation", code |-> SetToSeq(S2)[i],
                     estampille |-> presentations[q][SetToSeq(S2)[i]].estampille,
                     enregistrement |-> presentations[q][SetToSeq(S2)[i]]]]
           d3 == [i \in DOMAIN SetToSeq(S3) |->
                    [quoi |-> "marque", estampille |-> marques[q][SetToSeq(S3)[i]],
                     marque |-> SetToSeq(S3)[i]]]
           d4 == [i \in DOMAIN SetToSeq(S4) |->
                    [quoi |-> "hebergeur",
                     estampille |-> hebergements[q][SetToSeq(S4)[i]].estampille,
                     domaine |-> SetToSeq(S4)[i],
                     annuaire |-> hebergements[q][SetToSeq(S4)[i]].annuaire]]
           d5 == [i \in DOMAIN SetToSeq(S5) |->
                    [quoi |-> "locateurs", estampille |-> locateurs[q][SetToSeq(S5)[i]],
                     membre |-> SetToSeq(S5)[i]]]
<1>1. DitsDesInscriptions(q) = d1 \o d2 \o d3 \o d4 \o d5
  BY DEF DitsDesInscriptions, Dits
<1>2. InscriptionsDe(q) BY DEF IInv, Locale
<1>3. /\ IsFiniteSet(S1) /\ IsFiniteSet(S2) /\ IsFiniteSet(S3)
      /\ IsFiniteSet(S4) /\ IsFiniteSet(S5)
  BY <1>2 DEF InscriptionsDe, TableDe
<1>4. /\ Dite(S1, g1, d1)
      /\ Dite(S2, g2, d2)
      /\ Dite(S3, g3, d3)
      /\ Dite(S4, g4, d4)
      /\ Dite(S5, g5, d5)
  <2>1. \A S : IsFiniteSet(S) => \A i \in DOMAIN SetToSeq(S) : SetToSeq(S)[i] \in S
    BY SuiteDe
  <2>2. /\ \A i \in DOMAIN SetToSeq(S1) : SetToSeq(S1)[i] \in S1
        /\ \A i \in DOMAIN SetToSeq(S2) : SetToSeq(S2)[i] \in S2
        /\ \A i \in DOMAIN SetToSeq(S3) : SetToSeq(S3)[i] \in S3
        /\ \A i \in DOMAIN SetToSeq(S4) : SetToSeq(S4)[i] \in S4
        /\ \A i \in DOMAIN SetToSeq(S5) : SetToSeq(S5)[i] \in S5
    BY <2>1, <1>3
  <2> HIDE DEF S1, S2, S3, S4, S5
  <2>3. d1 = [i \in DOMAIN SetToSeq(S1) |-> g1[SetToSeq(S1)[i]]] BY <2>2
  <2>4. d2 = [i \in DOMAIN SetToSeq(S2) |-> g2[SetToSeq(S2)[i]]] BY <2>2
  <2>5. d3 = [i \in DOMAIN SetToSeq(S3) |-> g3[SetToSeq(S3)[i]]] BY <2>2
  <2>6. d4 = [i \in DOMAIN SetToSeq(S4) |-> g4[SetToSeq(S4)[i]]] BY <2>2
  <2>7. d5 = [i \in DOMAIN SetToSeq(S5) |-> g5[SetToSeq(S5)[i]]] BY <2>2
  <2> QED BY <2>3, <2>4, <2>5, <2>6, <2>7 DEF Dite
<1>5. g1 \in [S1 -> T]
  <2>1. \A c \in S1 : c \in Emise /\ declarations[q][c] \in Declaration
    BY <1>2 DEF InscriptionsDe, TableDe
  <2> HIDE DEF S1
  <2> QED BY <2>1 DEF AuxInscriptions
<1>6. g2 \in [S2 -> T]
  <2>1. \A c \in S2 : /\ c \in Emise /\ presentations[q][c] \in PresentationDe(Emise)
                      /\ presentations[q][c].estampille \in Emise
    BY <1>2 DEF InscriptionsDe, TableDe, PresentationDe
  <2> HIDE DEF S2
  <2> QED BY <2>1 DEF AuxInscriptions
<1>7. g3 \in [S3 -> T]
  <2>1. \A m \in S3 : m \in MarqueDe /\ marques[q][m] \in Emise
    BY <1>2 DEF InscriptionsDe, TableDe
  <2> HIDE DEF S3
  <2> QED BY <2>1 DEF AuxInscriptions
<1>8. g4 \in [S4 -> T]
  <2>1. \A d \in S4 : /\ d \in DOMAIN DomaineDe
                      /\ hebergements[q][d].estampille \in Emise
                      /\ hebergements[q][d].annuaire \in Membres \cup {SansAnnuaire}
    BY <1>2 DEF InscriptionsDe, TableDe, HebergementDe
  <2> HIDE DEF S4
  <2> QED BY <2>1 DEF AuxInscriptions
<1>9. g5 \in [S5 -> T]
  <2>1. \A m \in S5 : m \in Membres /\ locateurs[q][m] \in Emise
    BY <1>2 DEF InscriptionsDe, TableDe
  <2> HIDE DEF S5
  <2> QED BY <2>1 DEF AuxInscriptions
<1>10. /\ \A c \in S1 : g1[c].quoi = "inscription" /\ g1[c].code = c
       /\ \A c \in S2 : g2[c].quoi = "presentation" /\ g2[c].code = c
       /\ \A m \in S3 : g3[m].quoi = "marque"
       /\ \A d \in S4 : g4[d].quoi = "hebergeur"
       /\ \A m \in S5 : g5[m].quoi = "locateurs"
  OBVIOUS
<1>11. S2 \subseteq S1 BY <1>2 DEF InscriptionsDe
<1> HIDE DEF T, S1, S2, S3, S4, S5, g1, g2, g3, g4, g5, d1, d2, d3, d4, d5
<1>12. d1 \in Seq(T) /\ Complete(S1, g1, d1)
  BY <1>3, <1>4, <1>5, DitsDUneTable
<1>13. d2 \in Seq(T) /\ Complete(S2, g2, d2)
  BY <1>3, <1>4, <1>6, DitsDUneTable
<1>14. d3 \in Seq(T) /\ Complete(S3, g3, d3)
  BY <1>3, <1>4, <1>7, DitsDUneTable
<1>15. d4 \in Seq(T) /\ Complete(S4, g4, d4)
  BY <1>3, <1>4, <1>8, DitsDUneTable
<1>16. d5 \in Seq(T) /\ Complete(S5, g5, d5)
  BY <1>3, <1>4, <1>9, DitsDUneTable
<1>17. Inscrits(d1) = S1 /\ Ordonnee(d1, {}) /\ Vraie(d1)
  <2>1. \A i \in DOMAIN d1 : d1[i].quoi = "inscription" /\ d1[i].code \in S1
    BY <1>10, <1>12 DEF Complete
  <2>2. \A c \in S1 : \E i \in DOMAIN d1 : d1[i].code = c BY <1>10, <1>12 DEF Complete
  <2>3. Inscrits(d1) = S1 BY <2>1, <2>2 DEF Inscrits
  <2>4. Ordonnee(d1, {}) /\ Vraie(d1) BY <2>1 DEF Ordonnee, Vraie
  <2> QED BY <2>3, <2>4
<1>18. Inscrits(d2) = {} /\ Ordonnee(d2, S1) /\ Vraie(d2)
  BY <1>10, <1>11, <1>13 DEF Complete, Inscrits, Ordonnee, Vraie
<1>19. Inscrits(d3) = {} /\ (\A D : Ordonnee(d3, D)) /\ Vraie(d3)
  BY <1>10, <1>14 DEF Complete, Inscrits, Ordonnee, Vraie
<1>20. Inscrits(d4) = {} /\ (\A D : Ordonnee(d4, D)) /\ Vraie(d4)
  BY <1>10, <1>15 DEF Complete, Inscrits, Ordonnee, Vraie
<1>21. Inscrits(d5) = {} /\ (\A D : Ordonnee(d5, D)) /\ Vraie(d5)
  BY <1>10, <1>16 DEF Complete, Inscrits, Ordonnee, Vraie
<1> DEFINE e2 == d1 \o d2
           e3 == e2 \o d3
           e4 == e3 \o d4
           e5 == e4 \o d5
<1>22. {} \cup S1 = S1 /\ S1 \cup {} = S1 OBVIOUS
<1>23. e2 \in Seq(T) /\ Inscrits(e2) = S1 /\ Ordonnee(e2, {}) /\ Vraie(e2)
  <2>1. Ordonnee(d2, Inscrits(d1)) BY <1>12, <1>17, <1>13, <1>18
  <2>2. /\ e2 \in Seq(T) /\ Inscrits(e2) = Inscrits(d1) \cup Inscrits(d2)
        /\ Ordonnee(e2, {}) /\ Vraie(e2)
    BY <2>1, <1>12, <1>17, <1>13, <1>18, FileJointe
  <2>3. Inscrits(e2) = S1 BY <2>2, <1>12, <1>17, <1>13, <1>18, <1>22
  <2> QED BY <2>2, <2>3
<1> HIDE DEF e2
<1>24. e3 \in Seq(T) /\ Inscrits(e3) = S1 /\ Ordonnee(e3, {}) /\ Vraie(e3)
  <2>1. Ordonnee(d3, Inscrits(e2)) BY <1>23, <1>14, <1>19
  <2>2. /\ e3 \in Seq(T) /\ Inscrits(e3) = Inscrits(e2) \cup Inscrits(d3)
        /\ Ordonnee(e3, {}) /\ Vraie(e3)
    BY <2>1, <1>23, <1>14, <1>19, FileJointe
  <2>3. Inscrits(e3) = S1 BY <2>2, <1>23, <1>14, <1>19, <1>22
  <2> QED BY <2>2, <2>3
<1> HIDE DEF e3
<1>25. e4 \in Seq(T) /\ Inscrits(e4) = S1 /\ Ordonnee(e4, {}) /\ Vraie(e4)
  <2>1. Ordonnee(d4, Inscrits(e3)) BY <1>24, <1>15, <1>20
  <2>2. /\ e4 \in Seq(T) /\ Inscrits(e4) = Inscrits(e3) \cup Inscrits(d4)
        /\ Ordonnee(e4, {}) /\ Vraie(e4)
    BY <2>1, <1>24, <1>15, <1>20, FileJointe
  <2>3. Inscrits(e4) = S1 BY <2>2, <1>24, <1>15, <1>20, <1>22
  <2> QED BY <2>2, <2>3
<1> HIDE DEF e4
<1>26. e5 \in Seq(T) /\ Inscrits(e5) = S1 /\ Ordonnee(e5, {}) /\ Vraie(e5)
  <2>1. Ordonnee(d5, Inscrits(e4)) BY <1>25, <1>16, <1>21
  <2>2. /\ e5 \in Seq(T) /\ Inscrits(e5) = Inscrits(e4) \cup Inscrits(d5)
        /\ Ordonnee(e5, {}) /\ Vraie(e5)
    BY <2>1, <1>25, <1>16, <1>21, FileJointe
  <2>3. Inscrits(e5) = S1 BY <2>2, <1>25, <1>16, <1>21, <1>22
  <2> QED BY <2>2, <2>3
<1>27. DitsDesInscriptions(q) = e5 BY <1>1 DEF e2, e3, e4
<1> HIDE DEF e5
<1>28. T \subseteq OperationDe(Emise) BY DEF OperationDe, T
<1>29. e5 \in Seq(OperationDe(Emise)) BY <1>26, <1>28
<1> QED BY <1>26, <1>27, <1>29 DEF S1

LEMMA Instantanee ==
  ASSUME IInv, NEW q \in Racine
  PROVE  /\ Instantane(q) \in Seq(OperationDe(Emise))
         /\ Inscrits(Instantane(q)) = DOMAIN declarations[q]
         /\ Ordonnee(Instantane(q), {})
         /\ Vraie(Instantane(q))
<1> DEFINE T == OperationDe(Emise)
           S == DOMAIN declarations[q]
           d1 == DitsDesEffaces(q)
           d2 == DitsDesMachines(q)
           d3 == DitsDesInvitations(q)
           d4 == DitsDesServices(q)
           d5 == DitsDesInscriptions(q)
           e2 == d1 \o d2
           e3 == e2 \o d3
           e4 == e3 \o d4
           e5 == e4 \o d5
<1>1. d1 \in Seq(T) /\ Inscrits(d1) = {} /\ Ordonnee(d1, {}) /\ Vraie(d1)
  BY DitsEffaces, MachinesMuettes
<1>2. d2 \in Seq(T) /\ Inscrits(d2) = {} /\ Ordonnee(d2, {}) /\ Vraie(d2)
  BY DitsMachines, MachinesMuettes
<1>3. d3 \in Seq(T) /\ Inscrits(d3) = {} /\ Ordonnee(d3, {}) /\ Vraie(d3)
  BY DitsInvitations, InvitationsMuettes
<1>4. d4 \in Seq(T) /\ Inscrits(d4) = {} /\ Ordonnee(d4, {}) /\ Vraie(d4)
  BY DitsServices, MachinesMuettes
<1>5. d5 \in Seq(T) /\ Inscrits(d5) = S /\ Ordonnee(d5, {}) /\ Vraie(d5)
  BY DitsInscriptions
<1>6. Instantane(q) = e5 BY DEF Instantane
<1> HIDE DEF T, S, d1, d2, d3, d4, d5
<1>7. {} \cup {} = {} /\ {} \cup S = S OBVIOUS
<1>8. e2 \in Seq(T) /\ Inscrits(e2) = {} /\ Ordonnee(e2, {}) /\ Vraie(e2)
  <2>1. Ordonnee(d2, Inscrits(d1)) BY <1>1, <1>2
  <2>2. /\ e2 \in Seq(T) /\ Inscrits(e2) = Inscrits(d1) \cup Inscrits(d2)
        /\ Ordonnee(e2, {}) /\ Vraie(e2)
    BY <2>1, <1>1, <1>2, FileJointe
  <2>3. Inscrits(e2) = {} BY <2>2, <1>1, <1>2, <1>7
  <2> QED BY <2>2, <2>3
<1> HIDE DEF e2
<1>9. e3 \in Seq(T) /\ Inscrits(e3) = {} /\ Ordonnee(e3, {}) /\ Vraie(e3)
  <2>1. Ordonnee(d3, Inscrits(e2)) BY <1>8, <1>3
  <2>2. /\ e3 \in Seq(T) /\ Inscrits(e3) = Inscrits(e2) \cup Inscrits(d3)
        /\ Ordonnee(e3, {}) /\ Vraie(e3)
    BY <2>1, <1>8, <1>3, FileJointe
  <2>3. Inscrits(e3) = {} BY <2>2, <1>8, <1>3, <1>7
  <2> QED BY <2>2, <2>3
<1> HIDE DEF e3
<1>10. e4 \in Seq(T) /\ Inscrits(e4) = {} /\ Ordonnee(e4, {}) /\ Vraie(e4)
  <2>1. Ordonnee(d4, Inscrits(e3)) BY <1>9, <1>4
  <2>2. /\ e4 \in Seq(T) /\ Inscrits(e4) = Inscrits(e3) \cup Inscrits(d4)
        /\ Ordonnee(e4, {}) /\ Vraie(e4)
    BY <2>1, <1>9, <1>4, FileJointe
  <2>3. Inscrits(e4) = {} BY <2>2, <1>9, <1>4, <1>7
  <2> QED BY <2>2, <2>3
<1> HIDE DEF e4
<1>11. e5 \in Seq(T) /\ Inscrits(e5) = S /\ Ordonnee(e5, {}) /\ Vraie(e5)
  <2>1. Ordonnee(d5, Inscrits(e4)) BY <1>10, <1>5
  <2>2. /\ e5 \in Seq(T) /\ Inscrits(e5) = Inscrits(e4) \cup Inscrits(d5)
        /\ Ordonnee(e5, {}) /\ Vraie(e5)
    BY <2>1, <1>10, <1>5, FileJointe
  <2>3. Inscrits(e5) = S BY <2>2, <1>10, <1>5, <1>7
  <2> QED BY <2>2, <2>3
<1> HIDE DEF e5
<1> QED BY <1>6, <1>11 DEF T, S

\* The snapshot replaces the queue of the root that reads it, and nothing else.
LEMMA PasAmorcer ==
  ASSUME IInv, NEW r \in Racine, Amorcer(r)
  PROVE  IInv'
<1> DEFINE q == Pair[r]
           T == OperationDe(Emise)
           s == Instantane(q)
           fin == Fin(q)
           u == s \o <<fin>>
<1>1. q \in Racine BY RepliqueAssumption
<1>2. AmorcerPar(r, s) /\ UNCHANGED <<tables, part, ecritures>> BY DEF Amorcer
<1>3. s \in Seq(T) /\ Inscrits(s) = DOMAIN declarations[q] /\ Ordonnee(s, {}) /\ Vraie(s)
  BY <1>1, Instantanee
<1>4. compteur \in [Racine -> Nat] /\ amorcages \in Nat /\ enRoute \in [Racine -> Seq(T)]
  BY DEF IInv, Voies
<1>5. fin \in AuxMachines(Emise) /\ fin.quoi = "fin"
  <2>1. Fin(q).estampille \in Emise BY <1>1, <1>4, FinEmise
  <2> QED BY <2>1 DEF Fin, AuxMachines
<1>6. <<fin>> \in Seq(AuxMachines(Emise))
  <2> HIDE DEF fin
  <2> QED BY <1>5
<1>7. <<fin>> \in Seq(T) /\ Inscrits(<<fin>>) = {} /\ (\A D : Ordonnee(<<fin>>, D)) /\ Vraie(<<fin>>)
  <2> HIDE DEF fin
  <2> QED BY <1>6, MachinesMuettes
<1>8. fin \in T
  <2> HIDE DEF fin
  <2> QED BY <1>5 DEF OperationDe
<1>9. /\ enRoute' \in [Racine -> Seq(T)] /\ enRoute'[r] = u
      /\ \A p \in Racine : p # r => enRoute'[p] = enRoute[p]
      /\ amorcages' \in Nat /\ compteur' = compteur
  <2> HIDE DEF T, s
  <2> QED BY <1>2, <1>3, <1>4, <1>8, Amorcee
<1>10. u \in Seq(T) /\ Inscrits(u) = DOMAIN declarations[q] /\ Ordonnee(u, {}) /\ Vraie(u)
  <2> DEFINE f == <<fin>>
  <2> HIDE DEF T, s, fin, f
  <2>1. f \in Seq(T) /\ Inscrits(f) = {} /\ (\A D : Ordonnee(f, D)) /\ Vraie(f)
    BY <1>7 DEF f
  <2>2. /\ s \o f \in Seq(T) /\ Inscrits(s \o f) = Inscrits(s) \cup Inscrits(f)
        /\ Ordonnee(s \o f, {}) /\ Vraie(s \o f)
    BY <1>3, <2>1, FileJointe
  <2>3. Inscrits(s \o f) = DOMAIN declarations[q] BY <1>3, <2>1, <2>2
  <2> QED BY <2>2, <2>3 DEF f
<1>11. Emise' = Emise BY <1>9 DEF Emise
<1>12. Voies'
  <2>1. (enRoute \in [Racine -> Seq(OperationDe(Emise))])' BY <1>9, <1>11
  <2> QED BY <2>1, <1>4, <1>9 DEF Voies
<1>13. ASSUME NEW p \in Racine PROVE Locale(p)'
  <2>1. MachinesDe(p)'
    BY <1>2, <1>9, <1>11 DEF IInv, Locale, MachinesDe, tables, tablesDesMachines
  <2>2. InvitationsDe(p)'
    BY <1>2, <1>11 DEF IInv, Locale, InvitationsDe, tables, tablesDesInvitations
  <2>3. InscriptionsDe(p)'
    BY <1>2, <1>11 DEF IInv, Locale, InscriptionsDe, tables, tablesDesInscriptions
  <2> QED BY <2>1, <2>2, <2>3 DEF Locale
<1>14. ouverts' = ouverts /\ declarations' = declarations
  BY <1>2 DEF tables, tablesDesInvitations, tablesDesInscriptions
<1>15. CheminDe(r)'
  <2> HIDE DEF u
  <2>1. Ordonnee(u, DOMAIN declarations[r]) BY <1>10, OrdonneeLarge
  <2> QED BY <1>9, <1>10, <1>14, <2>1 DEF CheminDe, Vraie
<1>16. ASSUME NEW p \in Racine, p # r PROVE CheminDe(p)'
  BY <1>9, <1>14, <1>16 DEF IInv, CheminDe
<1>17. Racines'
  BY <1>2 DEF IInv, Racines, tables, tablesDesMachines, tablesDesInvitations,
              tablesDesInscriptions
<1> QED BY <1>12, <1>13, <1>15, <1>16, <1>17 DEF IInv

-----------------------------------------------------------------------------
(* A step.                                                                 *)

\* A step of root r: the other roots keep their tables, the stamps stay given.
LEMMA Pas ==
  ASSUME IInv, NEW r \in Racine, Voies', Racines', Avance, Ailleurs(r),
         MachinesDe(r)', InvitationsDe(r)', InscriptionsDe(r)', \A q \in Racine : CheminDe(q)'
  PROVE  IInv'
<1>1. ASSUME NEW q \in Racine PROVE Locale(q)'
  <2>1. CASE q = r BY <2>1 DEF Locale
  <2>2. CASE q # r
    <3>1. MemesMachines(q) /\ MemesInvitations(q) /\ MemesInscriptions(q)
      BY <2>2 DEF Ailleurs
    <3>2. Voies /\ MachinesDe(q) /\ InvitationsDe(q) /\ InscriptionsDe(q) BY DEF IInv, Locale
    <3>3. MachinesDe(q)' BY <3>1, <3>2, MachinesRestent
    <3>4. InvitationsDe(q)' BY <3>1, <3>2, InvitationsRestent
    <3>5. InscriptionsDe(q)' BY <3>1, <3>2, InscriptionsRestent
    <3> QED BY <3>3, <3>4, <3>5 DEF Locale
  <2> QED BY <2>1, <2>2
<1> QED BY <1>1 DEF IInv

LEMMA Avancee ==
  ASSUME IInv, NEW r \in Racine, NEW ops, Len(ops) \in Nat, JournaliserTout(r, ops),
         \A p \in Racine : ouverts[p] \subseteq ouverts'[p]
  PROVE  /\ Avance /\ compteur'[r] = compteur[r] + Len(ops) /\ compteur[r] \in Nat
         /\ \A i \in 1..Len(ops) : Prochaine(r, i) \in Emise' /\ Prochaine(r, i) \notin Emise
<1>1. compteur \in [Racine -> Nat] BY DEF IInv, Voies
<1>2. compteur' = [compteur EXCEPT ![r] = @ + Len(ops)] BY DEF JournaliserTout
<1>3. /\ compteur' \in [Racine -> Nat] /\ Emise \subseteq Emise'
      /\ \A q \in Racine : compteur[q] <= compteur'[q]
      /\ \A i \in 1..Len(ops) : Prochaine(r, i) \in Emise' /\ Prochaine(r, i) \notin Emise
  BY <1>1, <1>2, Ecrite
<1>4. compteur'[r] = compteur[r] + Len(ops) /\ compteur[r] \in Nat BY <1>1, <1>2
<1> QED BY <1>3, <1>4 DEF Avance

\* One operation: its stamp is new, and is the clock.
LEMMA AvanceeDUne ==
  ASSUME IInv, NEW r \in Racine, NEW operation, Journaliser(r, operation),
         \A p \in Racine : ouverts[p] \subseteq ouverts'[p]
  PROVE  /\ Avance /\ Suivante(r) \in Emise' /\ Suivante(r) \notin Emise
         /\ Suivante(r).compteur = compteur'[r] /\ Suivante(r).compteur = compteur[r] + 1
         /\ compteur[r] \in Nat /\ Suivante(r).racine = r
<1>1. Len(<<operation>>) = 1 OBVIOUS
<1>2. JournaliserTout(r, <<operation>>) BY DEF Journaliser
<1> DEFINE ops == <<operation>>
<1>3. Len(ops) \in Nat /\ 1 \in 1..Len(ops) BY <1>1
<1> HIDE DEF ops
<1>4. /\ Avance /\ compteur'[r] = compteur[r] + Len(ops) /\ compteur[r] \in Nat
      /\ \A i \in 1..Len(ops) : Prochaine(r, i) \in Emise' /\ Prochaine(r, i) \notin Emise
  BY <1>2, <1>3, Avancee DEF ops
<1>5. Suivante(r) = Prochaine(r, 1) /\ Suivante(r).compteur = compteur[r] + 1
      /\ Suivante(r).racine = r
  BY DEF Suivante, Prochaine
<1> QED BY <1>1, <1>3, <1>4, <1>5 DEF ops

LEMMA PasEcrit ==
  ASSUME IInv, NEW r \in Racine, NEW ops, JournaliserTout(r, ops),
         ops \in Seq(OperationDe(Emise')),
         \A p \in Racine : ouverts[p] \subseteq ouverts'[p],
         Racines', Ailleurs(r), MachinesDe(r)', InvitationsDe(r)', InscriptionsDe(r)',
         DOMAIN declarations'[r] = DOMAIN declarations[r] \cup Inscrits(ops),
         \A i \in DOMAIN ops : ops[i].quoi = "ouvert" =>
           [par |-> ops[i].par, compte |-> ops[i].compte] \in ouverts'[ops[i].compte.racine],
         \A i \in DOMAIN ops :
           ops[i].quoi = "presentation" => ops[i].code \in DOMAIN declarations[r]
  PROVE  IInv'
<1>1. Voies' BY VoiesEcrites
<1>2. Len(ops) \in Nat OBVIOUS
<1>3. Avance BY <1>2, Avancee
<1>4. \A q \in Racine \ {r} : declarations'[q] = declarations[q]
  BY DEF Ailleurs, MemesInscriptions
<1>5. \A q \in Racine : CheminDe(q)' BY <1>4, CheminEcrit
<1> QED BY <1>1, <1>3, <1>5, Pas

\* What is not touched.
LEMMA InvitationsIntactes ==
  ASSUME IInv, NEW r \in Racine, Avance, UNCHANGED tablesDesInvitations
  PROVE  /\ InvitationsDe(r)' /\ \A q \in Racine : MemesInvitations(q)
         /\ DOMAIN invitations' = Racine /\ DOMAIN ouverts' = Racine
         /\ DOMAIN balayees' = Racine
<1>1. \A q \in Racine : MemesInvitations(q)
  BY DEF MemesInvitations, tablesDesInvitations
<1>2. InvitationsDe(r)' BY <1>1, InvitationsRestent DEF IInv, Locale
<1> QED BY <1>1, <1>2 DEF IInv, Racines, tablesDesInvitations

LEMMA InscriptionsIntactes ==
  ASSUME IInv, NEW r \in Racine, Avance, UNCHANGED tablesDesInscriptions
  PROVE  /\ InscriptionsDe(r)' /\ \A q \in Racine : MemesInscriptions(q)
         /\ DOMAIN declarations' = Racine /\ DOMAIN presentations' = Racine
         /\ DOMAIN marques' = Racine /\ DOMAIN hebergements' = Racine
         /\ DOMAIN locateurs' = Racine
<1>1. \A q \in Racine : MemesInscriptions(q)
  BY DEF MemesInscriptions, tablesDesInscriptions
<1>2. InscriptionsDe(r)' BY <1>1, InscriptionsRestent DEF IInv, Locale
<1> QED BY <1>1, <1>2 DEF IInv, Racines, tablesDesInscriptions

LEMMA MachinesIntactes ==
  ASSUME IInv, NEW r \in Racine, Avance, UNCHANGED tablesDesMachines
  PROVE  /\ MachinesDe(r)' /\ \A q \in Racine : MemesMachines(q)
         /\ DOMAIN effaces' = Racine /\ DOMAIN machines' = Racine
         /\ DOMAIN services' = Racine
<1>1. \A q \in Racine : MemesMachines(q)
  BY DEF MemesMachines, tablesDesMachines
<1>2. MachinesDe(r)' BY <1>1, MachinesRestent DEF IInv, Locale
<1> QED BY <1>1, <1>2 DEF IInv, Racines, tablesDesMachines

-----------------------------------------------------------------------------
(* Machines and services.                                                  *)

\* The tables of machines after a step of root r.
MachinesApres(r) ==
  /\ MachinesDe(r)' /\ \A q \in Racine \ {r} : MemesMachines(q)
  /\ DOMAIN effaces' = Racine /\ DOMAIN machines' = Racine /\ DOMAIN services' = Racine

\* The tables of machines, whatever they were, over the stamps of the next state.
LEMMA MachinesLarges ==
  ASSUME IInv, NEW r \in Racine, Avance
  PROVE  /\ TableDe(machines[r], Emise', MachineDe(Emise'))
         /\ TableDe(services[r], [machine : Emise', nom : Noms], Emise')
         /\ \A m \in DOMAIN machines[r] : machines[r][m].estampille.compteur <= compteur'[r]
<1>1. MachinesDe(r) /\ Voies BY DEF IInv, Locale
<1> DEFINE F == Emise'
           M1 == MachineDe(Emise)
           M2 == MachineDe(F)
           S1 == [machine : Emise, nom : Noms]
           S2 == [machine : F, nom : Noms]
<1>2. M1 \subseteq M2 /\ S1 \subseteq S2 /\ Emise \subseteq F BY Larges DEF Avance
<1>3. TableDe(machines[r], Emise, M1) /\ TableDe(services[r], S1, Emise)
  BY <1>1 DEF MachinesDe
<1>4. TableDe(machines[r], F, M2) /\ TableDe(services[r], S2, F)
  <2> HIDE DEF M1, M2, S1, S2, F
  <2> QED BY <1>2, <1>3 DEF TableDe
<1>5. \A m \in DOMAIN machines[r] : machines[r][m].estampille.compteur <= compteur'[r]
  <2>1. \A x \in DOMAIN machines[r] :
          /\ machines[r][x].estampille.compteur \in Nat
          /\ machines[r][x].estampille.compteur <= compteur[r]
    BY <1>1 DEF MachinesDe, TableDe, MachineDe, Emise, Estampille
  <2>2. compteur[r] \in Nat /\ compteur'[r] \in Nat /\ compteur[r] <= compteur'[r]
    BY <1>1 DEF Avance, Voies
  <2> QED BY <2>1, <2>2
<1> QED BY <1>4, <1>5

LEMMA RangeeMachine ==
  ASSUME IInv, NEW r \in Racine, Avance, NEW m \in Emise', NEW machine \in MachineDe(Emise'),
         machine.estampille.compteur <= compteur'[r],
         machines' = [machines EXCEPT ![r] = Poser(@, m, machine)],
         UNCHANGED <<effaces, services>>
  PROVE  MachinesApres(r)
<1>1. MachinesDe(r) /\ Racines /\ Voies BY DEF IInv, Locale
<1>2. /\ machines'[r] = Poser(machines[r], m, machine) /\ DOMAIN machines' = Racine
      /\ \A q \in Racine \ {r} : MemesMachines(q)
  BY <1>1 DEF Racines, MemesMachines
<1> DEFINE F == Emise'
           M == MachineDe(F)
           f == machines[r]
           g == machines'[r]
<1>3. /\ TableDe(f, F, M) /\ TableDe(services[r], [machine : F, nom : Noms], F)
      /\ \A x \in DOMAIN f : f[x].estampille.compteur <= compteur'[r]
  BY MachinesLarges
<1>4. TableDe(g, F, M)
  <2> HIDE DEF M, F
  <2>1. TableDe(Poser(f, m, machine), F, M) BY <1>3, PoseeTable DEF F, M
  <2> QED BY <2>1, <1>2
<1>5. /\ DOMAIN g = DOMAIN f \cup {m} /\ g[m] = machine
      /\ \A x \in DOMAIN f : x # m => g[x] = f[x]
  BY <1>2 DEF Poser
<1>7. \A x \in DOMAIN g : g[x].estampille.compteur <= compteur'[r]
  <2> HIDE DEF f, g
  <2> QED BY <1>3, <1>5
<1>9. MachinesDe(r)'
  <2>1. effaces[r] \subseteq Titulaires /\ IsFiniteSet(effaces[r]) BY <1>1 DEF MachinesDe
  <2> QED BY <2>1, <1>3, <1>4, <1>7 DEF MachinesDe
<1> QED BY <1>1, <1>2, <1>9 DEF MachinesApres, Racines

LEMMA RangeService ==
  ASSUME IInv, NEW r \in Racine, Avance, NEW s \in [machine : Emise', nom : Noms],
         NEW e \in Emise',
         services' = [services EXCEPT ![r] = Poser(@, s, e)],
         UNCHANGED <<effaces, machines>>
  PROVE  MachinesApres(r)
<1>1. MachinesDe(r) /\ Racines /\ Voies BY DEF IInv, Locale
<1>2. /\ services'[r] = Poser(services[r], s, e) /\ DOMAIN services' = Racine
      /\ \A q \in Racine \ {r} : MemesMachines(q)
  BY <1>1 DEF Racines, MemesMachines
<1> DEFINE F == Emise'
           S1 == [machine : Emise, nom : Noms]
           S2 == [machine : F, nom : Noms]
           f == services[r]
<1>3. S1 \subseteq S2 BY Larges DEF Avance
<1>4. TableDe(f, S1, Emise) /\ Emise \subseteq F /\ s \in S2 /\ e \in F
  BY <1>1 DEF MachinesDe, Avance
<1>5. TableDe(services'[r], S2, F)
  <2> HIDE DEF S1, S2, F, f
  <2>1. TableDe(f, S2, F) BY <1>3, <1>4 DEF TableDe
  <2>2. TableDe(Poser(f, s, e), S2, F) BY <2>1, <1>4, PoseeTable
  <2> QED BY <2>2, <1>2 DEF f
<1>7. MachinesDe(r)'
  <2>1. /\ TableDe(machines[r], F, MachineDe(F))
        /\ \A m \in DOMAIN machines[r] : machines[r][m].estampille.compteur <= compteur'[r]
    BY MachinesLarges
  <2> QED BY <2>1, <1>1, <1>5 DEF MachinesDe
<1> QED BY <1>1, <1>2, <1>7 DEF MachinesApres, Racines

LEMMA EffaceesMachines ==
  ASSUME IInv, NEW r \in Racine, Avance, NEW c \in Titulaires, EffacerLesMachines(r, c)
  PROVE  MachinesApres(r)
<1>1. MachinesDe(r) /\ Racines /\ Voies BY DEF IInv, Locale
<1> DEFINE X == {m \in DOMAIN machines[r] : machines[r][m].proprietaire = c}
           Y == {s \in DOMAIN services[r] : s.machine \in X}
           F == Emise'
           S == [machine : F, nom : Noms]
           f == machines[r]
           g == machines'[r]
           h == services'[r]
<1>2. /\ effaces'[r] = effaces[r] \cup {c}
      /\ g = Sans(f, X) /\ h = Sans(services[r], Y)
      /\ DOMAIN effaces' = Racine /\ DOMAIN machines' = Racine /\ DOMAIN services' = Racine
      /\ \A q \in Racine \ {r} : MemesMachines(q)
  BY <1>1 DEF Racines, MemesMachines, EffacerLesMachines
<1>3. /\ TableDe(f, F, MachineDe(F)) /\ TableDe(services[r], S, F)
      /\ \A m \in DOMAIN f : f[m].estampille.compteur <= compteur'[r]
  BY MachinesLarges
<1>4. TableDe(g, F, MachineDe(F))
  <2> HIDE DEF X, F, f, g
  <2> QED BY <1>2, <1>3, RestreinteTable
<1>5. TableDe(h, S, F)
  <2> HIDE DEF Y, S, F, h
  <2> QED BY <1>2, <1>3, RestreinteTable
<1>6. DOMAIN g = DOMAIN f \ X /\ \A m \in DOMAIN g : g[m] = f[m] BY <1>2 DEF Sans
<1>7. \A m \in DOMAIN g : g[m].estampille.compteur <= compteur'[r] BY <1>3, <1>6
<1>9. effaces'[r] \subseteq Titulaires /\ IsFiniteSet(effaces'[r])
  BY <1>1, <1>2, FS_AddElement DEF MachinesDe
<1>10. MachinesDe(r)' BY <1>4, <1>5, <1>7, <1>9 DEF MachinesDe
<1> QED BY <1>2, <1>10 DEF MachinesApres

\* What is written in the tables of machines.
LEMMA PasDesMachines ==
  ASSUME IInv, NEW r \in Racine, NEW operation \in AuxMachines(Emise'),
         Journaliser(r, operation), MachinesApres(r),
         UNCHANGED <<tablesDesInvitations, tablesDesInscriptions>>
  PROVE  IInv'
<1> DEFINE ops == <<operation>>
<1>1. JournaliserTout(r, ops) BY DEF Journaliser
<1>2. \A p \in Racine : ouverts[p] \subseteq ouverts'[p] BY DEF tablesDesInvitations
<1>3. Avance BY <1>2, AvanceeDUne
<1>4. /\ InvitationsDe(r)' /\ \A q \in Racine : MemesInvitations(q)
      /\ DOMAIN invitations' = Racine /\ DOMAIN ouverts' = Racine
      /\ DOMAIN balayees' = Racine
  BY <1>3, InvitationsIntactes
<1>5. /\ InscriptionsDe(r)' /\ \A q \in Racine : MemesInscriptions(q)
      /\ DOMAIN declarations' = Racine /\ DOMAIN presentations' = Racine
      /\ DOMAIN marques' = Racine /\ DOMAIN hebergements' = Racine
      /\ DOMAIN locateurs' = Racine
  BY <1>3, InscriptionsIntactes
<1>6. ops \in Seq(OperationDe(Emise')) BY DEF OperationDe
<1>7. \A i \in DOMAIN ops : ops[i] = operation OBVIOUS
<1>8. operation.quoi \notin {"ouvert", "presentation", "inscription"} BY ChampsMachines
<1> HIDE DEF ops
<1>9. Inscrits(ops) = {} BY <1>7, <1>8 DEF Inscrits
<1>10. DOMAIN declarations'[r] = DOMAIN declarations[r] \cup Inscrits(ops)
  BY <1>5, <1>9 DEF MemesInscriptions
<1>11. Racines' BY <1>4, <1>5 DEF MachinesApres, Racines
<1>12. Ailleurs(r) BY <1>4, <1>5 DEF MachinesApres, Ailleurs
<1>13. MachinesDe(r)' BY DEF MachinesApres
<1> QED
  BY <1>1, <1>2, <1>4, <1>5, <1>6, <1>7, <1>8, <1>10, <1>11, <1>12, <1>13, PasEcrit

LEMMA PasCreerMachine ==
  ASSUME IInv, NEW r \in Racine, NEW c \in Titulaires, CreerMachine(r, c),
         UNCHANGED <<tablesDesInvitations, tablesDesInscriptions>>
  PROVE  IInv'
<1> DEFINE m == Suivante(r)
           machine == Machine(c, m)
           operation == [quoi |-> "machine", estampille |-> m, machine |-> m,
                         enregistrement |-> machine]
<1>1. /\ machines' = [machines EXCEPT ![r] = Poser(@, m, machine)]
      /\ Journaliser(r, operation) /\ UNCHANGED <<effaces, services>>
  BY DEF CreerMachine
<1>2. \A p \in Racine : ouverts[p] \subseteq ouverts'[p] BY DEF tablesDesInvitations
<1>3. /\ Avance /\ m \in Emise' /\ m.compteur = compteur'[r]
      /\ m.compteur = compteur[r] + 1 /\ compteur[r] \in Nat
  <2> HIDE DEF operation
  <2> QED BY <1>1, <1>2, AvanceeDUne
<1> HIDE DEF m
<1>4. /\ machine \in MachineDe(Emise') /\ machine.proprietaire = c /\ machine.estampille = m
  BY <1>3 DEF MachineDe, Machine
<1> HIDE DEF machine
<1>5. operation \in AuxMachines(Emise') BY <1>3, <1>4 DEF AuxMachines
<1>6. machine.estampille.compteur <= compteur'[r] BY <1>3, <1>4
<1>7. MachinesApres(r) BY <1>1, <1>3, <1>4, <1>6, RangeeMachine
<1> HIDE DEF operation
<1> QED BY <1>1, <1>5, <1>7, PasDesMachines

\* A row that is written over the one that is there.
LEMMA Remplacee ==
  ASSUME NEW f, NEW S, NEW T, TableDe(f, S, T), NEW m, m \in DOMAIN f, NEW v,
         NEW g, g = [f EXCEPT ![m] = v]
  PROVE  g = Poser(f, m, v)
<1>1. DOMAIN f \cup {m} = DOMAIN f OBVIOUS
<1>2. f \in [DOMAIN f -> T] BY DEF TableDe
<1> QED BY <1>1, <1>2 DEF Poser

LEMMA ModifieeDe ==
  ASSUME NEW E, E \subseteq Estampille, NEW machine \in MachineDe(E), NEW champs, NEW e \in E,
         machine.estampille.compteur <= e.compteur
  PROVE  /\ Modifiee(machine, champs, e) \in MachineDe(E)
         /\ Modifiee(machine, champs, e).estampille = e
         /\ Modifiee(machine, champs, e).proprietaire = machine.proprietaire
         /\ Modifiee(machine, champs, e).nom
              = IF "nom" \in champs THEN e ELSE machine.nom
         /\ Modifiee(machine, champs, e).capacites
              = IF "capacites" \in champs THEN e ELSE machine.capacites
<1>1. /\ machine \in [proprietaire : Titulaires, estampille : E, nom : E, capacites : E]
      /\ machine.nom.compteur <= machine.estampille.compteur
      /\ machine.capacites.compteur <= machine.estampille.compteur
  BY DEF MachineDe
<1>2. /\ machine.nom.compteur \in Nat /\ machine.capacites.compteur \in Nat
      /\ machine.estampille.compteur \in Nat /\ e.compteur \in Nat
  BY <1>1 DEF Estampille
<1> DEFINE v == Modifiee(machine, champs, e)
<1>3. /\ v.proprietaire = machine.proprietaire /\ v.estampille = e
      /\ v.nom = IF "nom" \in champs THEN e ELSE machine.nom
      /\ v.capacites = IF "capacites" \in champs THEN e ELSE machine.capacites
  BY <1>1 DEF Modifiee
<1>4. v \in [proprietaire : Titulaires, estampille : E, nom : E, capacites : E]
  BY <1>1 DEF Modifiee
<1> HIDE DEF v
<1>5. v.nom.compteur <= v.estampille.compteur BY <1>1, <1>2, <1>3
<1>6. v.capacites.compteur <= v.estampille.compteur BY <1>1, <1>2, <1>3
<1>7. v \in MachineDe(E) BY <1>4, <1>5, <1>6 DEF MachineDe
<1> QED BY <1>3, <1>7 DEF v

LEMMA PasModifierMachine ==
  ASSUME IInv, NEW r \in Racine, NEW m \in DOMAIN machines[r], ModifierMachine(r, m),
         UNCHANGED <<tablesDesInvitations, tablesDesInscriptions>>
  PROVE  IInv'
<1> DEFINE e == Suivante(r)
           f == machines[r]
<1>1. PICK champs \in (SUBSET {"nom", "capacites"}) \ {{}} :
        /\ machines' = [machines EXCEPT ![r][m] = Modifiee(@, champs, e)]
        /\ Journaliser(r, [quoi |-> "modifiee", estampille |-> e, machine |-> m,
                           champs |-> champs])
        /\ UNCHANGED <<effaces, services>>
  BY DEF ModifierMachine
<1> DEFINE operation == [quoi |-> "modifiee", estampille |-> e, machine |-> m,
                         champs |-> champs]
           machine == Modifiee(f[m], champs, e)
<1>2. \A p \in Racine : ouverts[p] \subseteq ouverts'[p] BY DEF tablesDesInvitations
<1>3. /\ Avance /\ e \in Emise' /\ e.compteur = compteur'[r]
      /\ e.compteur = compteur[r] + 1 /\ compteur[r] \in Nat
  <2>1. Journaliser(r, operation) BY <1>1
  <2> HIDE DEF operation
  <2> QED BY <2>1, <1>2, AvanceeDUne
<1> HIDE DEF e
<1>4. MachinesDe(r) /\ Racines BY DEF IInv, Locale
<1>5. TableDe(f, Emise', MachineDe(Emise')) BY <1>3, MachinesLarges
<1>6. f[m].estampille.compteur <= e.compteur
  <2>1. f[m].estampille.compteur \in Nat /\ f[m].estampille.compteur <= compteur[r]
    BY <1>4 DEF MachinesDe, TableDe, MachineDe, Emise, Estampille
  <2> QED BY <2>1, <1>3
<1>7. Emise' \subseteq Estampille BY DEF Emise
<1>8. f[m] \in MachineDe(Emise') /\ m \in Emise' BY <1>5 DEF TableDe
<1>9. /\ machine \in MachineDe(Emise') /\ machine.estampille = e
      /\ machine.proprietaire = f[m].proprietaire
  <2> DEFINE F == Emise'
             v == f[m]
  <2>1. F \subseteq Estampille /\ v \in MachineDe(F) /\ e \in F
        /\ v.estampille.compteur <= e.compteur
    BY <1>3, <1>6, <1>7, <1>8
  <2> HIDE DEF F, v
  <2> QED BY <2>1, ModifieeDe DEF F, v
<1>11. machines' = [machines EXCEPT ![r] = Poser(@, m, machine)]
  <2>1. machines' = [machines EXCEPT ![r][m] = machine] BY <1>1, <1>4 DEF Racines
  <2> DEFINE g == [f EXCEPT ![m] = machine]
  <2>2. machines' = [machines EXCEPT ![r] = g] BY <2>1, <1>4 DEF Racines
  <2>3. m \in DOMAIN f OBVIOUS
  <2>4. g = Poser(f, m, machine)
    <3> HIDE DEF machine, f
    <3> QED BY <1>5, <2>3, Remplacee
  <2> QED BY <2>2, <2>4
<1>12. machine.estampille.compteur <= compteur'[r] BY <1>3, <1>9
<1> HIDE DEF machine
<1>13. MachinesApres(r) BY <1>1, <1>3, <1>8, <1>9, <1>11, <1>12, RangeeMachine
<1>14. operation \in AuxMachines(Emise') BY <1>3, <1>8 DEF AuxMachines
<1>15. Journaliser(r, operation) BY <1>1
<1> HIDE DEF operation
<1> QED BY <1>13, <1>14, <1>15, PasDesMachines

LEMMA PasDeclarerService ==
  ASSUME IInv, NEW r \in Racine, NEW m \in Emise, NEW nom \in Noms,
         DeclarerService(r, m, nom), UNCHANGED <<tablesDesInvitations, tablesDesInscriptions>>
  PROVE  IInv'
<1> DEFINE e == Suivante(r)
           s == [machine |-> m, nom |-> nom]
           operation == [quoi |-> "service", estampille |-> e, service |-> s]
<1>1. /\ services' = [services EXCEPT ![r] = Poser(@, s, e)]
      /\ Journaliser(r, operation) /\ UNCHANGED <<effaces, machines>>
  BY DEF DeclarerService
<1>2. \A p \in Racine : ouverts[p] \subseteq ouverts'[p] BY DEF tablesDesInvitations
<1>3. Avance /\ e \in Emise'
  <2> HIDE DEF operation
  <2> QED BY <1>1, <1>2, AvanceeDUne
<1> HIDE DEF e
<1>4. m \in Emise' BY <1>3 DEF Avance
<1>5. s \in [machine : Emise', nom : Noms] /\ s.machine = m BY <1>4
<1> HIDE DEF s
<1>6. operation \in AuxMachines(Emise') BY <1>3, <1>5 DEF AuxMachines
<1>7. MachinesApres(r) BY <1>1, <1>3, <1>5, RangeService
<1> HIDE DEF operation
<1> QED BY <1>1, <1>6, <1>7, PasDesMachines

LEMMA PasEffacerCompte ==
  ASSUME IInv, NEW r \in Racine, NEW c \in Titulaires, EffacerCompte(r, c),
         UNCHANGED <<tablesDesInvitations, tablesDesInscriptions>>
  PROVE  IInv'
<1> DEFINE e == Suivante(r)
           operation == [quoi |-> "efface", estampille |-> e, compte |-> c]
<1>1. EffacerLesMachines(r, c) /\ Journaliser(r, operation) BY DEF EffacerCompte
<1>2. \A p \in Racine : ouverts[p] \subseteq ouverts'[p] BY DEF tablesDesInvitations
<1>3. Avance /\ e \in Emise'
  <2> HIDE DEF operation
  <2> QED BY <1>1, <1>2, AvanceeDUne
<1>4. operation \in AuxMachines(Emise')
  <2> HIDE DEF e
  <2> QED BY <1>3 DEF AuxMachines
<1>5. MachinesApres(r) BY <1>1, <1>3, EffaceesMachines
<1> HIDE DEF operation
<1> QED BY <1>1, <1>4, <1>5, PasDesMachines

-----------------------------------------------------------------------------
(* Invitations.                                                            *)

\* The tables of invitations after a step of root r.
InvitationsApres(r) ==
  /\ InvitationsDe(r)' /\ \A q \in Racine \ {r} : MemesInvitations(q)
  /\ DOMAIN invitations' = Racine /\ DOMAIN ouverts' = Racine /\ DOMAIN balayees' = Racine
  /\ \A p \in Racine : ouverts[p] \subseteq ouverts'[p]

LEMMA InvitationsLarges ==
  ASSUME IInv, NEW r \in Racine, Emise \subseteq Emise'
  PROVE  /\ TableDe(invitations[r], Emise', Etats)
         /\ ouverts[r] \subseteq CompteOuvert(Emise')
         /\ \A a \in ouverts[r] : a.compte.racine \in Racine
<1>1. InvitationsDe(r) BY DEF IInv, Locale
<1>2. TableDe(invitations[r], Emise', Etats) BY <1>1, TableLarge DEF InvitationsDe
<1>3. ouverts[r] \subseteq CompteOuvert(Emise') BY <1>1, Larges DEF InvitationsDe
<1>4. \A a \in ouverts[r] : a.compte.racine \in Racine
  BY <1>1 DEF InvitationsDe, CompteOuvert, Emise, Estampille
<1> QED BY <1>2, <1>3, <1>4

\* A mark is written, or a code that was not there.
LEMMA RangeeInvitation ==
  ASSUME IInv, NEW r \in Racine, Emise \subseteq Emise', NEW i \in Emise', NEW etat \in Etats,
         etat = "morte" \/ i \notin DOMAIN invitations[r],
         invitations' = [invitations EXCEPT ![r] = Poser(@, i, etat)],
         UNCHANGED <<ouverts, balayees>>
  PROVE  InvitationsApres(r)
<1>1. InvitationsDe(r) /\ Racines BY DEF IInv, Locale
<1> DEFINE f == invitations[r]
           g == invitations'[r]
<1>2. g = Poser(f, i, etat) /\ DOMAIN invitations' = Racine BY <1>1 DEF Racines
<1>3. TableDe(f, Emise', Etats) /\ ouverts[r] \subseteq CompteOuvert(Emise')
  BY InvitationsLarges
<1>4. TableDe(g, Emise', Etats)
  <2> HIDE DEF f, g
  <2> QED BY <1>2, <1>3, PoseeTable
<1>5. \A x \in DOMAIN f : x \in DOMAIN g /\ (g[x] = f[x] \/ g[x] = "morte")
  BY <1>2 DEF Poser
<1>6. InvitationsDe(r)'
  BY <1>1, <1>3, <1>4, <1>5 DEF InvitationsDe
<1>7. \A q \in Racine \ {r} : MemesInvitations(q) BY <1>1 DEF Racines, MemesInvitations
<1> QED BY <1>1, <1>2, <1>6, <1>7 DEF InvitationsApres, Racines

\* An account that another root opened is added; one that r opened was known to it.
LEMMA CompteAjoute ==
  ASSUME IInv, NEW r \in Racine, Emise \subseteq Emise', NEW a \in CompteOuvert(Emise'),
         a \in ouverts[a.compte.racine], a.compte.racine \in Racine,
         ouverts' = [ouverts EXCEPT ![r] = @ \cup {a}],
         UNCHANGED <<invitations, balayees>>
  PROVE  InvitationsApres(r)
<1>1. InvitationsDe(r) /\ Racines BY DEF IInv, Locale
<1>2. /\ ouverts'[r] = ouverts[r] \cup {a} /\ DOMAIN ouverts' = Racine
      /\ \A q \in Racine \ {r} : ouverts'[q] = ouverts[q]
  BY <1>1 DEF Racines
<1>3. \A p \in Racine : ouverts[p] \subseteq ouverts'[p] BY <1>2
<1>4. /\ TableDe(invitations[r], Emise', Etats) /\ ouverts[r] \subseteq CompteOuvert(Emise')
      /\ \A b \in ouverts[r] : b.compte.racine \in Racine
  BY InvitationsLarges
<1>5. \A b \in ouverts'[r] : b.compte.racine = r => b \in ouverts[r] BY <1>2
<1>6. \A b \in ouverts'[r] : b \in ouverts'[b.compte.racine]
  BY <1>1, <1>2, <1>3, <1>4 DEF InvitationsDe
<1>7. IsFiniteSet(ouverts'[r]) BY <1>1, <1>2, FS_AddElement DEF InvitationsDe
<1>8. ouverts'[r] \subseteq CompteOuvert(Emise') BY <1>2, <1>4
<1>9. \A b \in ouverts'[r] : b.compte.racine = r =>
        \/ b.par \in DOMAIN invitations[r] /\ invitations[r][b.par] = "morte"
        \/ b.par \in balayees[r]
  BY <1>1, <1>5 DEF InvitationsDe
<1>10. \A b, c \in ouverts'[r] :
         b.par = c.par /\ b.compte.racine = r /\ c.compte.racine = r =>
           b = c \/ b.par \in balayees[r]
  BY <1>1, <1>5 DEF InvitationsDe
<1>11. InvitationsDe(r)'
  BY <1>4, <1>6, <1>7, <1>8, <1>9, <1>10 DEF InvitationsDe
<1>12. \A q \in Racine \ {r} : MemesInvitations(q) BY <1>2 DEF MemesInvitations
<1> QED BY <1>1, <1>2, <1>3, <1>11, <1>12 DEF InvitationsApres, Racines

\* What is written in the tables of invitations.
LEMMA PasDesInvitations ==
  ASSUME IInv, NEW r \in Racine, NEW ops \in Seq(AuxInvitations(Emise')),
         JournaliserTout(r, ops), InvitationsApres(r),
         UNCHANGED <<tablesDesMachines, tablesDesInscriptions>>,
         \A i \in DOMAIN ops : ops[i].quoi = "ouvert" =>
           [par |-> ops[i].par, compte |-> ops[i].compte] \in ouverts'[ops[i].compte.racine]
  PROVE  IInv'
<1>1. \A p \in Racine : ouverts[p] \subseteq ouverts'[p] BY DEF InvitationsApres
<1>2. Len(ops) \in Nat OBVIOUS
<1>3. Avance BY <1>1, <1>2, Avancee
<1>4. /\ MachinesDe(r)' /\ \A q \in Racine : MemesMachines(q)
      /\ DOMAIN effaces' = Racine /\ DOMAIN machines' = Racine /\ DOMAIN services' = Racine
  BY <1>3, MachinesIntactes
<1>5. /\ InscriptionsDe(r)' /\ \A q \in Racine : MemesInscriptions(q)
      /\ DOMAIN declarations' = Racine /\ DOMAIN presentations' = Racine
      /\ DOMAIN marques' = Racine /\ DOMAIN hebergements' = Racine
      /\ DOMAIN locateurs' = Racine
  BY <1>3, InscriptionsIntactes
<1>6. ops \in Seq(OperationDe(Emise')) BY DEF OperationDe
<1>7. \A i \in DOMAIN ops : ops[i].quoi \notin {"presentation", "inscription"}
  <2> SUFFICES ASSUME NEW i \in DOMAIN ops
               PROVE  ops[i].quoi \notin {"presentation", "inscription"}
    OBVIOUS
  <2>1. ops[i] \in AuxInvitations(Emise') OBVIOUS
  <2> QED BY <2>1, ChampsInvitations
<1>8. Inscrits(ops) = {} BY <1>7 DEF Inscrits
<1>9. DOMAIN declarations'[r] = DOMAIN declarations[r] \cup Inscrits(ops)
  BY <1>5, <1>8 DEF MemesInscriptions
<1>10. Racines' BY <1>4, <1>5 DEF InvitationsApres, Racines
<1>11. Ailleurs(r) BY <1>4, <1>5 DEF InvitationsApres, Ailleurs
<1>12. InvitationsDe(r)' BY DEF InvitationsApres
<1> QED BY <1>1, <1>4, <1>5, <1>6, <1>7, <1>9, <1>10, <1>11, <1>12, PasEcrit

\* What is swept or becomes too old is not journaled.
LEMMA PasMuet ==
  ASSUME IInv, NEW r \in Racine, InvitationsApres(r),
         UNCHANGED <<voie, ouverts, tablesDesMachines, tablesDesInscriptions>>
  PROVE  IInv'
<1>1. /\ compteur' = compteur /\ enRoute' = enRoute /\ amorcages' = amorcages BY DEF voie
<1>2. Emise' = Emise BY <1>1 DEF Emise
<1>3. Voies' BY <1>1, <1>2 DEF IInv, Voies
<1>4. Avance BY <1>1, <1>2 DEF IInv, Voies, Avance
<1>5. /\ MachinesDe(r)' /\ \A q \in Racine : MemesMachines(q)
      /\ DOMAIN effaces' = Racine /\ DOMAIN machines' = Racine /\ DOMAIN services' = Racine
  BY <1>4, MachinesIntactes
<1>6. /\ InscriptionsDe(r)' /\ \A q \in Racine : MemesInscriptions(q)
      /\ DOMAIN declarations' = Racine /\ DOMAIN presentations' = Racine
      /\ DOMAIN marques' = Racine /\ DOMAIN hebergements' = Racine
      /\ DOMAIN locateurs' = Racine
  BY <1>4, InscriptionsIntactes
<1>7. declarations' = declarations BY DEF tablesDesInscriptions
<1>8. \A q \in Racine : CheminDe(q)' BY <1>1, <1>7 DEF IInv, CheminDe
<1>9. Racines' BY <1>5, <1>6 DEF InvitationsApres, Racines
<1>10. Ailleurs(r) BY <1>5, <1>6 DEF InvitationsApres, Ailleurs
<1>11. InvitationsDe(r)' BY DEF InvitationsApres
<1> QED BY <1>3, <1>4, <1>5, <1>6, <1>8, <1>9, <1>10, <1>11, Pas

LEMMA PasEmettreInvitation ==
  ASSUME IInv, NEW r \in Racine, EmettreInvitation(r),
         UNCHANGED <<tablesDesMachines, tablesDesInscriptions>>
  PROVE  IInv'
<1> DEFINE e == Suivante(r)
           operation == [quoi |-> "invitation", estampille |-> e, invitation |-> e,
                         etat |-> "vivante"]
           ops == <<operation>>
<1>1. /\ invitations' = [invitations EXCEPT ![r] = Poser(@, e, "vivante")]
      /\ Journaliser(r, operation) /\ UNCHANGED <<ouverts, perimees, balayees>>
  BY DEF EmettreInvitation
<1>2. Avance /\ e \in Emise' /\ e \notin Emise
  <2> HIDE DEF operation
  <2> QED BY <1>1, AvanceeDUne
<1> HIDE DEF e
<1>3. operation \in AuxInvitations(Emise') BY <1>2 DEF AuxInvitations, Etats
<1>4. e \notin DOMAIN invitations[r] BY <1>2 DEF IInv, Locale, InvitationsDe, TableDe
<1>5. InvitationsApres(r)
  <2>1. "vivante" \in Etats /\ Emise \subseteq Emise' BY <1>2 DEF Etats, Avance
  <2> QED BY <1>1, <1>2, <1>4, <2>1, RangeeInvitation
<1>6. operation.quoi # "ouvert" OBVIOUS
<1>7. JournaliserTout(r, ops) BY <1>1 DEF Journaliser
<1> HIDE DEF operation
<1>8. ops \in Seq(AuxInvitations(Emise')) /\ \A i \in DOMAIN ops : ops[i] = operation BY <1>3
<1> HIDE DEF ops
<1> QED BY <1>5, <1>6, <1>7, <1>8, PasDesInvitations

LEMMA PasCreerCompteSurInvitation ==
  ASSUME IInv, NEW r \in Racine, NEW i \in DOMAIN invitations[r],
         CreerCompteSurInvitation(r, i), UNCHANGED <<tablesDesMachines, tablesDesInscriptions>>
  PROVE  IInv'
<1> DEFINE e1 == Prochaine(r, 1)
           e2 == Prochaine(r, 2)
           e3 == Prochaine(r, 3)
           o1 == [quoi |-> "consommee", estampille |-> e1, invitation |-> i]
           o2 == [quoi |-> "ouvert", estampille |-> e2, par |-> i, compte |-> e2]
           o3 == [quoi |-> "premier", estampille |-> e3, compte |-> e2]
           ops == <<o1, o2, o3>>
           a == [par |-> i, compte |-> e2]
           f == invitations[r]
           g == invitations'[r]
<1>1. /\ i \notin Expirees(r) /\ invitations' = [invitations EXCEPT ![r][i] = "morte"]
      /\ ouverts' = [ouverts EXCEPT ![r] = @ \cup {a}]
      /\ JournaliserTout(r, ops) /\ UNCHANGED <<perimees, balayees>>
  BY DEF CreerCompteSurInvitation, Suivante
<1>2. InvitationsDe(r) /\ Racines BY DEF IInv, Locale
<1>3. /\ ouverts'[r] = ouverts[r] \cup {a} /\ DOMAIN ouverts' = Racine
      /\ \A q \in Racine \ {r} : ouverts'[q] = ouverts[q]
  BY <1>1, <1>2 DEF Racines
<1>4. \A p \in Racine : ouverts[p] \subseteq ouverts'[p] BY <1>3
<1>5. /\ Avance /\ e1 \in Emise' /\ e2 \in Emise' /\ e3 \in Emise'
      /\ e1 \notin Emise /\ e2 \notin Emise
  <2>1. Len(ops) = 3 OBVIOUS
  <2> HIDE DEF ops, e1, e2, e3
  <2>2. Len(ops) \in Nat /\ 1 \in 1..Len(ops) /\ 2 \in 1..Len(ops) /\ 3 \in 1..Len(ops)
    BY <2>1
  <2>3. /\ Avance
        /\ \A k \in 1..Len(ops) : Prochaine(r, k) \in Emise' /\ Prochaine(r, k) \notin Emise
    BY <1>1, <1>4, <2>2, Avancee
  <2> QED BY <2>2, <2>3 DEF e1, e2, e3
<1>6. Emise \subseteq Emise' BY <1>5 DEF Avance
<1>7. e2.racine = r BY DEF Prochaine
<1> HIDE DEF e1, e2, e3
<1>8. /\ TableDe(f, Emise', Etats) /\ ouverts[r] \subseteq CompteOuvert(Emise')
      /\ \A b \in ouverts[r] : b.compte.racine \in Racine
  BY <1>6, InvitationsLarges
<1>9. i \in Emise' /\ f[i] = "vivante"
  BY <1>1, <1>8 DEF TableDe, Etats, Expirees
<1>10. /\ g = [f EXCEPT ![i] = "morte"] /\ DOMAIN invitations' = Racine
  BY <1>1, <1>2 DEF Racines
<1>11. /\ TableDe(g, Emise', Etats) /\ DOMAIN g = DOMAIN f /\ g[i] = "morte"
       /\ \A x \in DOMAIN f : x # i => g[x] = f[x]
  <2>1. "morte" \in Etats BY DEF Etats
  <2> HIDE DEF f, g
  <2> QED BY <1>8, <1>10, <2>1, ChangeeTable DEF f
<1>12. a \in CompteOuvert(Emise') /\ a.compte.racine = r /\ a.par = i
  BY <1>5, <1>7, <1>9 DEF CompteOuvert
<1> HIDE DEF a
<1>13. /\ ouverts'[r] \subseteq CompteOuvert(Emise') /\ IsFiniteSet(ouverts'[r])
       /\ \A b \in ouverts'[r] : b \in ouverts'[b.compte.racine]
  <2>1. IsFiniteSet(ouverts'[r]) BY <1>2, <1>3, FS_AddElement DEF InvitationsDe
  <2>2. \A b \in ouverts'[r] : b \in ouverts'[b.compte.racine]
    BY <1>2, <1>3, <1>4, <1>8, <1>12 DEF InvitationsDe
  <2> QED BY <2>1, <2>2, <1>3, <1>8, <1>12
<1>14. \A b \in ouverts'[r] : b.compte.racine = r =>
         (b.par \in DOMAIN g /\ g[b.par] = "morte") \/ b.par \in balayees[r]
  BY <1>2, <1>3, <1>11, <1>12 DEF InvitationsDe
\* A live code that opened an account here was swept.
<1>15. \A b \in ouverts[r] : b.compte.racine = r /\ b.par = i => i \in balayees[r]
  BY <1>2, <1>9 DEF InvitationsDe
<1>16. \A b, c \in ouverts'[r] :
         b.par = c.par /\ b.compte.racine = r /\ c.compte.racine = r =>
           b = c \/ b.par \in balayees[r]
  BY <1>2, <1>3, <1>12, <1>15 DEF InvitationsDe
<1>17. InvitationsDe(r)' BY <1>1, <1>11, <1>13, <1>14, <1>16 DEF InvitationsDe
<1>18. \A q \in Racine \ {r} : MemesInvitations(q)
  BY <1>1, <1>2, <1>3 DEF Racines, MemesInvitations
<1>19. InvitationsApres(r)
  BY <1>1, <1>2, <1>3, <1>4, <1>10, <1>17, <1>18 DEF InvitationsApres, Racines
<1>20. o1 \in AuxInvitations(Emise') /\ o2 \in AuxInvitations(Emise')
       /\ o3 \in AuxInvitations(Emise')
  BY <1>5, <1>9 DEF AuxInvitations
<1>21. /\ o1.quoi = "consommee" /\ o2.par = i /\ o2.compte = e2 /\ o3.quoi = "premier"
  OBVIOUS
<1> HIDE DEF o1, o2, o3
<1>22. ops \in Seq(AuxInvitations(Emise')) BY <1>20
<1>23. \A k \in DOMAIN ops : ops[k].quoi = "ouvert" =>
         [par |-> ops[k].par, compte |-> ops[k].compte] \in ouverts'[ops[k].compte.racine]
  <2>1. \A k \in DOMAIN ops : ops[k] = o1 \/ ops[k] = o2 \/ ops[k] = o3 OBVIOUS
  <2> HIDE DEF ops
  <2> QED BY <2>1, <1>3, <1>7, <1>21 DEF a
<1> HIDE DEF ops
<1> QED BY <1>1, <1>19, <1>22, <1>23, PasDesInvitations

LEMMA PasPerimer ==
  ASSUME IInv, NEW r \in Racine, NEW i, Perimer(i),
         UNCHANGED <<tablesDesMachines, tablesDesInscriptions>>
  PROVE  IInv'
<1>1. UNCHANGED <<voie, invitations, ouverts, balayees>> BY DEF Perimer
<1>2. Emise' = Emise BY <1>1 DEF voie, Emise
<1>3. InvitationsApres(r)
  BY <1>1, <1>2 DEF IInv, Locale, Racines, InvitationsApres, InvitationsDe, MemesInvitations
<1> QED BY <1>1, <1>3, PasMuet

LEMMA PasExpirerLesInvitations ==
  ASSUME IInv, NEW r \in Racine, ExpirerLesInvitations(r),
         UNCHANGED <<tablesDesMachines, tablesDesInscriptions>>
  PROVE  IInv'
<1> DEFINE f == invitations[r]
           g == invitations'[r]
           X == Expirees(r)
           B == balayees'[r]
<1>1. /\ invitations' = [invitations EXCEPT ![r] = Sans(@, X)]
      /\ balayees' = [balayees EXCEPT
           ![r] = @ \cup {i \in X : invitations[r][i] = "morte"}]
      /\ UNCHANGED <<voie, ouverts, perimees>>
  BY DEF ExpirerLesInvitations
<1>2. Emise' = Emise BY <1>1 DEF voie, Emise
<1>3. InvitationsDe(r) /\ Racines BY DEF IInv, Locale
<1>4. /\ g = Sans(f, X) /\ B = balayees[r] \cup {i \in X : f[i] = "morte"}
      /\ DOMAIN invitations' = Racine /\ DOMAIN balayees' = Racine
      /\ \A q \in Racine \ {r} : MemesInvitations(q)
  BY <1>1, <1>3 DEF Racines, MemesInvitations
<1>5. TableDe(g, Emise, Etats)
  <2>1. TableDe(f, Emise, Etats) BY <1>3 DEF InvitationsDe
  <2> HIDE DEF f, g, X
  <2> QED BY <1>4, <2>1, RestreinteTable
<1>6. DOMAIN g = DOMAIN f \ X /\ \A x \in DOMAIN g : g[x] = f[x] BY <1>4 DEF Sans
<1>7. \A a \in ouverts[r] : a.compte.racine = r =>
        (a.par \in DOMAIN g /\ g[a.par] = "morte") \/ a.par \in B
  <2> SUFFICES ASSUME NEW a \in ouverts[r], a.compte.racine = r, a.par \notin balayees[r]
               PROVE  (a.par \in DOMAIN g /\ g[a.par] = "morte") \/ a.par \in B
    BY <1>4
  <2>1. a.par \in DOMAIN f /\ f[a.par] = "morte" BY <1>3 DEF InvitationsDe
  <2> QED BY <2>1, <1>4, <1>6
<1>8. InvitationsDe(r)' BY <1>1, <1>2, <1>3, <1>4, <1>5, <1>7 DEF InvitationsDe
<1>9. InvitationsApres(r)
  BY <1>1, <1>3, <1>4, <1>8 DEF InvitationsApres, Racines
<1> QED BY <1>1, <1>9, PasMuet

-----------------------------------------------------------------------------
(* Inscriptions.                                                           *)

\* The tables of inscriptions after a step of root r that is told an operation.
InscriptionsApres(r, operation) ==
  /\ InscriptionsDe(r)' /\ \A q \in Racine \ {r} : MemesInscriptions(q)
  /\ DOMAIN declarations' = Racine /\ DOMAIN presentations' = Racine
  /\ DOMAIN marques' = Racine /\ DOMAIN hebergements' = Racine /\ DOMAIN locateurs' = Racine
  /\ DOMAIN declarations'[r] = DOMAIN declarations[r]
       \cup (IF operation.quoi = "inscription" THEN {operation.code} ELSE {})

LEMMA InscriptionsLarges ==
  ASSUME IInv, NEW r \in Racine, Avance
  PROVE  /\ TableDe(declarations[r], Emise', Declaration)
         /\ TableDe(presentations[r], Emise', PresentationDe(Emise'))
         /\ TableDe(marques[r], MarqueDe, Emise')
         /\ TableDe(hebergements[r], DOMAIN DomaineDe, HebergementDe(Emise'))
         /\ TableDe(locateurs[r], Membres, Emise')
<1> DEFINE F == Emise'
           P1 == PresentationDe(Emise)
           P2 == PresentationDe(F)
           H1 == HebergementDe(Emise)
           H2 == HebergementDe(F)
           S == DOMAIN DomaineDe
<1>1. Emise \subseteq F /\ P1 \subseteq P2 /\ H1 \subseteq H2 BY Larges DEF Avance
<1>2. /\ TableDe(declarations[r], Emise, Declaration) /\ TableDe(presentations[r], Emise, P1)
      /\ TableDe(marques[r], MarqueDe, Emise) /\ TableDe(hebergements[r], S, H1)
      /\ TableDe(locateurs[r], Membres, Emise)
  BY DEF IInv, Locale, InscriptionsDe
<1> HIDE DEF F, P1, P2, H1, H2, S
<1>3. TableDe(declarations[r], F, Declaration) BY <1>1, <1>2, TableLarge
<1>4. TableDe(presentations[r], F, P2) BY <1>1, <1>2 DEF TableDe
<1>5. TableDe(marques[r], MarqueDe, F) BY <1>1, <1>2, TableLarge
<1>6. TableDe(hebergements[r], S, H2) BY <1>1, <1>2 DEF TableDe
<1>7. TableDe(locateurs[r], Membres, F) BY <1>1, <1>2, TableLarge
<1> QED BY <1>3, <1>4, <1>5, <1>6, <1>7 DEF F, P2, H2, S

LEMMA InscriptionAppliquee ==
  ASSUME IInv, NEW r \in Racine, Avance, NEW operation \in AuxInscriptions(Emise'),
         operation.quoi = "inscription", AppliquerInscription(r, operation)
  PROVE  InscriptionsApres(r, operation)
<1> DEFINE f == declarations[r]
           g == declarations'[r]
           F == Emise'
<1>1. InscriptionsDe(r) /\ Racines BY DEF IInv, Locale
<1>2. operation.code \in F /\ operation.enregistrement \in Declaration
  BY ChampsInscriptions
<1>3. /\ g = Garder(f, operation.code, operation.enregistrement)
      /\ DOMAIN declarations' = Racine
      /\ UNCHANGED <<presentations, marques, hebergements, locateurs>>
      /\ \A q \in Racine \ {r} : MemesInscriptions(q)
  BY <1>1 DEF AppliquerInscription, Racines, MemesInscriptions
<1>4. /\ TableDe(f, F, Declaration) /\ TableDe(presentations[r], F, PresentationDe(F))
      /\ TableDe(marques[r], MarqueDe, F)
      /\ TableDe(hebergements[r], DOMAIN DomaineDe, HebergementDe(F))
      /\ TableDe(locateurs[r], Membres, F)
  BY InscriptionsLarges
<1>5. TableDe(g, F, Declaration) /\ DOMAIN g = DOMAIN f \cup {operation.code}
  <2> DEFINE code == operation.code
             rangee == operation.enregistrement
  <2> HIDE DEF f, F, code, rangee
  <2>1. TableDe(Garder(f, code, rangee), F, Declaration) BY <1>2, <1>4, GardeeTable DEF code, rangee
  <2>2. DOMAIN Garder(f, code, rangee) = DOMAIN f \cup {code} BY DEF Garder, Poser
  <2> QED BY <2>1, <2>2, <1>3 DEF code, rangee
<1>6. DOMAIN presentations[r] \subseteq DOMAIN g BY <1>1, <1>5 DEF InscriptionsDe
<1>7. InscriptionsDe(r)' BY <1>3, <1>4, <1>5, <1>6 DEF InscriptionsDe
<1> QED BY <1>1, <1>3, <1>5, <1>7 DEF InscriptionsApres, Racines

LEMMA PresentationAppliquee ==
  ASSUME IInv, NEW r \in Racine, Avance, NEW operation \in AuxInscriptions(Emise'),
         operation.quoi = "presentation", operation.code \in DOMAIN declarations[r],
         AppliquerPresentation(r, operation)
  PROVE  InscriptionsApres(r, operation)
<1> DEFINE f == presentations[r]
           g == presentations'[r]
           F == Emise'
           code == operation.code
           rangee == operation.enregistrement
<1>1. InscriptionsDe(r) /\ Racines BY DEF IInv, Locale
<1>2. code \in F /\ rangee \in PresentationDe(F) BY ChampsInscriptions
<1>3. /\ g = f \/ g = Poser(f, code, rangee)
      /\ DOMAIN presentations' = Racine
      /\ UNCHANGED <<declarations, marques, hebergements, locateurs>>
      /\ \A q \in Racine \ {r} : MemesInscriptions(q)
  BY <1>1 DEF AppliquerPresentation, Racines, MemesInscriptions
<1>4. /\ TableDe(declarations[r], F, Declaration) /\ TableDe(f, F, PresentationDe(F))
      /\ TableDe(marques[r], MarqueDe, F)
      /\ TableDe(hebergements[r], DOMAIN DomaineDe, HebergementDe(F))
      /\ TableDe(locateurs[r], Membres, F)
  BY InscriptionsLarges
<1>5. TableDe(g, F, PresentationDe(F)) /\ DOMAIN g \subseteq DOMAIN f \cup {code}
  <2> DEFINE P == PresentationDe(F)
  <2>1. TableDe(f, F, P) /\ rangee \in P /\ code \in F BY <1>2, <1>4
  <2> HIDE DEF f, g, F, P, code, rangee
  <2>2. TableDe(Poser(f, code, rangee), F, P) BY <2>1, PoseeTable
  <2>3. DOMAIN Poser(f, code, rangee) = DOMAIN f \cup {code} BY DEF Poser
  <2> QED BY <2>1, <2>2, <2>3, <1>3 DEF P
<1>6. DOMAIN g \subseteq DOMAIN declarations[r] BY <1>1, <1>5 DEF InscriptionsDe
<1>7. InscriptionsDe(r)' BY <1>3, <1>4, <1>5, <1>6 DEF InscriptionsDe
<1> QED BY <1>1, <1>3, <1>7 DEF InscriptionsApres, Racines

LEMMA MarqueAppliquee ==
  ASSUME IInv, NEW r \in Racine, Avance, NEW operation \in AuxInscriptions(Emise'),
         operation.quoi = "marque", AppliquerMarque(r, operation)
  PROVE  InscriptionsApres(r, operation)
<1> DEFINE f == marques[r]
           g == marques'[r]
           F == Emise'
           marque == operation.marque
           e == operation.estampille
<1>1. InscriptionsDe(r) /\ Racines BY DEF IInv, Locale
<1>2. marque \in MarqueDe /\ e \in F BY ChampsInscriptions
<1>3. /\ g = Marquer(f, marque, e)
      /\ DOMAIN marques' = Racine
      /\ UNCHANGED <<declarations, presentations, hebergements, locateurs>>
      /\ \A q \in Racine \ {r} : MemesInscriptions(q)
  BY <1>1 DEF AppliquerMarque, Racines, MemesInscriptions
<1>4. /\ TableDe(declarations[r], F, Declaration)
      /\ TableDe(presentations[r], F, PresentationDe(F)) /\ TableDe(f, MarqueDe, F)
      /\ TableDe(hebergements[r], DOMAIN DomaineDe, HebergementDe(F))
      /\ TableDe(locateurs[r], Membres, F)
  BY InscriptionsLarges
<1>5. TableDe(g, MarqueDe, F)
  <2> HIDE DEF f, g, F, marque, e
  <2>1. CASE marque \in DOMAIN f
    <3>1. PlusTot(f[marque], e) \in F BY <1>2, <1>4, <2>1 DEF PlusTot, TableDe
    <3>2. g = [f EXCEPT ![marque] = PlusTot(f[marque], e)] BY <1>3, <2>1 DEF Marquer
    <3> QED BY <3>1, <3>2, <2>1, <1>4, ChangeeTable
  <2>2. CASE marque \notin DOMAIN f
    <3>1. g = Poser(f, marque, e) BY <1>3, <2>2 DEF Marquer
    <3> QED BY <3>1, <1>2, <1>4, PoseeTable
  <2> QED BY <2>1, <2>2
<1>6. InscriptionsDe(r)' BY <1>1, <1>3, <1>4, <1>5 DEF InscriptionsDe
<1> QED BY <1>1, <1>3, <1>6 DEF InscriptionsApres, Racines

LEMMA HebergementApplique ==
  ASSUME IInv, NEW r \in Racine, Avance, NEW operation \in AuxInscriptions(Emise'),
         operation.quoi = "hebergeur", AppliquerHebergement(r, operation)
  PROVE  InscriptionsApres(r, operation)
<1> DEFINE f == hebergements[r]
           g == hebergements'[r]
           F == Emise'
           S == DOMAIN DomaineDe
           d == operation.domaine
           rangee == [annuaire |-> operation.annuaire, estampille |-> operation.estampille]
<1>1. InscriptionsDe(r) /\ Racines BY DEF IInv, Locale
<1>2. d \in S /\ rangee \in HebergementDe(F) BY ChampsInscriptions DEF HebergementDe
<1>3. /\ g = f \/ g = Poser(f, d, rangee)
      /\ DOMAIN hebergements' = Racine
      /\ UNCHANGED <<declarations, presentations, marques, locateurs>>
      /\ \A q \in Racine \ {r} : MemesInscriptions(q)
  BY <1>1 DEF AppliquerHebergement, Racines, MemesInscriptions
<1>4. /\ TableDe(declarations[r], F, Declaration)
      /\ TableDe(presentations[r], F, PresentationDe(F)) /\ TableDe(marques[r], MarqueDe, F)
      /\ TableDe(f, S, HebergementDe(F)) /\ TableDe(locateurs[r], Membres, F)
  BY InscriptionsLarges
<1>5. TableDe(g, S, HebergementDe(F))
  <2> DEFINE H == HebergementDe(F)
  <2>1. TableDe(f, S, H) /\ rangee \in H /\ d \in S BY <1>2, <1>4
  <2> HIDE DEF f, g, F, S, H, d, rangee
  <2>2. TableDe(Poser(f, d, rangee), S, H) BY <2>1, PoseeTable
  <2>3. TableDe(g, S, H) BY <2>1, <2>2, <1>3
  <2> QED BY <2>3 DEF H
<1>6. InscriptionsDe(r)' BY <1>1, <1>3, <1>4, <1>5 DEF InscriptionsDe
<1> QED BY <1>1, <1>3, <1>6 DEF InscriptionsApres, Racines

LEMMA LocateursAppliques ==
  ASSUME IInv, NEW r \in Racine, Avance, NEW operation \in AuxInscriptions(Emise'),
         operation.quoi = "locateurs", AppliquerLocateurs(r, operation)
  PROVE  InscriptionsApres(r, operation)
<1> DEFINE f == locateurs[r]
           g == locateurs'[r]
           F == Emise'
           m == operation.membre
           e == operation.estampille
<1>1. InscriptionsDe(r) /\ Racines BY DEF IInv, Locale
<1>2. m \in Membres /\ e \in F BY ChampsInscriptions
<1>3. /\ g = f \/ g = Poser(f, m, e)
      /\ DOMAIN locateurs' = Racine
      /\ UNCHANGED <<declarations, presentations, marques, hebergements>>
      /\ \A q \in Racine \ {r} : MemesInscriptions(q)
  BY <1>1 DEF AppliquerLocateurs, Racines, MemesInscriptions
<1>4. /\ TableDe(declarations[r], F, Declaration)
      /\ TableDe(presentations[r], F, PresentationDe(F)) /\ TableDe(marques[r], MarqueDe, F)
      /\ TableDe(hebergements[r], DOMAIN DomaineDe, HebergementDe(F))
      /\ TableDe(f, Membres, F)
  BY InscriptionsLarges
<1>5. TableDe(g, Membres, F)
  <2> HIDE DEF f, g, F, m, e
  <2>1. TableDe(Poser(f, m, e), Membres, F) BY <1>2, <1>4, PoseeTable
  <2> QED BY <2>1, <1>3, <1>4
<1>6. InscriptionsDe(r)' BY <1>1, <1>3, <1>4, <1>5 DEF InscriptionsDe
<1> QED BY <1>1, <1>3, <1>6 DEF InscriptionsApres, Racines

\* An inscription that is applied, here first or told by the other root.
LEMMA AppliqueeInscription ==
  ASSUME IInv, NEW r \in Racine, Avance, NEW operation \in AuxInscriptions(Emise'),
         operation.quoi = "presentation" => operation.code \in DOMAIN declarations[r],
         AppliquerAuxInscriptions(r, operation)
  PROVE  InscriptionsApres(r, operation)
BY InscriptionAppliquee, PresentationAppliquee, MarqueAppliquee, HebergementApplique,
   LocateursAppliques DEF AppliquerAuxInscriptions

LEMMA PasEcrire ==
  ASSUME IInv, NEW r \in Racine, NEW operation \in AuxInscriptions(Emise'),
         operation.quoi = "presentation" => operation.code \in DOMAIN declarations[r],
         Ecrire(r, operation), UNCHANGED tablesDesInvitations
  PROVE  IInv'
<1> DEFINE ops == <<operation>>
<1>1. /\ AppliquerAuxInscriptions(r, operation) /\ Journaliser(r, operation)
      /\ UNCHANGED tablesDesMachines /\ JournaliserTout(r, ops)
  BY DEF Ecrire, Journaliser
<1>2. \A p \in Racine : ouverts[p] \subseteq ouverts'[p] BY DEF tablesDesInvitations
<1>3. Avance BY <1>1, <1>2, AvanceeDUne
<1>4. /\ MachinesDe(r)' /\ \A q \in Racine : MemesMachines(q)
      /\ DOMAIN effaces' = Racine /\ DOMAIN machines' = Racine /\ DOMAIN services' = Racine
  BY <1>1, <1>3, MachinesIntactes
<1>5. /\ InvitationsDe(r)' /\ \A q \in Racine : MemesInvitations(q)
      /\ DOMAIN invitations' = Racine /\ DOMAIN ouverts' = Racine
      /\ DOMAIN balayees' = Racine
  BY <1>3, InvitationsIntactes
<1>6. InscriptionsApres(r, operation) BY <1>1, <1>3, AppliqueeInscription
<1>7. ops \in Seq(OperationDe(Emise')) BY DEF OperationDe
<1>8. \A i \in DOMAIN ops : ops[i] = operation OBVIOUS
<1>9. 1 \in DOMAIN ops OBVIOUS
<1>10. operation.quoi # "ouvert" BY ChampsInscriptions
<1> HIDE DEF ops
<1>11. Inscrits(ops) = IF operation.quoi = "inscription" THEN {operation.code} ELSE {}
  BY <1>8, <1>9 DEF Inscrits
<1>12. DOMAIN declarations'[r] = DOMAIN declarations[r] \cup Inscrits(ops)
  BY <1>6, <1>11 DEF InscriptionsApres
<1>13. Racines' BY <1>4, <1>5, <1>6 DEF InscriptionsApres, Racines
<1>14. Ailleurs(r) BY <1>4, <1>5, <1>6 DEF InscriptionsApres, Ailleurs
<1>15. InscriptionsDe(r)' BY <1>6 DEF InscriptionsApres
<1> QED
  BY <1>1, <1>2, <1>4, <1>5, <1>7, <1>8, <1>10, <1>12, <1>13, <1>14, <1>15, PasEcrit

\* The operation that each write makes, over the stamps of the next state.
LEMMA PasEcrireUneInscription ==
  ASSUME IInv, NEW r \in Racine, EcrireUneInscription(r), UNCHANGED tablesDesInvitations
  PROVE  IInv'
<1> DEFINE e == Suivante(r)
<1>1. ASSUME NEW operation, Ecrire(r, operation)
      PROVE  e \in Emise' /\ Emise \subseteq Emise'
  <2>1. Journaliser(r, operation) BY <1>1 DEF Ecrire
  <2>2. \A p \in Racine : ouverts[p] \subseteq ouverts'[p] BY DEF tablesDesInvitations
  <2> QED BY <2>1, <2>2, AvanceeDUne DEF Avance
<1>2. ASSUME NEW c \in Titulaires, NEW a \in Membres \cup {SansAnnuaire},
             DeclarerAnnuaire(r, c, a)
      PROVE  IInv'
  <2> DEFINE o == [quoi |-> "inscription", estampille |-> e, code |-> e,
                   enregistrement |-> [proprietaire |-> c, annuaire |-> a]]
  <2>1. Ecrire(r, o) BY <1>2 DEF DeclarerAnnuaire
  <2>2. e \in Emise' BY <1>1, <2>1
  <2> HIDE DEF e
  <2>3. o \in AuxInscriptions(Emise') BY <2>2 DEF AuxInscriptions, Declaration
  <2>4. o.quoi # "presentation" OBVIOUS
  <2> HIDE DEF o
  <2> QED BY <2>1, <2>3, <2>4, PasEcrire
<1>3. ASSUME NEW code \in DOMAIN declarations[r], NEW m \in Membres,
             PresenterUnCode(r, code, m)
      PROVE  IInv'
  <2> DEFINE o == [quoi |-> "presentation", estampille |-> e, code |-> code,
                   enregistrement |-> [membre |-> m, estampille |-> e]]
  <2>1. Ecrire(r, o) BY <1>3 DEF PresenterUnCode
  <2>2. e \in Emise' /\ Emise \subseteq Emise' BY <1>1, <2>1
  <2>3. code \in Emise' BY <2>2 DEF IInv, Locale, InscriptionsDe, TableDe
  <2> HIDE DEF e
  <2>4. o \in AuxInscriptions(Emise') BY <2>2, <2>3 DEF AuxInscriptions, PresentationDe
  <2>5. o.code = code OBVIOUS
  <2> HIDE DEF o
  <2> QED BY <2>1, <2>4, <2>5, PasEcrire
<1>4. ASSUME NEW m \in Membres, NEW genre \in Genre, Decider(r, m, genre)
      PROVE  IInv'
  <2> DEFINE o == [quoi |-> "marque", estampille |-> e, marque |-> Marque(genre, m)]
  <2>1. Ecrire(r, o) BY <1>4 DEF Decider
  <2>2. e \in Emise' BY <1>1, <2>1
  <2> HIDE DEF e
  <2>3. Marque(genre, m) \in MarqueDe BY DEF Marque, MarqueDe
  <2>4. o \in AuxInscriptions(Emise') BY <2>2, <2>3 DEF AuxInscriptions
  <2>5. o.quoi # "presentation" OBVIOUS
  <2> HIDE DEF o
  <2> QED BY <2>1, <2>4, <2>5, PasEcrire
<1>5. ASSUME NEW m \in Membres, PublierLocateurs(r, m)
      PROVE  IInv'
  <2> DEFINE o == [quoi |-> "locateurs", estampille |-> e, membre |-> m]
  <2>1. Ecrire(r, o) BY <1>5 DEF PublierLocateurs
  <2>2. e \in Emise' BY <1>1, <2>1
  <2> HIDE DEF e
  <2>3. o \in AuxInscriptions(Emise') BY <2>2 DEF AuxInscriptions
  <2>4. o.quoi # "presentation" OBVIOUS
  <2> HIDE DEF o
  <2> QED BY <2>1, <2>3, <2>4, PasEcrire
<1> QED BY <1>2, <1>3, <1>4, <1>5 DEF EcrireUneInscription

LEMMA PasConfierDomaine ==
  ASSUME IInv, NEW r \in Racine, NEW d \in DOMAIN DomaineDe,
         NEW a \in Membres \cup {SansAnnuaire}, ConfierDomaine(r, d, a),
         UNCHANGED tablesDesInvitations
  PROVE  IInv'
<1> DEFINE e == Suivante(r)
           o == [quoi |-> "hebergeur", estampille |-> e, domaine |-> d, annuaire |-> a]
<1>1. Ecrire(r, o) BY DEF ConfierDomaine
<1>2. e \in Emise'
  <2>1. Journaliser(r, o) BY <1>1 DEF Ecrire
  <2>2. \A p \in Racine : ouverts[p] \subseteq ouverts'[p] BY DEF tablesDesInvitations
  <2> HIDE DEF o
  <2> QED BY <2>1, <2>2, AvanceeDUne
<1> HIDE DEF e
<1>3. o \in AuxInscriptions(Emise') BY <1>2 DEF AuxInscriptions
<1>4. o.quoi # "presentation" OBVIOUS
<1> HIDE DEF o
<1> QED BY <1>1, <1>3, <1>4, PasEcrire

-----------------------------------------------------------------------------
(* What the other root says.                                               *)

\* The operation that is applied, the clock and the queue after it.
LEMMA Recue ==
  ASSUME IInv, NEW r \in Racine, Retirer(r),
         \A p \in Racine : ouverts[p] \subseteq ouverts'[p]
  PROVE  /\ Voies' /\ Avance /\ Head(enRoute[r]) \in OperationDe(Emise)
         /\ Emise \subseteq Emise' /\ Emise' \subseteq Estampille
         /\ OperationDe(Emise) \subseteq OperationDe(Emise')
         /\ Head(enRoute[r]).estampille.compteur <= compteur'[r]
         /\ enRoute'[r] = Tail(enRoute[r])
         /\ \A q \in Racine : q # r => enRoute'[q] = enRoute[q]
         /\ compteur' \in [Racine -> Nat] /\ 1 \in DOMAIN enRoute[r]
         /\ Head(enRoute[r]) = enRoute[r][1]
<1> DEFINE T == OperationDe(Emise)
<1>1. /\ compteur \in [Racine -> Nat] /\ enRoute \in [Racine -> Seq(T)] /\ amorcages \in Nat
  BY DEF IInv, Voies
<1>2. \A operation \in T : operation.estampille.compteur \in Nat
  <2>1. \A e \in Emise \cup {Aucune} : e.compteur \in Nat BY DEF Emise, Estampille, Aucune
  <2>2. \A operation \in T : operation.estampille \in Emise \cup {Aucune}
    BY ChampsMachines, ChampsInvitations, ChampsInscriptions DEF OperationDe
  <2> QED BY <2>1, <2>2
<1> HIDE DEF T
<1>3. /\ Head(enRoute[r]) \in T /\ enRoute' \in [Racine -> Seq(T)]
      /\ enRoute'[r] = Tail(enRoute[r])
      /\ \A q \in Racine : q # r => enRoute'[q] = enRoute[q]
      /\ compteur' \in [Racine -> Nat] /\ \A q \in Racine : compteur[q] <= compteur'[q]
      /\ Head(enRoute[r]).estampille.compteur <= compteur'[r]
      /\ Emise \subseteq Emise' /\ amorcages' = amorcages
  BY <1>1, <1>2, Retiree
<1>4. OperationDe(Emise) \subseteq OperationDe(Emise') BY <1>3, Larges
<1>5. (enRoute \in [Racine -> Seq(OperationDe(Emise))])'
  <2> DEFINE U == OperationDe(Emise')
  <2>1. T \subseteq U BY <1>4 DEF T
  <2> HIDE DEF U
  <2>2. enRoute' \in [Racine -> Seq(U)] BY <1>3, <2>1
  <2> QED BY <2>2 DEF U
<1>6. Voies' BY <1>1, <1>3, <1>5 DEF Voies
<1>7. Avance BY <1>3 DEF Avance
<1>8. Emise' \subseteq Estampille BY DEF Emise
<1>9. 1 \in DOMAIN enRoute[r] /\ Head(enRoute[r]) = enRoute[r][1]
  <2> DEFINE s == enRoute[r]
  <2>1. s \in Seq(T) /\ s # <<>> BY <1>1 DEF Retirer
  <2> HIDE DEF s
  <2>2. 1 \in DOMAIN s /\ Head(s) = s[1] BY <2>1, Suite
  <2> QED BY <2>2 DEF s
<1> QED BY <1>3, <1>4, <1>6, <1>7, <1>8, <1>9 DEF T

LEMMA PasRecuMachines ==
  ASSUME IInv, NEW r \in Racine, Retirer(r),
         \/ AppliquerAuxMachines(r, Head(enRoute[r]))
         \/ (Head(enRoute[r]).quoi = "fin" /\ UNCHANGED tablesDesMachines),
         UNCHANGED <<tablesDesInvitations, tablesDesInscriptions>>
  PROVE  IInv'
<1> DEFINE operation == Head(enRoute[r])
           m == operation.machine
           e == operation.estampille
<1>1. \A p \in Racine : ouverts[p] \subseteq ouverts'[p] BY DEF tablesDesInvitations
<1>2. /\ Voies' /\ Avance /\ operation \in OperationDe(Emise)
      /\ Emise \subseteq Emise' /\ Emise' \subseteq Estampille
      /\ e.compteur <= compteur'[r]
      /\ enRoute'[r] = Tail(enRoute[r])
      /\ \A q \in Racine : q # r => enRoute'[q] = enRoute[q]
      /\ compteur' \in [Racine -> Nat]
  BY <1>1, Recue
<1>3. /\ InvitationsDe(r)' /\ \A q \in Racine : MemesInvitations(q)
      /\ DOMAIN invitations' = Racine /\ DOMAIN ouverts' = Racine
      /\ DOMAIN balayees' = Racine
  BY <1>2, InvitationsIntactes
<1>4. /\ InscriptionsDe(r)' /\ \A q \in Racine : MemesInscriptions(q)
      /\ DOMAIN declarations' = Racine /\ DOMAIN presentations' = Racine
      /\ DOMAIN marques' = Racine /\ DOMAIN hebergements' = Racine
      /\ DOMAIN locateurs' = Racine
  BY <1>2, InscriptionsIntactes
<1> HIDE DEF operation
<1>5. operation.quoi \in {"machine", "modifiee", "service", "efface", "fin"}
  BY DEF AppliquerAuxMachines, operation
<1>6. operation \in AuxMachines(Emise)
  BY <1>2, <1>5, ChampsInvitations, ChampsInscriptions DEF OperationDe
<1>7. UNCHANGED tablesDesMachines => MachinesApres(r)
  BY <1>2, MachinesIntactes DEF MachinesApres
<1>19. ASSUME \A q \in Racine : MemesMachines(q), DOMAIN effaces' = Racine,
              DOMAIN machines' = Racine, DOMAIN services' = Racine
       PROVE  MachinesApres(r)
  BY <1>2, <1>19, MachinesRestent DEF IInv, Locale, MachinesApres
<1>8. ASSUME operation.quoi = "machine", AppliquerMachine(r, operation)
      PROVE  MachinesApres(r)
  <2> DEFINE v == operation.enregistrement
             f == machines[r]
  <2>1. m \in Emise /\ v \in MachineDe(Emise) /\ v.estampille = e
    BY <1>6, <1>8, ChampsMachines
  <2>2. UNCHANGED <<effaces, services>> BY <1>8 DEF AppliquerMachine
  <2>3. CASE v.proprietaire \in effaces[r] \/ m \in DOMAIN f
    <3>1. DOMAIN machines' = Racine /\ \A q \in Racine : machines'[q] = machines[q]
      BY <1>8, <2>3 DEF AppliquerMachine, Garder, IInv, Racines
    <3> QED BY <3>1, <2>2, <1>19 DEF MemesMachines, IInv, Racines
  <2>4. CASE v.proprietaire \notin effaces[r] /\ m \notin DOMAIN f
    <3>1. machines' = [machines EXCEPT ![r] = Poser(@, m, v)]
      BY <1>8, <2>4 DEF AppliquerMachine, Garder
    <3>2. v \in MachineDe(Emise') /\ m \in Emise' BY <1>2, <2>1, Larges
    <3>3. v.estampille.compteur <= compteur'[r] BY <1>2, <2>1
    <3> HIDE DEF v, m
    <3> QED BY <1>2, <2>2, <2>4, <3>1, <3>2, <3>3, RangeeMachine
  <2> QED BY <2>3, <2>4
<1>9. ASSUME operation.quoi = "modifiee", AppliquerMachineModifiee(r, operation)
      PROVE  MachinesApres(r)
  <2>1. m \in Emise /\ e \in Emise BY <1>6, <1>9, ChampsMachines
  <2>2. CASE m \notin DOMAIN machines[r]
    <3>1. UNCHANGED tablesDesMachines
      BY <1>9, <2>2 DEF AppliquerMachineModifiee, tablesDesMachines
    <3> QED BY <3>1, <1>7
  <2>3. CASE m \in DOMAIN machines[r]
    <3> DEFINE f == machines[r]
               F == Emise'
               champs == Recents(f[m], operation.champs, e)
               u == Modifiee(f[m], champs, e)
               t == PlusTard(f[m].estampille, e)
               v == [u EXCEPT !.estampille = t]
    <3>1. /\ machines' = [machines EXCEPT ![r][m] = v] /\ UNCHANGED <<effaces, services>>
      BY <1>9, <2>3 DEF AppliquerMachineModifiee, IInv, Racines
    <3>2. /\ TableDe(f, F, MachineDe(F))
          /\ \A x \in DOMAIN f : f[x].estampille.compteur <= compteur'[r]
      BY <1>2, MachinesLarges
    <3>3. /\ f[m] \in [proprietaire : Titulaires, estampille : F, nom : F, capacites : F]
          /\ f[m].nom.compteur <= f[m].estampille.compteur
          /\ f[m].capacites.compteur <= f[m].estampille.compteur
          /\ e \in F /\ m \in F
      BY <1>2, <2>1, <2>3, <3>2 DEF TableDe, MachineDe
    <3>5. /\ t \in {f[m].estampille, e} /\ ~Avant(t, f[m].estampille) /\ ~Avant(t, e)
      BY <1>2, <3>3, Extremes
    <3>6. /\ v.proprietaire = f[m].proprietaire /\ v.estampille = t
          /\ v.nom \in {f[m].nom, e} /\ v.capacites \in {f[m].capacites, e}
          /\ v \in [proprietaire : Titulaires, estampille : F, nom : F, capacites : F]
      <4> HIDE DEF f, champs, t
      <4> QED BY <3>3, <3>5 DEF Modifiee
    <3>7. /\ t.compteur \in Nat /\ e.compteur \in Nat /\ f[m].estampille.compteur \in Nat
          /\ f[m].nom.compteur \in Nat /\ f[m].capacites.compteur \in Nat
      BY <1>2, <3>3, <3>5 DEF Estampille
    <3>8. f[m].estampille.compteur <= t.compteur /\ e.compteur <= t.compteur
      BY <3>5, <3>7 DEF Avant
    <3>9. t.compteur <= compteur'[r] BY <1>2, <2>3, <3>2, <3>5
    <3>10. machines' = [machines EXCEPT ![r] = Poser(@, m, v)]
      <4> DEFINE g == [f EXCEPT ![m] = v]
      <4>1. machines' = [machines EXCEPT ![r] = g] BY <3>1 DEF IInv, Racines
      <4>2. g = Poser(f, m, v)
        <5> HIDE DEF f, v
        <5> QED BY <2>3, <3>2, Remplacee DEF f
      <4> QED BY <4>1, <4>2
    <3> HIDE DEF f, v, t
    <3>11. v \in MachineDe(F)
      <4>1. v.nom.compteur <= v.estampille.compteur BY <3>3, <3>6, <3>7, <3>8
      <4>2. v.capacites.compteur <= v.estampille.compteur BY <3>3, <3>6, <3>7, <3>8
      <4> QED BY <4>1, <4>2, <3>6 DEF MachineDe
    <3>12. v.estampille.compteur <= compteur'[r] BY <3>6, <3>9
    <3> HIDE DEF m, e
    <3> QED BY <1>2, <3>1, <3>3, <3>10, <3>11, <3>12, RangeeMachine
  <2> QED BY <2>2, <2>3
<1>10. ASSUME operation.quoi = "service", AppliquerService(r, operation)
       PROVE  MachinesApres(r)
  <2> DEFINE s == operation.service
             f == services[r]
  <2>1. /\ s \in [machine : Emise, nom : Noms] /\ e \in Emise
        /\ UNCHANGED <<effaces, machines>>
    BY <1>6, <1>10, ChampsMachines DEF AppliquerService
  <2>2. CASE ~Rattache(r, s)
    <3>1. DOMAIN services' = Racine /\ \A q \in Racine : services'[q] = services[q]
      BY <1>10, <2>2 DEF AppliquerService, IInv, Racines
    <3> QED BY <3>1, <2>1, <1>19 DEF MemesMachines, IInv, Racines
  <2>3. CASE Rattache(r, s)
    <3> DEFINE t == IF s \in DOMAIN f THEN PlusTot(f[s], e) ELSE e
    <3>1. services' = [services EXCEPT ![r] = Poser(@, s, t)]
      BY <1>10, <2>3 DEF AppliquerService
    <3>2. s \in [machine : Emise', nom : Noms] /\ e \in Emise' BY <1>2, <2>1
    <3>3. t \in Emise'
      <4>1. TableDe(f, [machine : Emise', nom : Noms], Emise') BY <1>2, MachinesLarges
      <4> HIDE DEF f, s
      <4> QED BY <4>1, <3>2 DEF TableDe, PlusTot
    <3> HIDE DEF t, s
    <3> QED BY <1>2, <2>1, <3>1, <3>2, <3>3, RangeService
  <2> QED BY <2>2, <2>3
<1>11. ASSUME operation.quoi = "efface", AppliquerCompteEfface(r, operation)
       PROVE  MachinesApres(r)
  <2>1. operation.compte \in Titulaires BY <1>6, <1>11, ChampsMachines
  <2>2. CASE operation.compte \in effaces[r]
    BY <1>7, <1>11, <2>2 DEF AppliquerCompteEfface
  <2>3. CASE operation.compte \notin effaces[r]
    <3>1. EffacerLesMachines(r, operation.compte) BY <1>11, <2>3 DEF AppliquerCompteEfface
    <3> QED BY <3>1, <1>2, <2>1, EffaceesMachines
  <2> QED BY <2>2, <2>3
<1>12. MachinesApres(r)
  BY <1>7, <1>8, <1>9, <1>10, <1>11 DEF AppliquerAuxMachines, operation
<1>13. \A q \in Racine : declarations'[q] = declarations[q]
  BY <1>4 DEF MemesInscriptions
<1>14. DOMAIN declarations'[r] = DOMAIN declarations[r]
         \cup (IF Head(enRoute[r]).quoi = "inscription" THEN {Head(enRoute[r]).code} ELSE {})
  <2>1. Head(enRoute[r]).quoi # "inscription" BY <1>5 DEF operation
  <2> QED BY <2>1, <1>13
<1>15. \A q \in Racine : CheminDe(q)' BY <1>1, <1>2, <1>13, <1>14, CheminRecu
<1>16. Racines' BY <1>3, <1>4, <1>12 DEF MachinesApres, Racines
<1>17. Ailleurs(r) BY <1>3, <1>4, <1>12 DEF MachinesApres, Ailleurs
<1>18. MachinesDe(r)' BY <1>12 DEF MachinesApres
<1> QED BY <1>2, <1>3, <1>4, <1>15, <1>16, <1>17, <1>18, Pas

LEMMA PasRecuInvitations ==
  ASSUME IInv, NEW r \in Racine, Retirer(r),
         AppliquerAuxInvitations(r, Head(enRoute[r])),
         UNCHANGED <<tablesDesMachines, tablesDesInscriptions>>
  PROVE  IInv'
<1> DEFINE operation == Head(enRoute[r])
<1>1. \A p \in Racine : ouverts[p] \subseteq ouverts'[p]
  <2>1. \/ UNCHANGED ouverts
        \/ ouverts' = [ouverts EXCEPT ![r] =
             @ \cup {[par |-> operation.par, compte |-> operation.compte]}]
    BY DEF AppliquerAuxInvitations, AppliquerInvitation, AppliquerInvitationConsommee,
           AppliquerCompteOuvert, tablesDesInvitations
  <2>2. DOMAIN ouverts = Racine BY DEF IInv, Racines
  <2> HIDE DEF operation
  <2> QED BY <2>1, <2>2
<1>2. /\ Voies' /\ Avance /\ operation \in OperationDe(Emise)
      /\ Emise \subseteq Emise' /\ Emise' \subseteq Estampille
      /\ enRoute'[r] = Tail(enRoute[r])
      /\ \A q \in Racine : q # r => enRoute'[q] = enRoute[q]
      /\ compteur' \in [Racine -> Nat]
      /\ 1 \in DOMAIN enRoute[r] /\ operation = enRoute[r][1]
  BY <1>1, Recue
<1>3. /\ MachinesDe(r)' /\ \A q \in Racine : MemesMachines(q)
      /\ DOMAIN effaces' = Racine /\ DOMAIN machines' = Racine /\ DOMAIN services' = Racine
  BY <1>2, MachinesIntactes
<1>4. /\ InscriptionsDe(r)' /\ \A q \in Racine : MemesInscriptions(q)
      /\ DOMAIN declarations' = Racine /\ DOMAIN presentations' = Racine
      /\ DOMAIN marques' = Racine /\ DOMAIN hebergements' = Racine
      /\ DOMAIN locateurs' = Racine
  BY <1>2, InscriptionsIntactes
<1>5. operation.quoi = "ouvert" =>
        [par |-> operation.par, compte |-> operation.compte]
          \in ouverts[operation.compte.racine]
  BY <1>2 DEF IInv, CheminDe
<1> HIDE DEF operation
<1>6. operation.quoi \in {"invitation", "consommee", "ouvert", "premier"}
  BY DEF AppliquerAuxInvitations, operation
<1>7. operation \in AuxInvitations(Emise)
  BY <1>2, <1>6, ChampsMachines, ChampsInscriptions DEF OperationDe
<1>8. UNCHANGED tablesDesInvitations => InvitationsApres(r)
  BY <1>1, <1>2, InvitationsIntactes DEF InvitationsApres
<1>9. ASSUME operation.quoi = "invitation", AppliquerInvitation(r, operation)
      PROVE  InvitationsApres(r)
  <2> DEFINE i == operation.invitation
             etat == operation.etat
  <2>1. i \in Emise' /\ etat \in Etats /\ UNCHANGED <<ouverts, perimees, balayees>>
    BY <1>2, <1>7, <1>9, ChampsInvitations DEF AppliquerInvitation
  <2>2. CASE i \in DOMAIN invitations[r]
    <3>1. DOMAIN invitations' = Racine /\ \A q \in Racine : invitations'[q] = invitations[q]
      BY <1>9, <2>2 DEF AppliquerInvitation, Garder, IInv, Racines
    <3>2. \A q \in Racine : MemesInvitations(q) BY <3>1, <2>1 DEF MemesInvitations
    <3>3. InvitationsDe(r)' BY <1>2, <3>2, InvitationsRestent DEF IInv, Locale
    <3> QED BY <3>1, <3>2, <3>3, <2>1, <1>1 DEF InvitationsApres, IInv, Racines
  <2>3. CASE i \notin DOMAIN invitations[r]
    <3>1. invitations' = [invitations EXCEPT ![r] = Poser(@, i, etat)]
      BY <1>9, <2>3 DEF AppliquerInvitation, Garder
    <3> HIDE DEF i, etat
    <3> QED BY <3>1, <2>1, <2>3, <1>2, RangeeInvitation
  <2> QED BY <2>2, <2>3
<1>10. ASSUME operation.quoi = "consommee", AppliquerInvitationConsommee(r, operation)
       PROVE  InvitationsApres(r)
  <2> DEFINE i == operation.invitation
             etat == "morte"
  <2>1. /\ i \in Emise' /\ etat \in Etats /\ UNCHANGED <<ouverts, perimees, balayees>>
        /\ invitations' = [invitations EXCEPT ![r] = Poser(@, i, etat)]
    BY <1>2, <1>7, <1>10, ChampsInvitations DEF AppliquerInvitationConsommee, Etats
  <2> HIDE DEF i
  <2> QED BY <2>1, <1>2, RangeeInvitation
<1>11. ASSUME operation.quoi = "ouvert", AppliquerCompteOuvert(r, operation)
       PROVE  InvitationsApres(r)
  <2> DEFINE a == [par |-> operation.par, compte |-> operation.compte]
  <2>1. operation.par \in Emise /\ operation.compte \in Emise
    BY <1>7, <1>11, ChampsInvitations
  <2>2. a \in CompteOuvert(Emise') BY <1>2, <2>1 DEF CompteOuvert
  <2>3. a \in ouverts[a.compte.racine] /\ a.compte.racine \in Racine
    BY <1>5, <1>11, <2>1 DEF Emise, Estampille
  <2>4. /\ ouverts' = [ouverts EXCEPT ![r] = @ \cup {a}] /\ UNCHANGED <<invitations, balayees>>
    BY <1>11 DEF AppliquerCompteOuvert
  <2> HIDE DEF a
  <2> QED BY <1>2, <2>2, <2>3, <2>4, CompteAjoute
<1>12. InvitationsApres(r)
  BY <1>8, <1>9, <1>10, <1>11 DEF AppliquerAuxInvitations, operation
<1>13. \A q \in Racine : declarations'[q] = declarations[q]
  BY <1>4 DEF MemesInscriptions
<1>14. DOMAIN declarations'[r] = DOMAIN declarations[r]
         \cup (IF Head(enRoute[r]).quoi = "inscription" THEN {Head(enRoute[r]).code} ELSE {})
  <2>1. Head(enRoute[r]).quoi # "inscription" BY <1>6 DEF operation
  <2> QED BY <2>1, <1>13
<1>15. \A q \in Racine : CheminDe(q)' BY <1>1, <1>2, <1>13, <1>14, CheminRecu
<1>16. Racines' BY <1>3, <1>4, <1>12 DEF InvitationsApres, Racines
<1>17. Ailleurs(r) BY <1>3, <1>4, <1>12 DEF InvitationsApres, Ailleurs
<1>18. InvitationsDe(r)' BY <1>12 DEF InvitationsApres
<1> QED BY <1>2, <1>3, <1>4, <1>15, <1>16, <1>17, <1>18, Pas

LEMMA PasRecuInscriptions ==
  ASSUME IInv, NEW r \in Racine, Retirer(r),
         AppliquerAuxInscriptions(r, Head(enRoute[r])),
         UNCHANGED <<tablesDesMachines, tablesDesInvitations>>
  PROVE  IInv'
<1> DEFINE operation == Head(enRoute[r])
<1>1. \A p \in Racine : ouverts[p] \subseteq ouverts'[p] BY DEF tablesDesInvitations
<1>2. /\ Voies' /\ Avance /\ operation \in OperationDe(Emise)
      /\ Emise \subseteq Emise' /\ OperationDe(Emise) \subseteq OperationDe(Emise')
      /\ enRoute'[r] = Tail(enRoute[r])
      /\ \A q \in Racine : q # r => enRoute'[q] = enRoute[q]
      /\ compteur' \in [Racine -> Nat]
      /\ 1 \in DOMAIN enRoute[r] /\ operation = enRoute[r][1]
  BY <1>1, Recue
<1>3. /\ MachinesDe(r)' /\ \A q \in Racine : MemesMachines(q)
      /\ DOMAIN effaces' = Racine /\ DOMAIN machines' = Racine /\ DOMAIN services' = Racine
  BY <1>2, MachinesIntactes
<1>4. /\ InvitationsDe(r)' /\ \A q \in Racine : MemesInvitations(q)
      /\ DOMAIN invitations' = Racine /\ DOMAIN ouverts' = Racine
      /\ DOMAIN balayees' = Racine
  BY <1>2, InvitationsIntactes
\* Nothing precedes it: its code is declared here.
<1>5. operation.quoi = "presentation" => operation.code \in DOMAIN declarations[r]
  <2>1. Ordonnee(enRoute[r], DOMAIN declarations[r]) BY DEF IInv, CheminDe
  <2>2. \A j \in DOMAIN enRoute[r] : ~(j < 1)
    <3>1. enRoute[r] \in Seq(OperationDe(Emise)) BY DEF IInv, Voies
    <3> QED BY <3>1
  <2> QED BY <1>2, <2>1, <2>2 DEF Ordonnee
<1> HIDE DEF operation
<1>6. operation.quoi \in {"inscription", "presentation", "marque", "hebergeur", "locateurs"}
  BY DEF AppliquerAuxInscriptions, operation
<1>7. operation \in AuxInscriptions(Emise')
  BY <1>2, <1>6, ChampsMachines, ChampsInvitations DEF OperationDe
<1>8. InscriptionsApres(r, operation)
  BY <1>2, <1>5, <1>7, AppliqueeInscription DEF operation
<1>9. \A q \in Racine \ {r} : declarations'[q] = declarations[q]
  BY <1>8 DEF InscriptionsApres, MemesInscriptions
<1>10. DOMAIN declarations'[r] = DOMAIN declarations[r]
         \cup (IF Head(enRoute[r]).quoi = "inscription" THEN {Head(enRoute[r]).code} ELSE {})
  BY <1>8 DEF InscriptionsApres, operation
<1>11. \A q \in Racine : CheminDe(q)' BY <1>1, <1>2, <1>9, <1>10, CheminRecu
<1>12. Racines' BY <1>3, <1>4, <1>8 DEF InscriptionsApres, Racines
<1>13. Ailleurs(r) BY <1>3, <1>4, <1>8 DEF InscriptionsApres, Ailleurs
<1>14. InscriptionsDe(r)' BY <1>8 DEF InscriptionsApres
<1> QED BY <1>2, <1>3, <1>4, <1>11, <1>12, <1>13, <1>14, Pas

LEMMA PasRecevoir ==
  ASSUME IInv, NEW r \in Racine, Recevoir(r)
  PROVE  IInv'
<1>1. Retirer(r) /\ Appliquer(r, Head(enRoute[r])) BY DEF Recevoir
<1>2. \/ /\ AppliquerAuxMachines(r, Head(enRoute[r]))
         /\ UNCHANGED <<tablesDesInvitations, tablesDesInscriptions>>
      \/ /\ AppliquerAuxInvitations(r, Head(enRoute[r]))
         /\ UNCHANGED <<tablesDesMachines, tablesDesInscriptions>>
      \/ /\ AppliquerAuxInscriptions(r, Head(enRoute[r]))
         /\ UNCHANGED <<tablesDesMachines, tablesDesInvitations>>
      \/ Head(enRoute[r]).quoi = "fin" /\ UNCHANGED tables
  BY <1>1 DEF Appliquer
<1>3. CASE AppliquerAuxMachines(r, Head(enRoute[r]))
           /\ UNCHANGED <<tablesDesInvitations, tablesDesInscriptions>>
  <2>1. AppliquerAuxMachines(r, Head(enRoute[r])) BY <1>3
  <2>2. UNCHANGED <<tablesDesInvitations, tablesDesInscriptions>> BY <1>3
  <2> QED BY <1>1, <2>1, <2>2, PasRecuMachines
<1>4. CASE AppliquerAuxInvitations(r, Head(enRoute[r]))
           /\ UNCHANGED <<tablesDesMachines, tablesDesInscriptions>>
  BY <1>1, <1>4, PasRecuInvitations
<1>5. CASE AppliquerAuxInscriptions(r, Head(enRoute[r]))
           /\ UNCHANGED <<tablesDesMachines, tablesDesInvitations>>
  BY <1>1, <1>5, PasRecuInscriptions
<1>6. CASE Head(enRoute[r]).quoi = "fin" /\ UNCHANGED tables
  <2>1. /\ UNCHANGED tablesDesMachines
        /\ UNCHANGED <<tablesDesInvitations, tablesDesInscriptions>>
    BY <1>6 DEF tables
  <2> QED BY <1>1, <1>6, <2>1, PasRecuMachines
<1> QED BY <1>2, <1>3, <1>4, <1>5, <1>6

-----------------------------------------------------------------------------
(* The initial states, and every step.                                     *)

\* A set of stamps has a first one.
LEMMA PremiereDe ==
  ASSUME NEW S \in SUBSET Estampille, S # {}
  PROVE  Premiere(S) \in S /\ \A autre \in S : ~Avant(autre, Premiere(S))
BY PremiereEstampille DEF Premiere

LEMMA PasInit == Init => IInv
<1> SUFFICES ASSUME Init PROVE IInv OBVIOUS
<1>1. InitVoie(7) /\ InitTables BY DEF Init, Depart
<1>2. /\ compteur = [r \in Racine |-> 7] /\ enRoute = [r \in Racine |-> <<>>] /\ amorcages = 0
  BY <1>1 DEF InitVoie
<1>3. Titulaire1 \in Titulaires /\ Titulaire1 \in Estampille
  BY TitulairesAssumption, RegistreAssumption, PremiereDe DEF Titulaire1, Premiere
<1>4. Annuaire1 \in Membres /\ Annuaire2 \in Membres
  BY RegistreAssumption DEF Annuaire1, Annuaire2
<1>5. \A n \in 1..7 : E1(n) \in Emise /\ E1(n).compteur = n
  BY <1>2, <1>3 DEF E1, Emise, Estampille
<1> DEFINE m == Machine(Titulaire1, E1(2))
           p1 == [membre |-> Annuaire1, estampille |-> E1(3)]
           p2 == [membre |-> Annuaire2, estampille |-> E1(7)]
           E == Emise
<1>6. E1(2) \in E /\ E1(3) \in E /\ E1(4) \in E /\ E1(5) \in E /\ E1(6) \in E /\ E1(7) \in E
      /\ E1(2).compteur = 2
  BY <1>5
<1>7. m \in MachineDe(E) /\ m.proprietaire = Titulaire1 /\ m.estampille = E1(2)
  BY <1>3, <1>6 DEF MachineDe, Machine
<1>8. p1 \in PresentationDe(E) /\ p2 \in PresentationDe(E)
  BY <1>4, <1>6 DEF PresentationDe
<1>9. Marque("acceptation", Annuaire1) \in MarqueDe BY <1>4 DEF Marque, MarqueDe, Genre
<1>10. Racines BY <1>1 DEF InitTables, Racines
<1>11. Voies
  <2> DEFINE T == OperationDe(Emise)
  <2> HIDE DEF T
  <2>1. enRoute \in [Racine -> Seq(T)] BY <1>2
  <2> QED BY <2>1, <1>2 DEF Voies, T
<1>12. ASSUME NEW r \in Racine PROVE Locale(r) /\ CheminDe(r)
  <2> HIDE DEF E, m, p1, p2
  <2>1. /\ effaces[r] = {} /\ services[r] = <<>> /\ ouverts[r] = {} /\ balayees[r] = {}
        /\ hebergements[r] = <<>> /\ locateurs[r] = <<>>
        /\ machines[r] = (IF part = "machines" THEN Seul(E1(2), m) ELSE <<>>)
        /\ invitations[r] = (IF part = "invitations" THEN Seul(E1(2), "vivante") ELSE <<>>)
        /\ presentations[r] = (IF part = "inscriptions"
             THEN Poser(Seul(E1(2), p1), E1(6), p2) ELSE <<>>)
        /\ marques[r] = (IF part = "inscriptions"
             THEN Seul(Marque("acceptation", Annuaire1), E1(4)) ELSE <<>>)
        /\ compteur[r] = 7 /\ enRoute[r] = <<>> /\ enRoute[Pair[r]] = <<>>
    BY <1>1, <1>2, RepliqueAssumption DEF InitTables, m, p1, p2
  <2>2. TableDe(machines[r], E, MachineDe(E))
    <3>1. TableDe(Seul(E1(2), m), E, MachineDe(E)) BY <1>6, <1>7, SeuleTable
    <3> QED BY <2>1, <3>1, Vide
  <2>3. TableDe(services[r], [machine : E, nom : Noms], E) BY <2>1, Vide
  <2>4. \A x \in DOMAIN machines[r] : machines[r][x].estampille.compteur <= compteur[r]
    <3>1. CASE part = "machines"
      <4> DEFINE f == machines[r]
                 cle == E1(2)
      <4>2. f = Seul(cle, m) BY <2>1, <3>1
      <4>1. DOMAIN f = {cle} /\ f[cle] = m
        <5> HIDE DEF f, cle
        <5> QED BY <4>2, Seule
      <4> QED BY <4>1, <1>6, <1>7, <2>1
    <3>2. CASE part # "machines" BY <2>1, <3>2
    <3> QED BY <3>1, <3>2
  <2>5. MachinesDe(r) BY <2>1, <2>2, <2>3, <2>4, FS_EmptySet DEF MachinesDe, E
  <2>6. TableDe(invitations[r], E, Etats)
    <3>1. "vivante" \in Etats BY DEF Etats
    <3>2. TableDe(Seul(E1(2), "vivante"), E, Etats) BY <1>6, <3>1, SeuleTable
    <3> QED BY <2>1, <3>2, Vide
  <2>7. InvitationsDe(r) BY <2>1, <2>6, FS_EmptySet DEF InvitationsDe, E
  <2>8. TableDe(declarations[r], E, Declaration) /\
          (part = "inscriptions" => DOMAIN declarations[r] = {E1(2), E1(5), E1(6)})
    <3>1. CASE part = "inscriptions"
      <4> DEFINE S == {E1(2), E1(5), E1(6)}
      <4>1. declarations[r] = [e \in S |->
              [proprietaire |-> Titulaire1,
               annuaire |-> IF e = E1(2) THEN SansAnnuaire ELSE Annuaire1]]
        BY <1>1, <3>1 DEF InitTables
      <4>2. IsFiniteSet({E1(2)} \cup {E1(5)} \cup {E1(6)})
        <5>1. IsFiniteSet({E1(2)}) BY FS_Singleton
        <5>2. IsFiniteSet({E1(2)} \cup {E1(5)}) BY <5>1, FS_AddElement
        <5> QED BY <5>2, FS_AddElement
      <4>3. S = {E1(2)} \cup {E1(5)} \cup {E1(6)} OBVIOUS
      <4>4. S \subseteq E BY <1>6
      <4> HIDE DEF S
      <4>5. declarations[r] \in [S -> Declaration] BY <4>1, <1>3, <1>4 DEF Declaration
      <4>6. DOMAIN declarations[r] = S BY <4>1
      <4>7. IsFiniteSet(S) BY <4>2, <4>3
      <4>8. TableDe(declarations[r], E, Declaration) BY <4>4, <4>5, <4>6, <4>7 DEF TableDe
      <4> QED BY <4>6, <4>8 DEF S
    <3>2. CASE part # "inscriptions"
      <4>1. declarations[r] = <<>> BY <1>1, <3>2 DEF InitTables
      <4> QED BY <4>1, <3>2, Vide
    <3> QED BY <3>1, <3>2
  <2>9. /\ TableDe(presentations[r], E, PresentationDe(E))
        /\ DOMAIN presentations[r] \subseteq DOMAIN declarations[r]
    <3>1. CASE part = "inscriptions"
      <4> DEFINE P == PresentationDe(E)
                 f == Seul(E1(2), p1)
                 g == Poser(f, E1(6), p2)
      <4>1. p1 \in P /\ p2 \in P BY <1>8 DEF E
      <4> HIDE DEF P
      <4>2. TableDe(f, E, P) BY <1>6, <4>1, SeuleTable
      <4>3. DOMAIN f = {E1(2)} BY Seule
      <4> HIDE DEF f
      <4>4. TableDe(g, E, P) BY <1>6, <4>1, <4>2, PoseeTable
      <4>5. DOMAIN g = DOMAIN f \cup {E1(6)} BY DEF Poser
      <4> HIDE DEF g
      <4>6. presentations[r] = g BY <2>1, <3>1 DEF g, f
      <4> QED BY <2>8, <3>1, <4>3, <4>4, <4>5, <4>6 DEF P
    <3>2. CASE part # "inscriptions" BY <2>1, <3>2, Vide
    <3> QED BY <3>1, <3>2
  <2>10. TableDe(marques[r], MarqueDe, E)
    <3>1. TableDe(Seul(Marque("acceptation", Annuaire1), E1(4)), MarqueDe, E)
      BY <1>6, <1>9, SeuleTable
    <3> QED BY <2>1, <3>1, Vide
  <2>11. TableDe(hebergements[r], DOMAIN DomaineDe, HebergementDe(E))
         /\ TableDe(locateurs[r], Membres, E)
    BY <2>1, Vide
  <2>12. InscriptionsDe(r) BY <2>8, <2>9, <2>10, <2>11 DEF InscriptionsDe, E
  <2>13. Inscrits(enRoute[r]) = {} /\ Inscrits(enRoute[Pair[r]]) = {} BY <2>1 DEF Inscrits
  <2>14. declarations[Pair[r]] = declarations[r]
    BY <1>1, RepliqueAssumption DEF InitTables
  <2>15. CheminDe(r) BY <2>1, <2>13, <2>14 DEF CheminDe, Ordonnee
  <2> QED BY <2>5, <2>7, <2>12, <2>15 DEF Locale
<1> QED BY <1>10, <1>11, <1>12 DEF IInv

LEMMA PasDUneEcriture ==
  ASSUME IInv, NEW r \in Racine, Ecrit(r)
  PROVE  IInv'
<1>1. CASE EcrireDesMachines(r)
  <2>1. UNCHANGED <<tablesDesInvitations, tablesDesInscriptions>> BY <1>1 DEF EcrireDesMachines
  <2>2. PICK m \in DOMAIN machines[r] : ModifierMachine(r, m)
    BY <1>1 DEF EcrireDesMachines, Vivantes
  <2> QED BY <2>1, <2>2, PasModifierMachine
<1>2. CASE EcrireDesInvitations(r)
  <2>1. UNCHANGED <<tablesDesMachines, tablesDesInscriptions>>
    BY <1>2 DEF EcrireDesInvitations
  <2>2. \/ EmettreInvitation(r) \/ ExpirerLesInvitations(r)
        \/ \E i \in DOMAIN invitations[r] : CreerCompteSurInvitation(r, i) \/ Perimer(i)
    BY <1>2 DEF EcrireDesInvitations
  <2> QED BY <2>1, <2>2, PasEmettreInvitation, PasExpirerLesInvitations,
             PasCreerCompteSurInvitation, PasPerimer
<1>3. CASE EcrireDesInscriptions(r)
  BY <1>3, PasEcrireUneInscription DEF EcrireDesInscriptions
<1>4. CASE EffacerUnCompte(r)
  <2>1. UNCHANGED <<tablesDesInvitations, tablesDesInscriptions>> BY <1>4 DEF EffacerUnCompte
  <2>2. PICK c \in Titulaires : EffacerCompte(r, c) BY <1>4 DEF EffacerUnCompte
  <2> QED BY <2>1, <2>2, PasEffacerCompte
<1> QED BY <1>1, <1>2, <1>3, <1>4 DEF Ecrit

-----------------------------------------------------------------------------
(* The request in hand, and what an erasure may come between.              *)

LEMMA RequeteTypee ==
  ASSUME NEW E, NEW q \in RequeteDe(E)
  PROVE  /\ q.quoi \in {"repos", "creer", "declarer", "confier"}
         /\ q.quoi = "repos" => q = Repos
         /\ q.quoi = "creer" => q.compte \in Titulaires /\ q = Creer(q.compte)
         /\ q.quoi = "declarer" =>
              q.machine \in E /\ q.nom \in Noms /\ q = Declarer(q.machine, q.nom)
         /\ q.quoi = "confier" =>
              q.domaine \in DOMAIN DomaineDe /\ q.annuaire \in Membres \cup {SansAnnuaire}
BY DEF RequeteDe, Repos, Creer, Declarer, Confier

\* What is read in a first transaction is a request, and its ground is there.
LEMMA LuesTypees ==
  ASSUME IInv, NEW r \in Racine, NEW q \in Lues(r)
  PROVE  q \in RequeteDe(Emise) /\ Fondee(r, q) /\ q # Repos
<1>1. CASE part = "machines"
  <2>1. DOMAIN machines[r] \subseteq Emise BY DEF IInv, Locale, MachinesDe, TableDe
  <2>2. CASE \E c \in Titulaires \ effaces[r] : q = Creer(c)
    BY <2>2 DEF RequeteDe, Fondee, Creer, Repos
  <2>3. CASE \E m \in DOMAIN machines[r], nom \in Noms : q = Declarer(m, nom)
    BY <2>1, <2>3 DEF RequeteDe, Fondee, Declarer, Repos
  <2> QED BY <1>1, <2>2, <2>3 DEF Lues
<1>2. CASE part = "inscriptions"
  <2>1. PICK d \in DOMAIN DomaineDe, a \in Membres \cup {SansAnnuaire} : q = Confier(d, a)
    BY <1>2 DEF Lues
  <2> QED BY <2>1 DEF RequeteDe, Fondee, Confier, Repos
<1> QED BY <1>1, <1>2 DEF Lues

\* The request that is served: its ground is there, or is known to have left.
LEMMA DemandeTypee ==
  ASSUME IInv, Requetes, NEW r \in Racine, NEW q \in Demandes(r)
  PROVE  q \in RequeteDe(Emise) /\ (Fondee(r, q) \/ q \in surpris[r])
BY LuesTypees DEF Demandes, Requetes

LEMMA PasDemander ==
  ASSUME IInv, Requetes, NEW r \in Racine, Demander(r)
  PROVE  IInv'
<1>1. PICK q \in Demandes(r) : Servir(r, q) BY DEF Demander
<1>2. q \in RequeteDe(Emise) BY <1>1, DemandeTypee
<1>3. CASE q.quoi = "creer" /\ CreerMachine(r, q.compte)
           /\ UNCHANGED <<tablesDesInvitations, tablesDesInscriptions>>
  <2>1. q.compte \in Titulaires BY <1>2, <1>3, RequeteTypee
  <2> QED BY <1>3, <2>1, PasCreerMachine
<1>4. CASE q.quoi = "declarer" /\ DeclarerService(r, q.machine, q.nom)
           /\ UNCHANGED <<tablesDesInvitations, tablesDesInscriptions>>
  <2>1. q.machine \in Emise /\ q.nom \in Noms BY <1>2, <1>4, RequeteTypee
  <2> QED BY <1>4, <2>1, PasDeclarerService
<1>5. CASE q.quoi = "confier" /\ ConfierDomaine(r, q.domaine, q.annuaire)
           /\ UNCHANGED tablesDesInvitations
  <2>1. q.domaine \in DOMAIN DomaineDe /\ q.annuaire \in Membres \cup {SansAnnuaire}
    BY <1>2, <1>5, RequeteTypee
  <2> QED BY <1>5, <2>1, PasConfierDomaine
<1> QED BY <1>1, <1>3, <1>4, <1>5 DEF Servir

LEMMA PasSuivant == IInv /\ Requetes /\ [Next]_vars => IInv'
<1> SUFFICES ASSUME IInv, Requetes, [Next]_vars PROVE IInv' OBVIOUS
<1>1. ASSUME UNCHANGED <<voie, tables>> PROVE IInv'
  <2>1. UNCHANGED <<voie, tables>> BY <1>1
  <2>2. Emise' = Emise BY <2>1 DEF voie, Emise
  <2>3. Voies' BY <2>1, <2>2 DEF IInv, Voies, voie
  <2>4. Racines'
    BY <2>1 DEF IInv, Racines, tables, tablesDesMachines, tablesDesInvitations,
                tablesDesInscriptions
  <2>5. ASSUME NEW r \in Racine PROVE Locale(r)' /\ CheminDe(r)'
    <3>1. MachinesDe(r)'
      BY <2>1, <2>2 DEF IInv, Locale, MachinesDe, voie, tables, tablesDesMachines
    <3>2. InvitationsDe(r)'
      BY <2>1, <2>2 DEF IInv, Locale, InvitationsDe, tables, tablesDesInvitations
    <3>3. InscriptionsDe(r)'
      BY <2>1, <2>2 DEF IInv, Locale, InscriptionsDe, tables, tablesDesInscriptions
    <3>4. CheminDe(r)'
      BY <2>1 DEF IInv, CheminDe, voie, tables, tablesDesInvitations, tablesDesInscriptions
    <3> QED BY <3>1, <3>2, <3>3, <3>4 DEF Locale
  <2> QED BY <2>3, <2>4, <2>5 DEF IInv
<1>2. ASSUME NEW r \in Racine, Ecrit(r) PROVE IInv' BY <1>2, PasDUneEcriture
<1>3. ASSUME NEW r \in Racine, Recevoir(r) PROVE IInv' BY <1>3, PasRecevoir
<1>4. ASSUME NEW r \in Racine, Amorcer(r) PROVE IInv' BY <1>4, PasAmorcer
<1>5. ASSUME NEW r \in Racine, Demander(r) PROVE IInv' BY <1>5, PasDemander
<1>6. ASSUME NEW r \in Racine, Tarder(r) \/ Rendre(r) PROVE IInv'
  BY <1>1, <1>6 DEF Tarder, Rendre
<1>7. CASE UNCHANGED vars BY <1>1, <1>7 DEF vars
<1> QED BY <1>2, <1>3, <1>4, <1>5, <1>6, <1>7 DEF Next

\* The stamps stay given.
LEMMA EmiseReste ==
  ASSUME IInv, [Next]_vars
  PROVE  Emise \subseteq Emise'
<1>1. compteur \in [Racine -> Nat] /\ enRoute \in [Racine -> Seq(OperationDe(Emise))]
  BY DEF IInv, Voies
<1>2. ASSUME compteur' = compteur PROVE Emise \subseteq Emise' BY <1>2 DEF Emise
<1>3. ASSUME NEW r \in Racine, NEW ops, Len(ops) \in Nat, JournaliserTout(r, ops)
      PROVE  Emise \subseteq Emise'
  <2>1. compteur' = [compteur EXCEPT ![r] = @ + Len(ops)] BY <1>3 DEF JournaliserTout
  <2> QED BY <1>1, <1>3, <2>1, Ecrite
<1>4. ASSUME NEW r \in Racine, NEW operation, Journaliser(r, operation)
      PROVE  Emise \subseteq Emise'
  <2> DEFINE ops == <<operation>>
  <2>1. Len(ops) \in Nat OBVIOUS
  <2>2. JournaliserTout(r, ops) BY <1>4 DEF Journaliser
  <2> HIDE DEF ops
  <2> QED BY <1>3, <2>1, <2>2
<1>5. ASSUME NEW r \in Racine, NEW operation, Ecrire(r, operation)
      PROVE  Emise \subseteq Emise'
  BY <1>4, <1>5 DEF Ecrire
<1>6. ASSUME NEW r \in Racine, Demander(r) PROVE Emise \subseteq Emise'
  <2>1. PICK q \in Demandes(r) : Servir(r, q) BY <1>6 DEF Demander
  <2>2. CASE CreerMachine(r, q.compte) BY <1>4, <2>2 DEF CreerMachine
  <2>3. CASE DeclarerService(r, q.machine, q.nom) BY <1>4, <2>3 DEF DeclarerService
  <2>4. CASE ConfierDomaine(r, q.domaine, q.annuaire) BY <1>5, <2>4 DEF ConfierDomaine
  <2> QED BY <2>1, <2>2, <2>3, <2>4 DEF Servir
<1>7. ASSUME NEW r \in Racine, Ecrit(r) PROVE Emise \subseteq Emise'
  <2>1. CASE EcrireDesMachines(r) BY <1>4, <2>1 DEF EcrireDesMachines, ModifierMachine
  <2>2. CASE EcrireDesInvitations(r)
    <3>1. CASE EmettreInvitation(r) BY <1>4, <3>1 DEF EmettreInvitation
    <3>2. CASE ExpirerLesInvitations(r) BY <1>2, <3>2 DEF ExpirerLesInvitations, voie
    <3>3. ASSUME NEW i, CreerCompteSurInvitation(r, i) PROVE Emise \subseteq Emise'
      <4> DEFINE a == [quoi |-> "consommee", estampille |-> Suivante(r), invitation |-> i]
                 b == [quoi |-> "ouvert", estampille |-> Prochaine(r, 2), par |-> i,
                       compte |-> Prochaine(r, 2)]
                 c == [quoi |-> "premier", estampille |-> Prochaine(r, 3),
                       compte |-> Prochaine(r, 2)]
                 ops == <<a, b, c>>
      <4>1. JournaliserTout(r, ops) BY <3>3 DEF CreerCompteSurInvitation
      <4> HIDE DEF a, b, c
      <4>2. Len(ops) \in Nat OBVIOUS
      <4> HIDE DEF ops
      <4> QED BY <1>3, <4>1, <4>2
    <3>4. ASSUME NEW i, Perimer(i) PROVE Emise \subseteq Emise'
      BY <1>2, <3>4 DEF Perimer, voie
    <3> QED BY <2>2, <3>1, <3>2, <3>3, <3>4 DEF EcrireDesInvitations
  <2>3. CASE EcrireDesInscriptions(r)
    BY <1>5, <2>3 DEF EcrireDesInscriptions, EcrireUneInscription, DeclarerAnnuaire,
       PresenterUnCode, Decider, PublierLocateurs
  <2>4. CASE EffacerUnCompte(r) BY <1>4, <2>4 DEF EffacerUnCompte, EffacerCompte
  <2> QED BY <1>7, <2>1, <2>2, <2>3, <2>4 DEF Ecrit
<1>8. ASSUME NEW r \in Racine, Recevoir(r) PROVE Emise \subseteq Emise'
  <2> DEFINE T == OperationDe(Emise)
  <2>1. \A operation \in T : operation.estampille.compteur \in Nat
    <3>1. \A e \in Emise \cup {Aucune} : e.compteur \in Nat BY DEF Emise, Estampille, Aucune
    <3>2. \A operation \in T : operation.estampille \in Emise \cup {Aucune}
      BY ChampsMachines, ChampsInvitations, ChampsInscriptions DEF OperationDe
    <3> QED BY <3>1, <3>2
  <2>2. Retirer(r) BY <1>8 DEF Recevoir
  <2>3. enRoute \in [Racine -> Seq(T)] BY <1>1
  <2> HIDE DEF T
  <2> QED BY <1>1, <2>1, <2>2, <2>3, Retiree
<1>9. ASSUME NEW r \in Racine, Tarder(r) \/ Rendre(r) \/ Amorcer(r)
      PROVE  Emise \subseteq Emise'
  BY <1>2, <1>9 DEF Tarder, Rendre, Amorcer, AmorcerPar, voie
<1>10. CASE UNCHANGED vars BY <1>2, <1>10 DEF vars, voie
<1> QED BY <1>6, <1>7, <1>8, <1>9, <1>10 DEF Next

LEMMA RequeteLarge ==
  ASSUME NEW E, NEW F, E \subseteq F
  PROVE  RequeteDe(E) \subseteq RequeteDe(F)
BY DEF RequeteDe

\* The tables of machines of a root after a step, one case per operation on them.
LEMMA TenuesRestent ==
  ASSUME NEW r \in Racine, Tenues(r), MemesMachines(r), surpris[r] \subseteq surpris'[r]
  PROVE  Tenues(r)'
BY DEF Tenues, Vivantes, MemesMachines

LEMMA TenuesPosees ==
  ASSUME NEW r \in Racine, Tenues(r), NEW m, NEW v, NEW X,
         machines'[r] = Poser(machines[r], m, v), effaces'[r] = effaces[r],
         services'[r] = services[r], surpris'[r] = surpris[r] \cup X,
         \/ v.proprietaire \notin effaces[r] \/ Creer(v.proprietaire) \in surpris[r]
         \/ m \in DOMAIN machines[r] /\ v.proprietaire = machines[r][m].proprietaire
  PROVE  Tenues(r)'
<1>1. /\ DOMAIN machines'[r] = DOMAIN machines[r] \cup {m} /\ machines'[r][m] = v
      /\ \A x \in DOMAIN machines[r] : x # m => machines'[r][x] = machines[r][x]
  BY DEF Poser
<1>2. ASSUME NEW x \in DOMAIN machines'[r], machines'[r][x].proprietaire \in effaces[r]
      PROVE  Creer(machines'[r][x].proprietaire) \in surpris[r]
  BY <1>1, <1>2 DEF Tenues, Vivantes
<1>3. \A s \in DOMAIN services[r] :
        s.machine \in DOMAIN machines'[r] \/ Declarer(s.machine, s.nom) \in surpris[r]
  BY <1>1 DEF Tenues
<1> QED BY <1>2, <1>3 DEF Tenues, Vivantes

LEMMA TenuesServies ==
  ASSUME NEW r \in Racine, Tenues(r), NEW s, NEW e, NEW X,
         services'[r] = Poser(services[r], s, e), machines'[r] = machines[r],
         effaces'[r] = effaces[r], surpris'[r] = surpris[r] \cup X,
         s.machine \in DOMAIN machines[r] \/ Declarer(s.machine, s.nom) \in surpris[r]
  PROVE  Tenues(r)'
<1>1. DOMAIN services'[r] = DOMAIN services[r] \cup {s} BY DEF Poser
<1> QED BY <1>1 DEF Tenues, Vivantes

LEMMA TenuesEffacees ==
  ASSUME Racines, NEW r \in Racine, Tenues(r), NEW c, NEW X, EffacerLesMachines(r, c),
         surpris'[r] = surpris[r] \cup X
  PROVE  Tenues(r)'
<1> DEFINE siennes == {m \in DOMAIN machines[r] : machines[r][m].proprietaire = c}
<1>1. /\ effaces'[r] = effaces[r] \cup {c} /\ machines'[r] = Sans(machines[r], siennes)
      /\ services'[r] = Sans(services[r], {s \in DOMAIN services[r] : s.machine \in siennes})
  BY DEF EffacerLesMachines, Racines
<1>2. /\ DOMAIN machines'[r] = DOMAIN machines[r] \ siennes
      /\ \A m \in DOMAIN machines'[r] : machines'[r][m] = machines[r][m]
      /\ DOMAIN services'[r] = {s \in DOMAIN services[r] : s.machine \notin siennes}
  BY <1>1 DEF Sans
<1>3. ASSUME NEW m \in DOMAIN machines'[r], machines'[r][m].proprietaire \in effaces'[r]
      PROVE  Creer(machines'[r][m].proprietaire) \in surpris[r]
  BY <1>1, <1>2, <1>3 DEF Tenues, Vivantes
<1> HIDE DEF siennes
<1>4. \A s \in DOMAIN services'[r] :
        s.machine \in DOMAIN machines'[r] \/ Declarer(s.machine, s.nom) \in surpris[r]
  BY <1>2 DEF Tenues
<1> QED BY <1>3, <1>4 DEF Tenues, Vivantes

\* What the peer says leaves no row behind its account or its machine.
LEMMA TenuesRecues ==
  ASSUME IInv, NEW r \in Racine, Tenues(r), NEW X, surpris'[r] = surpris[r] \cup X,
         NEW operation \in AuxMachines(Emise), AppliquerAuxMachines(r, operation)
  PROVE  Tenues(r)'
<1> DEFINE m == operation.machine
           v == operation.enregistrement
           s == operation.service
<1>1. Racines /\ MachinesDe(r) BY DEF IInv, Locale
<1>2. ASSUME MemesMachines(r) PROVE Tenues(r)'
  <2>1. surpris[r] \subseteq surpris'[r] OBVIOUS
  <2> QED BY <1>2, <2>1, TenuesRestent
<1>3. CASE operation.quoi = "machine" /\ AppliquerMachine(r, operation)
  <2>1. /\ effaces'[r] = effaces[r] /\ services'[r] = services[r]
        /\ machines'[r] = IF v.proprietaire \in effaces[r] THEN machines[r]
                             ELSE Garder(machines[r], m, v)
    BY <1>1, <1>3 DEF AppliquerMachine, Racines
  <2> HIDE DEF m, v
  <2>2. CASE machines'[r] = machines[r] BY <1>2, <2>1, <2>2 DEF MemesMachines
  <2>3. CASE machines'[r] = Poser(machines[r], m, v) /\ v.proprietaire \notin effaces[r]
    BY <2>1, <2>3, TenuesPosees
  <2> QED BY <2>1, <2>2, <2>3 DEF Garder
<1>4. CASE operation.quoi = "modifiee" /\ AppliquerMachineModifiee(r, operation)
  <2>1. CASE m \notin DOMAIN machines[r]
    BY <1>2, <1>4, <2>1 DEF AppliquerMachineModifiee, MemesMachines
  <2>2. CASE m \in DOMAIN machines[r]
    <3> DEFINE f == machines[r]
               e == operation.estampille
               champs == Recents(f[m], operation.champs, e)
               w == [Modifiee(f[m], champs, e)
                       EXCEPT !.estampille = PlusTard(f[m].estampille, e)]
    <3>1. /\ effaces'[r] = effaces[r] /\ services'[r] = services[r]
          /\ machines'[r] = [f EXCEPT ![m] = w]
      BY <1>1, <1>4, <2>2 DEF AppliquerMachineModifiee, Racines
    <3>2. f[m] \in MachineDe(Emise) BY <1>1, <2>2 DEF MachinesDe, TableDe
    <3>3. w.proprietaire = f[m].proprietaire
      <4> DEFINE ancienne == f[m]
                 t == PlusTard(ancienne.estampille, e)
      <4>1. ancienne \in MachineDe(Emise) BY <3>2
      <4> HIDE DEF ancienne, champs, e, t
      <4>2. [Modifiee(ancienne, champs, e) EXCEPT !.estampille = t].proprietaire
              = ancienne.proprietaire
        BY <4>1 DEF MachineDe, Modifiee
      <4> QED BY <4>2 DEF ancienne, t
    <3>4. TableDe(f, Emise, MachineDe(Emise)) BY <1>1 DEF MachinesDe
    <3>5. machines'[r] = Poser(f, m, w)
      <4> DEFINE g == machines'[r]
                 E == Emise
                 M == MachineDe(Emise)
      <4>1. TableDe(f, E, M) /\ m \in DOMAIN f /\ g = [f EXCEPT ![m] = w]
        BY <2>2, <3>1, <3>4
      <4> HIDE DEF f, g, w, m, E, M
      <4>2. g = Poser(f, m, w) BY <4>1, Remplacee
      <4> QED BY <4>2 DEF g
    <3> HIDE DEF w, m
    <3> QED BY <2>2, <3>1, <3>3, <3>5, TenuesPosees
  <2> QED BY <2>1, <2>2
<1>5. CASE operation.quoi = "service" /\ AppliquerService(r, operation)
  <2>1. effaces'[r] = effaces[r] /\ machines'[r] = machines[r]
    BY <1>5 DEF AppliquerService
  <2>2. CASE ~Rattache(r, s)
    <3>1. services'[r] = services[r] BY <1>1, <1>5, <2>2 DEF AppliquerService, Racines
    <3> QED BY <1>2, <2>1, <3>1 DEF MemesMachines
  <2>3. CASE Rattache(r, s)
    <3> DEFINE t == IF s \in DOMAIN services[r] THEN PlusTot(services[r][s], operation.estampille)
                      ELSE operation.estampille
    <3>1. services'[r] = Poser(services[r], s, t)
      BY <1>1, <1>5, <2>3 DEF AppliquerService, Racines
    <3>2. s.machine \in DOMAIN machines[r] BY <2>3 DEF Rattache
    <3> HIDE DEF t, s
    <3> QED BY <2>1, <3>1, <3>2, TenuesServies
  <2> QED BY <2>2, <2>3
<1>6. CASE operation.quoi = "efface" /\ AppliquerCompteEfface(r, operation)
  <2>1. CASE UNCHANGED tablesDesMachines
    BY <1>2, <2>1 DEF tablesDesMachines, MemesMachines
  <2>2. CASE EffacerLesMachines(r, operation.compte) BY <1>1, <2>2, TenuesEffacees
  <2> QED BY <1>6, <2>1, <2>2 DEF AppliquerCompteEfface
<1> QED BY <1>3, <1>4, <1>5, <1>6 DEF AppliquerAuxMachines

\* The row of a request whose ground left is that of a request that was surprised.
LEMMA TenuesDemandees ==
  ASSUME IInv, Requetes, NEW r \in Racine, Demander(r)
  PROVE  /\ Tenues(r)' /\ \A p \in Racine \ {r} : MemesMachines(p)
<1>1. PICK q \in Demandes(r) : Servir(r, q) BY DEF Demander
<1>2. q \in RequeteDe(Emise) /\ (Fondee(r, q) \/ q \in surpris[r]) BY <1>1, DemandeTypee
<1>3. Racines /\ Tenues(r) BY DEF IInv, Requetes
<1>4. surpris' = surpris BY DEF Demander, Rendue
<1>5. surpris'[r] = surpris[r] \cup {} BY <1>4
<1>6. CASE q.quoi = "creer" /\ CreerMachine(r, q.compte)
  <2> DEFINE e == Suivante(r)
             v == Machine(q.compte, e)
  <2>1. /\ machines'[r] = Poser(machines[r], e, v)
        /\ effaces'[r] = effaces[r] /\ services'[r] = services[r]
        /\ \A p \in Racine \ {r} : MemesMachines(p)
    BY <1>3, <1>6 DEF CreerMachine, Racines, MemesMachines
  <2>2. v.proprietaire = q.compte BY DEF Machine
  <2>3. q = Creer(q.compte) BY <1>2, <1>6, RequeteTypee
  <2>4. v.proprietaire \notin effaces[r] \/ Creer(v.proprietaire) \in surpris[r]
    <3>1. q.compte \notin effaces[r] \/ q \in surpris[r] BY <1>2, <1>6 DEF Fondee
    <3> QED BY <2>2, <2>3, <3>1
  <2> HIDE DEF e, v
  <2> QED BY <1>3, <1>5, <2>1, <2>4, TenuesPosees
<1>7. CASE q.quoi = "declarer" /\ DeclarerService(r, q.machine, q.nom)
  <2> DEFINE s == [machine |-> q.machine, nom |-> q.nom]
             e == Suivante(r)
  <2>1. /\ services'[r] = Poser(services[r], s, e)
        /\ effaces'[r] = effaces[r] /\ machines'[r] = machines[r]
        /\ \A p \in Racine \ {r} : MemesMachines(p)
    BY <1>3, <1>7 DEF DeclarerService, Racines, MemesMachines
  <2>2. s.machine = q.machine /\ s.nom = q.nom OBVIOUS
  <2>3. q = Declarer(q.machine, q.nom) BY <1>2, <1>7, RequeteTypee
  <2>4. s.machine \in DOMAIN machines[r] \/ Declarer(s.machine, s.nom) \in surpris[r]
    <3>1. q.machine \in DOMAIN machines[r] \/ q \in surpris[r] BY <1>2, <1>7 DEF Fondee
    <3> QED BY <2>2, <2>3, <3>1
  <2> HIDE DEF e, s
  <2> QED BY <1>3, <1>5, <2>1, <2>4, TenuesServies
<1>8. CASE q.quoi = "confier" /\ ConfierDomaine(r, q.domaine, q.annuaire)
  <2>1. \A p \in Racine : MemesMachines(p)
    BY <1>8 DEF ConfierDomaine, Ecrire, tablesDesMachines, MemesMachines
  <2>2. surpris[r] \subseteq surpris'[r] BY <1>4
  <2> QED BY <1>3, <2>1, <2>2, TenuesRestent
<1> QED BY <1>1, <1>6, <1>7, <1>8 DEF Servir

LEMMA RequetesInit == Init => Requetes
<1> SUFFICES ASSUME Init PROVE Requetes OBVIOUS
<1>1. /\ demande = [r \in Racine |-> Repos] /\ surpris = [r \in Racine |-> {}]
      /\ InitTables
  BY DEF Init
<1>2. ASSUME NEW r \in Racine PROVE Tenues(r)
  <2>1. effaces[r] = {} /\ services[r] = <<>> BY <1>1 DEF InitTables
  <2> QED BY <2>1 DEF Tenues, Vivantes
<1>3. \A r \in Racine : Repos \in RequeteDe(Emise) /\ Fondee(r, Repos)
  BY DEF RequeteDe, Fondee, Repos
<1> QED BY <1>1, <1>2, <1>3 DEF Requetes

LEMMA RequetesSuivantes == IInv /\ Requetes /\ [Next]_vars => Requetes'
<1> SUFFICES ASSUME IInv, Requetes, [Next]_vars PROVE Requetes' OBVIOUS
<1>1. Emise \subseteq Emise' BY EmiseReste
<1>2. RequeteDe(Emise) \subseteq RequeteDe(Emise') BY <1>1, RequeteLarge
<1>3. DOMAIN demande = Racine /\ DOMAIN surpris = Racine /\ Racines BY DEF IInv, Requetes
\* The roots that a step leaves alone.
<1>4. ASSUME NEW p \in Racine, MemesMachines(p), demande'[p] = demande[p],
             surpris'[p] = surpris[p]
      PROVE  /\ demande'[p] \in RequeteDe(Emise')
             /\ Fondee(p, demande[p])' \/ demande'[p] \in surpris'[p]
             /\ Tenues(p)'
  <2>1. Tenues(p)' BY <1>4, TenuesRestent DEF Requetes
  <2>2. Fondee(p, demande[p]) \/ demande[p] \in surpris[p] BY DEF Requetes
  <2>3. Fondee(p, demande[p]) => Fondee(p, demande[p])'
    BY <1>4 DEF Fondee, MemesMachines
  <2> QED BY <1>2, <1>4, <2>1, <2>2, <2>3 DEF Requetes
\* A root with no request in hand.
<1>5. ASSUME NEW p \in Racine, demande'[p] = Repos, Tenues(p)'
      PROVE  /\ demande'[p] \in RequeteDe(Emise')
             /\ Fondee(p, demande[p])' \/ demande'[p] \in surpris'[p]
             /\ Tenues(p)'
  <2>1. Repos \in RequeteDe(Emise') BY DEF RequeteDe
  <2>2. Fondee(p, demande[p])' BY <1>5 DEF Fondee, Repos
  <2> QED BY <1>5, <2>1, <2>2
<1>6. CASE UNCHANGED vars
  <2>1. \A p \in Racine : MemesMachines(p)
    BY <1>6 DEF vars, tables, tablesDesMachines, MemesMachines
  <2>2. demande' = demande /\ surpris' = surpris BY <1>6 DEF vars, requete
  <2> QED BY <1>3, <1>4, <2>1, <2>2 DEF Requetes
<1>7. ASSUME NEW r \in Racine, Tarder(r) PROVE Requetes'
  <2>1. PICK q \in Lues(r) : demande' = [demande EXCEPT ![r] = q] BY <1>7 DEF Tarder
  <2>2. /\ \A p \in Racine : MemesMachines(p)
        /\ effaces' = effaces /\ machines' = machines /\ surpris' = surpris
    BY <1>7 DEF Tarder, tables, tablesDesMachines, MemesMachines
  <2>3. q \in RequeteDe(Emise) /\ Fondee(r, q) BY <2>1, LuesTypees
  <2>4. DOMAIN demande' = Racine /\ demande'[r] = q
        /\ \A p \in Racine \ {r} : demande'[p] = demande[p]
    BY <1>3, <2>1
  <2>5. Fondee(r, demande[r])' BY <2>2, <2>3, <2>4 DEF Fondee
  <2>6. Tenues(r)' BY <2>2, TenuesRestent DEF Requetes
  <2> QED BY <1>2, <1>3, <1>4, <2>2, <2>3, <2>4, <2>5, <2>6 DEF Requetes
<1>8. ASSUME NEW r \in Racine, Rendue(r), Tenues(r)', \A p \in Racine \ {r} : MemesMachines(p)
      PROVE  Requetes'
  <2>1. /\ DOMAIN demande' = Racine /\ demande'[r] = Repos /\ surpris' = surpris
        /\ \A p \in Racine \ {r} : demande'[p] = demande[p]
    BY <1>3, <1>8 DEF Rendue
  <2> QED BY <1>3, <1>4, <1>5, <1>8, <2>1 DEF Requetes
<1>9. ASSUME NEW r \in Racine, Rendre(r) PROVE Requetes'
  <2>1. \A p \in Racine : MemesMachines(p)
    BY <1>9 DEF Rendre, tables, tablesDesMachines, MemesMachines
  <2>2. Rendue(r) /\ surpris' = surpris BY <1>9 DEF Rendre, Rendue
  <2>3. Tenues(r)' BY <2>1, <2>2, TenuesRestent DEF Requetes
  <2> QED BY <1>8, <2>1, <2>2, <2>3
<1>10. ASSUME NEW r \in Racine, Demander(r) PROVE Requetes'
  BY <1>8, <1>10, TenuesDemandees DEF Demander
<1>11. ASSUME NEW r \in Racine, Ecrit(r) PROVE Requetes'
  <2>1. demande[r] = Repos /\ demande' = demande /\ surpris' = surpris
    BY <1>11 DEF Ecrit, requete
  <2>2. surpris'[r] = surpris[r] \cup {} /\ Tenues(r) BY <2>1 DEF Requetes
  <2>3. ASSUME \A p \in Racine : MemesMachines(p)
        PROVE  Tenues(r)' /\ \A p \in Racine \ {r} : MemesMachines(p)
    BY <2>2, <2>3, TenuesRestent
  <2>4. ASSUME EcrireDesMachines(r)
        PROVE  Tenues(r)' /\ \A p \in Racine \ {r} : MemesMachines(p)
    <3> DEFINE f == machines[r]
               e == Suivante(r)
    <3>1. PICK m \in DOMAIN f, champs \in (SUBSET {"nom", "capacites"}) \ {{}} :
            /\ machines' = [machines EXCEPT ![r][m] = Modifiee(@, champs, e)]
            /\ UNCHANGED <<effaces, services>>
      BY <2>4 DEF EcrireDesMachines, ModifierMachine, Vivantes
    <3> DEFINE w == Modifiee(f[m], champs, e)
    <3>2. /\ machines'[r] = [f EXCEPT ![m] = w]
          /\ effaces'[r] = effaces[r] /\ services'[r] = services[r]
          /\ \A p \in Racine \ {r} : MemesMachines(p)
      BY <1>3, <3>1 DEF Racines, MemesMachines
    <3>3. MachinesDe(r) BY DEF IInv, Locale
    <3>4. TableDe(f, Emise, MachineDe(Emise)) /\ f[m] \in MachineDe(Emise)
      BY <3>3 DEF MachinesDe, TableDe
    <3>5. w.proprietaire = f[m].proprietaire
      <4> DEFINE ancienne == f[m]
      <4>1. ancienne \in MachineDe(Emise) BY <3>4
      <4> HIDE DEF ancienne, e
      <4>2. Modifiee(ancienne, champs, e).proprietaire = ancienne.proprietaire
        BY <4>1 DEF MachineDe, Modifiee
      <4> QED BY <4>2 DEF ancienne
    <3>6. machines'[r] = Poser(f, m, w)
      <4> DEFINE g == machines'[r]
                 E == Emise
                 M == MachineDe(Emise)
      <4>1. TableDe(f, E, M) /\ m \in DOMAIN f /\ g = [f EXCEPT ![m] = w] BY <3>2, <3>4
      <4> HIDE DEF f, g, w, E, M
      <4>2. g = Poser(f, m, w) BY <4>1, Remplacee
      <4> QED BY <4>2 DEF g
    <3> HIDE DEF w
    <3>7. Tenues(r)' BY <2>2, <3>2, <3>5, <3>6, TenuesPosees
    <3> QED BY <3>2, <3>7
  <2>5. ASSUME EcrireDesInvitations(r)
        PROVE  Tenues(r)' /\ \A p \in Racine \ {r} : MemesMachines(p)
    BY <2>3, <2>5 DEF EcrireDesInvitations, tablesDesMachines, MemesMachines
  <2>6. ASSUME EcrireDesInscriptions(r)
        PROVE  Tenues(r)' /\ \A p \in Racine \ {r} : MemesMachines(p)
    BY <2>3, <2>6 DEF EcrireDesInscriptions, EcrireUneInscription, DeclarerAnnuaire,
       PresenterUnCode, Decider, PublierLocateurs, Ecrire, tablesDesMachines, MemesMachines
  <2>7. ASSUME EffacerUnCompte(r)
        PROVE  Tenues(r)' /\ \A p \in Racine \ {r} : MemesMachines(p)
    <3>1. PICK c \in Titulaires : EffacerLesMachines(r, c)
      BY <2>7 DEF EffacerUnCompte, EffacerCompte
    <3>2. \A p \in Racine \ {r} : MemesMachines(p)
      BY <1>3, <3>1 DEF EffacerLesMachines, Racines, MemesMachines
    <3> QED BY <1>3, <2>2, <3>1, <3>2, TenuesEffacees
  <2>8. Tenues(r)' /\ \A p \in Racine \ {r} : MemesMachines(p)
    BY <1>11, <2>4, <2>5, <2>6, <2>7 DEF Ecrit
  <2>9. demande'[r] = Repos BY <2>1
  <2> QED BY <1>3, <1>4, <1>5, <2>1, <2>8, <2>9 DEF Requetes
<1>12. ASSUME NEW r \in Racine, Recevoir(r) PROVE Requetes'
  <2> DEFINE operation == Head(enRoute[r])
             X == IF Fondee(r, demande[r])' THEN {} ELSE {demande[r]}
  <2>1. demande' = demande /\ surpris' = [surpris EXCEPT ![r] = @ \cup X]
    BY <1>12 DEF Recevoir
  <2> HIDE DEF operation, X
  <2>2. /\ DOMAIN surpris' = Racine /\ surpris'[r] = surpris[r] \cup X
        /\ \A p \in Racine \ {r} : surpris'[p] = surpris[p]
    BY <1>3, <2>1
  <2>3. Fondee(r, demande[r])' \/ demande'[r] \in surpris'[r] BY <2>1, <2>2 DEF X
  <2>4. surpris[r] \subseteq surpris'[r] /\ Tenues(r) BY <2>2 DEF Requetes
  <2>5. Tenues(r)' /\ \A p \in Racine \ {r} : MemesMachines(p)
    <3>1. CASE AppliquerAuxMachines(r, operation)
               /\ UNCHANGED <<tablesDesInvitations, tablesDesInscriptions>>
      <4>1. operation.quoi \in {"machine", "modifiee", "service", "efface"}
        BY <3>1 DEF AppliquerAuxMachines
      <4>2. operation \in OperationDe(Emise)
        <5>1. Retirer(r) BY <1>12 DEF Recevoir
        <5>2. \A p \in Racine : ouverts[p] \subseteq ouverts'[p]
          BY <3>1 DEF tablesDesInvitations
        <5> QED BY <5>1, <5>2, Recue DEF operation
      <4>3. operation \in AuxMachines(Emise)
        BY <4>1, <4>2, ChampsInvitations, ChampsInscriptions DEF OperationDe
      <4>4. \A p \in Racine \ {r} : MemesMachines(p)
        BY <1>3, <3>1 DEF AppliquerAuxMachines, AppliquerMachine, AppliquerMachineModifiee,
           AppliquerService, AppliquerCompteEfface, EffacerLesMachines, tablesDesMachines,
           Racines, MemesMachines
      <4> QED BY <2>2, <2>4, <3>1, <4>3, <4>4, TenuesRecues
    <3>2. CASE UNCHANGED tablesDesMachines
      <4>1. \A p \in Racine : MemesMachines(p) BY <3>2 DEF tablesDesMachines, MemesMachines
      <4> QED BY <2>4, <4>1, TenuesRestent
    <3>3. Appliquer(r, operation) BY <1>12 DEF Recevoir, operation
    <3> QED BY <3>1, <3>2, <3>3 DEF Appliquer, tables
  <2>6. demande'[r] \in RequeteDe(Emise') BY <1>2, <2>1 DEF Requetes
  <2>7. \A p \in Racine \ {r} : demande'[p] = demande[p] BY <2>1
  <2> QED BY <1>3, <1>4, <2>1, <2>2, <2>3, <2>5, <2>6, <2>7 DEF Requetes
<1>13. ASSUME NEW r \in Racine, Amorcer(r) PROVE Requetes'
  <2>1. \A p \in Racine : MemesMachines(p)
    BY <1>13 DEF Amorcer, tables, tablesDesMachines, MemesMachines
  <2>2. demande' = demande /\ surpris' = surpris BY <1>13 DEF Amorcer, requete
  <2> QED BY <1>3, <1>4, <2>1, <2>2 DEF Requetes
<1> QED BY <1>6, <1>7, <1>9, <1>10, <1>11, <1>12, <1>13 DEF Next

\* The invariants hold in every reachable state.
LEMMA RegistreInvariant == Spec => [](IInv /\ Requetes)
BY PasInit, RequetesInit, PasSuivant, RequetesSuivantes, PTL DEF Spec

LEMMA IInvTablesJustes == IInv /\ Requetes => TablesJustes
<1> SUFFICES ASSUME IInv, Requetes PROVE TablesJustes OBVIOUS
<1>1. Emise \subseteq Estampille BY DEF Emise
<1>2. ASSUME NEW r \in Racine, NEW i \in DOMAIN enRoute[r]
      PROVE  enRoute[r][i].estampille \in Estampille \cup {Aucune}
  <2> DEFINE T == OperationDe(Emise)
  <2>1. enRoute[r] \in Seq(T) BY DEF IInv, Voies
  <2>2. enRoute[r][i] \in T
    <3> HIDE DEF T
    <3> QED BY <2>1
  <2> DEFINE operation == enRoute[r][i]
  <2>3. operation \in AuxMachines(Emise) \/ operation \in AuxInvitations(Emise)
          \/ operation \in AuxInscriptions(Emise)
    BY <2>2 DEF OperationDe
  <2> HIDE DEF operation
  <2>4. operation.estampille \in Emise \cup {Aucune}
    BY <2>3, ChampsMachines, ChampsInvitations, ChampsInscriptions
  <2> QED BY <1>1, <2>4 DEF operation
<1>3. ASSUME NEW r \in Racine
      PROVE  /\ effaces[r] \subseteq Titulaires
             /\ EstTable(machines[r], Estampille,
                  [proprietaire : Titulaires, estampille : Estampille,
                   nom : Estampille, capacites : Estampille])
             /\ EstTable(services[r], [machine : Estampille, nom : Noms], Estampille)
             /\ Tenues(r)
  <2>1. MachinesDe(r) BY DEF IInv, Locale
  <2>2. \A m \in DOMAIN machines[r] : m \in Estampille /\ machines[r][m] \in MachineDe(Emise)
    BY <1>1, <2>1 DEF MachinesDe, TableDe
  <2>3. MachineDe(Emise) \subseteq
          [proprietaire : Titulaires, estampille : Estampille,
           nom : Estampille, capacites : Estampille]
    BY <1>1 DEF MachineDe
  <2>4. \A s \in DOMAIN services[r] :
          s \in [machine : Estampille, nom : Noms] /\ services[r][s] \in Estampille
    BY <1>1, <2>1 DEF MachinesDe, TableDe
  <2> QED BY <2>1, <2>2, <2>3, <2>4 DEF MachinesDe, EstTable, Requetes
<1>4. ASSUME NEW r \in Racine
      PROVE  EstTable(invitations[r], Estampille, {"vivante", "morte"})
  BY <1>1 DEF IInv, Locale, InvitationsDe, TableDe, Etats, EstTable
<1>5. ASSUME NEW r \in Racine
      PROVE  /\ EstTable(declarations[r], Estampille,
                  [proprietaire : Titulaires, annuaire : Membres \cup {SansAnnuaire}])
             /\ EstTable(presentations[r], DOMAIN declarations[r],
                  [membre : Membres, estampille : Estampille])
             /\ EstTable(marques[r], [genre : Genre, membre : Membres], Estampille)
             /\ EstTable(hebergements[r], DOMAIN DomaineDe,
                  [annuaire : Membres \cup {SansAnnuaire}, estampille : Estampille])
             /\ EstTable(locateurs[r], Membres, Estampille)
  <2>1. InscriptionsDe(r) BY DEF IInv, Locale
  <2>2. PresentationDe(Emise) \subseteq [membre : Membres, estampille : Estampille]
    BY <1>1 DEF PresentationDe
  <2>3. HebergementDe(Emise)
          \subseteq [annuaire : Membres \cup {SansAnnuaire}, estampille : Estampille]
    BY <1>1 DEF HebergementDe
  <2>4. EstTable(declarations[r], Estampille,
          [proprietaire : Titulaires, annuaire : Membres \cup {SansAnnuaire}])
    BY <1>1, <2>1 DEF InscriptionsDe, TableDe, EstTable, Declaration
  <2>5. EstTable(presentations[r], DOMAIN declarations[r],
          [membre : Membres, estampille : Estampille])
    BY <2>1, <2>2 DEF InscriptionsDe, TableDe, EstTable
  <2>6. EstTable(marques[r], [genre : Genre, membre : Membres], Estampille)
    BY <1>1, <2>1 DEF InscriptionsDe, TableDe, EstTable, MarqueDe
  <2>7. EstTable(hebergements[r], DOMAIN DomaineDe,
          [annuaire : Membres \cup {SansAnnuaire}, estampille : Estampille])
    BY <2>1, <2>3 DEF InscriptionsDe, TableDe, EstTable
  <2>8. EstTable(locateurs[r], Membres, Estampille)
    BY <1>1, <2>1 DEF InscriptionsDe, TableDe, EstTable
  <2> QED BY <2>4, <2>5, <2>6, <2>7, <2>8
<1> QED BY <1>2, <1>3, <1>4, <1>5 DEF TablesJustes, Tenues

\* On a root every row is a row of its table, no service outlives its machine and no
\* machine the account that owned it, whatever an erasure crossed (lib.rs 4583, 4892),
\* but for the row of the request that the erasure came between (lib.rs 1746, 2855).
THEOREM RegistreTablesJustes == Spec => []TablesJustes
BY IInvTablesJustes, RegistreInvariant, PTL

\* A root opens one account at most on a code until it sweeps the mark of that code,
\* whatever the peer or a snapshot says of it later (lib.rs 2693 and 4686).
THEOREM RegistreInvitationUneFois == Spec => []InvitationUneFois
<1>1. IInv => InvitationUneFois BY DEF IInv, Locale, InvitationsDe, InvitationUneFois
<1> QED BY <1>1, RegistreInvariant, PTL

-----------------------------------------------------------------------------
(* The members of a directory.                                             *)

\* The code that counts is one that the member has presented.
LEMMA CodePresente ==
  ASSUME IInv, NEW r \in Racine, NEW m \in Membres, Presentes(r, m) # {}
  PROVE  /\ CodeDuMembre(r, m) \in Presentes(r, m)
         /\ presentations[r][CodeDuMembre(r, m)].membre = m
<1> DEFINE S == {presentations[r][autre].estampille : autre \in Presentes(r, m)}
<1>1. S # {} OBVIOUS
<1>2. \A c \in Presentes(r, m) : presentations[r][c].estampille \in Estampille
  BY DEF IInv, Locale, InscriptionsDe, TableDe, PresentationDe, Presentes, Emise
<1>3. Premiere(S) \in S
  <2>1. S \in SUBSET Estampille BY <1>2
  <2> HIDE DEF S
  <2> QED BY <1>1, <2>1, PremiereDe
<1>4. \E c \in Presentes(r, m) : presentations[r][c].estampille = Premiere(S) BY <1>3
<1>5. CodeDuMembre(r, m) \in Presentes(r, m) BY <1>4 DEF CodeDuMembre
<1> QED BY <1>5 DEF Presentes

\* An accepted second is the one that its directory keeps.
LEMMA SecondGarde ==
  ASSUME NEW r \in Racine, NEW m \in Membres, Etat(r, m) = "acceptee", Second(r, m)
  PROVE  /\ Presentes(r, m) # {}
         /\ EstLeSecond(r, DeclarationDuMembre(r, m).annuaire, m)
<1>1. Presentes(r, m) # {} BY DEF Etat
<1>2. ~Retire(r, m) BY <1>1 DEF Etat, EtatPropre
<1>3. TitulaireVivant(r, m) BY <1>1, <1>2 DEF Etat
<1> QED BY <1>1, <1>2, <1>3 DEF Etat

LEMMA UnSeulSecond == IInv => PaireBornee
<1> SUFFICES ASSUME IInv, NEW r \in Racine, NEW a \in Membres, NEW b \in Membres,
                    Etat(r, a) = "acceptee" /\ Second(r, a),
                    Etat(r, b) = "acceptee" /\ Second(r, b),
                    DeclarationDuMembre(r, a).annuaire = DeclarationDuMembre(r, b).annuaire
             PROVE  a = b
  BY DEF PaireBornee
<1> DEFINE t == DeclarationDuMembre(r, a).annuaire
<1>1. EstLeSecond(r, t, a) /\ EstLeSecond(r, t, b) BY SecondGarde
<1>2. CodeDuMembre(r, a) = CodeDuMembre(r, b)
  <2> HIDE DEF t
  <2> QED BY <1>1 DEF EstLeSecond
<1>3. /\ presentations[r][CodeDuMembre(r, a)].membre = a
      /\ presentations[r][CodeDuMembre(r, b)].membre = b
  BY SecondGarde, CodePresente
<1> QED BY <1>2, <1>3

\* A directory has two accepted members at most on a root, itself and one second, in
\* whatever order codes and decisions reach it (annuaires.rs 316).
THEOREM RegistrePaireBornee == Spec => []PaireBornee
BY UnSeulSecond, RegistreInvariant, PTL

-----------------------------------------------------------------------------
(* The fields of a machine.                                                *)

\* On root r, no field goes back.
ChampsGardes(r) ==
  \A m \in DOMAIN machines[r] \cap DOMAIN machines'[r] :
    /\ ~Avant(machines'[r][m].nom, machines[r][m].nom)
    /\ ~Avant(machines'[r][m].capacites, machines[r][m].capacites)

LEMMA MachineTypee ==
  ASSUME IInv, NEW r \in Racine, NEW m \in DOMAIN machines[r]
  PROVE  /\ machines[r][m] \in [proprietaire : Titulaires, estampille : Emise, nom : Emise,
                                capacites : Emise]
         /\ m \in Emise
         /\ machines[r][m].nom \in Estampille /\ machines[r][m].capacites \in Estampille
         /\ machines[r][m].nom.compteur <= compteur[r]
         /\ machines[r][m].capacites.compteur <= compteur[r]
<1>1. MachinesDe(r) /\ Emise \subseteq Estampille /\ compteur[r] \in Nat
  BY DEF IInv, Locale, Voies, Emise
<1>2. m \in Emise /\ machines[r][m] \in MachineDe(Emise)
      /\ machines[r][m].estampille.compteur <= compteur[r]
  BY <1>1 DEF MachinesDe, TableDe
<1> DEFINE v == machines[r][m]
<1>3. v \in MachineDe(Emise) /\ v.estampille.compteur <= compteur[r] BY <1>2
<1> HIDE DEF v
<1>4. /\ v.nom \in Emise /\ v.capacites \in Emise /\ v.estampille \in Emise
      /\ v.nom.compteur <= v.estampille.compteur
      /\ v.capacites.compteur <= v.estampille.compteur
      /\ v \in [proprietaire : Titulaires, estampille : Emise, nom : Emise, capacites : Emise]
  BY <1>3 DEF MachineDe
<1>5. v.nom.compteur \in Nat /\ v.capacites.compteur \in Nat /\ v.estampille.compteur \in Nat
  BY <1>1, <1>4 DEF Estampille
<1>6. v.nom.compteur <= compteur[r] /\ v.capacites.compteur <= compteur[r]
  BY <1>1, <1>3, <1>4, <1>5
<1> QED BY <1>1, <1>2, <1>4, <1>6 DEF v

\* The rows that are still there are the same.
LEMMA MemesRangees ==
  ASSUME IInv, NEW r \in Racine,
         \A m \in DOMAIN machines[r] \cap DOMAIN machines'[r] :
           machines'[r][m] = machines[r][m]
  PROVE  ChampsGardes(r)
BY MachineTypee, OrdreTotal DEF ChampsGardes

\* A row that is changed takes, for each field, what it had or a later stamp.
LEMMA RangeeChangee ==
  ASSUME IInv, NEW r \in Racine, NEW m \in DOMAIN machines[r], NEW v,
         machines' = [machines EXCEPT ![r][m] = v],
         ~Avant(v.nom, machines[r][m].nom), ~Avant(v.capacites, machines[r][m].capacites)
  PROVE  \A q \in Racine : ChampsGardes(q)
<1>1. DOMAIN machines = Racine BY DEF IInv, Racines
<1>2. ChampsGardes(r)
  <2>1. machines'[r] = [machines[r] EXCEPT ![m] = v] BY <1>1
  <2>2. machines'[r][m] = v /\ \A x \in DOMAIN machines[r] : x # m => machines'[r][x] = machines[r][x]
    BY <2>1
  <2>3. ASSUME NEW x \in DOMAIN machines[r], x # m
        PROVE  /\ ~Avant(machines'[r][x].nom, machines[r][x].nom)
               /\ ~Avant(machines'[r][x].capacites, machines[r][x].capacites)
    BY <2>2, <2>3, MachineTypee, OrdreTotal
  <2> QED BY <2>2, <2>3 DEF ChampsGardes
<1>3. ASSUME NEW q \in Racine, q # r PROVE ChampsGardes(q)
  <2>1. machines'[q] = machines[q] BY <1>1, <1>3
  <2> QED BY <2>1, MemesRangees
<1> QED BY <1>2, <1>3

LEMMA ChampsDemandes ==
  ASSUME IInv, NEW r \in Racine, Demander(r)
  PROVE  \A q \in Racine : ChampsGardes(q)
<1> DEFINE e == Suivante(r)
<1>1. DOMAIN machines = Racine /\ compteur \in [Racine -> Nat] BY DEF IInv, Racines, Voies
<1>2. e \notin Emise BY <1>1 DEF Suivante, Prochaine, Emise, Estampille
<1>3. ASSUME NEW c, CreerMachine(r, c) PROVE \A q \in Racine : ChampsGardes(q)
  <2>1. machines' = [machines EXCEPT ![r] = Poser(@, e, Machine(c, e))]
    BY <1>3 DEF CreerMachine
  <2>2. e \notin DOMAIN machines[r] BY <1>2, MachineTypee
  <2>3. \A q \in Racine : \A m \in DOMAIN machines[q] \cap DOMAIN machines'[q] :
          machines'[q][m] = machines[q][m]
    <3> DEFINE v == Machine(c, e)
    <3>1. /\ machines'[r] = Poser(machines[r], e, v)
          /\ \A q \in Racine : q # r => machines'[q] = machines[q]
      BY <1>1, <2>1
    <3> HIDE DEF e, v
    <3> QED BY <2>2, <3>1 DEF Poser
  <2> QED BY <2>3, MemesRangees
<1>4. ASSUME machines' = machines PROVE \A q \in Racine : ChampsGardes(q)
  BY <1>4, MemesRangees
<1>5. \/ \E q : CreerMachine(r, q.compte)
      \/ machines' = machines
  BY DEF Demander, Servir, DeclarerService, ConfierDomaine, Ecrire, tablesDesMachines
<1> QED BY <1>3, <1>4, <1>5

LEMMA ChampsEcrits ==
  ASSUME IInv, NEW r \in Racine, EcrireDesMachines(r)
  PROVE  \A q \in Racine : ChampsGardes(q)
<1> DEFINE e == Suivante(r)
<1>1. DOMAIN machines = Racine /\ compteur \in [Racine -> Nat] BY DEF IInv, Racines, Voies
<1>2. e \in Estampille /\ e.compteur = compteur[r] + 1 /\ compteur[r] \in Nat
  BY <1>1 DEF Suivante, Prochaine, Estampille
<1>4. ASSUME NEW m \in DOMAIN machines[r], ModifierMachine(r, m)
      PROVE  \A q \in Racine : ChampsGardes(q)
  <2>1. PICK champs \in (SUBSET {"nom", "capacites"}) \ {{}} :
          machines' = [machines EXCEPT ![r][m] = Modifiee(@, champs, e)]
    BY <1>4 DEF ModifierMachine
  <2> DEFINE f == machines[r]
             v == Modifiee(f[m], champs, e)
  <2>2. machines' = [machines EXCEPT ![r][m] = v] BY <1>1, <2>1
  <2>3. v.nom \in {f[m].nom, e} /\ v.capacites \in {f[m].capacites, e}
    <3>1. f[m] \in [proprietaire : Titulaires, estampille : Emise, nom : Emise,
                    capacites : Emise]
      BY MachineTypee
    <3> HIDE DEF f, e
    <3> QED BY <3>1 DEF Modifiee
  <2>4. /\ f[m].nom \in Estampille /\ f[m].capacites \in Estampille
        /\ f[m].nom.compteur <= compteur[r] /\ f[m].capacites.compteur <= compteur[r]
    BY MachineTypee
  <2>5. ~Avant(e, f[m].nom) /\ ~Avant(e, f[m].capacites)
    <3>1. f[m].nom.compteur \in Nat /\ f[m].capacites.compteur \in Nat BY <2>4 DEF Estampille
    <3> HIDE DEF e, f
    <3> QED BY <3>1, <2>4, <1>2 DEF Avant
  <2>6. ~Avant(v.nom, f[m].nom) /\ ~Avant(v.capacites, f[m].capacites)
    <3> HIDE DEF e, f, v
    <3> QED BY <2>3, <2>4, <2>5, OrdreTotal
  <2> HIDE DEF v
  <2> QED BY <2>2, <2>6, RangeeChangee
<1> QED BY <1>4 DEF EcrireDesMachines, Vivantes

LEMMA ChampsEffaces ==
  ASSUME IInv, NEW r \in Racine, NEW c, EffacerLesMachines(r, c)
  PROVE  \A q \in Racine : ChampsGardes(q)
<1> DEFINE siennes == {m \in DOMAIN machines[r] : machines[r][m].proprietaire = c}
<1>1. machines' = [machines EXCEPT ![r] = Sans(@, siennes)] BY DEF EffacerLesMachines
<1>2. DOMAIN machines = Racine BY DEF IInv, Racines
<1> HIDE DEF siennes
<1>3. \A q \in Racine : \A m \in DOMAIN machines[q] \cap DOMAIN machines'[q] :
        machines'[q][m] = machines[q][m]
  BY <1>1, <1>2 DEF Sans
<1> QED BY <1>3, MemesRangees

LEMMA ChampsRecus ==
  ASSUME IInv, NEW r \in Racine, Retirer(r), AppliquerAuxMachines(r, Head(enRoute[r])),
         UNCHANGED <<tablesDesInvitations, tablesDesInscriptions>>
  PROVE  \A q \in Racine : ChampsGardes(q)
<1> DEFINE operation == Head(enRoute[r])
           m == operation.machine
           e == operation.estampille
<1>1. DOMAIN machines = Racine BY DEF IInv, Racines
<1>2. operation \in OperationDe(Emise) /\ Emise \subseteq Estampille
  <2>1. \A p \in Racine : ouverts[p] \subseteq ouverts'[p] BY DEF tablesDesInvitations
  <2> QED BY <2>1, Recue DEF Emise
<1> HIDE DEF operation
<1>3. operation.quoi \in {"machine", "modifiee", "service", "efface"}
  BY DEF AppliquerAuxMachines, operation
<1>4. operation \in AuxMachines(Emise)
  BY <1>2, <1>3, ChampsInvitations, ChampsInscriptions DEF OperationDe
<1>5. CASE operation.quoi = "machine" /\ AppliquerMachine(r, operation)
  <2>1. \A q \in Racine : \A x \in DOMAIN machines[q] \cap DOMAIN machines'[q] :
          machines'[q][x] = machines[q][x]
    <3> DEFINE v == operation.enregistrement
    <3>1. machines' = [machines EXCEPT ![r] =
            IF v.proprietaire \in effaces[r] THEN @ ELSE Garder(@, m, v)]
      BY <1>5 DEF AppliquerMachine
    <3>2. /\ machines'[r] = IF v.proprietaire \in effaces[r] THEN machines[r]
                              ELSE Garder(machines[r], m, v)
          /\ \A q \in Racine : q # r => machines'[q] = machines[q]
      BY <1>1, <3>1
    <3> HIDE DEF v, m
    <3>3. \A x \in DOMAIN machines[r] : Garder(machines[r], m, v)[x] = machines[r][x]
      BY DEF Garder, Poser
    <3> QED BY <3>2, <3>3
  <2> QED BY <2>1, MemesRangees
<1>6. CASE operation.quoi = "modifiee" /\ AppliquerMachineModifiee(r, operation)
  <2>1. m \in Emise /\ e \in Emise /\ e \in Estampille BY <1>2, <1>4, <1>6, ChampsMachines
  <2>2. CASE m \notin DOMAIN machines[r]
    <3>1. machines' = machines BY <1>6, <2>2 DEF AppliquerMachineModifiee
    <3> QED BY <3>1, MemesRangees
  <2>3. CASE m \in DOMAIN machines[r]
    <3> DEFINE f == machines[r]
               champs == Recents(f[m], operation.champs, e)
               t == PlusTard(f[m].estampille, e)
               v == [Modifiee(f[m], champs, e) EXCEPT !.estampille = t]
    <3>1. machines' = [machines EXCEPT ![r][m] = v]
      BY <1>1, <1>6, <2>3 DEF AppliquerMachineModifiee
    <3>2. f[m] \in [proprietaire : Titulaires, estampille : Emise, nom : Emise,
                    capacites : Emise]
          /\ f[m].nom \in Estampille /\ f[m].capacites \in Estampille
      BY <2>3, MachineTypee
    <3>3. /\ v.nom = IF "nom" \in champs THEN e ELSE f[m].nom
          /\ v.capacites = IF "capacites" \in champs THEN e ELSE f[m].capacites
      <4> HIDE DEF f, champs, t, e
      <4> QED BY <3>2 DEF Modifiee
    <3>4. /\ "nom" \in champs => Avant(f[m].nom, e)
          /\ "capacites" \in champs => Avant(f[m].capacites, e)
      <4> HIDE DEF f, e
      <4> QED BY <3>2 DEF Recents
    <3>5. ~Avant(v.nom, f[m].nom) /\ ~Avant(v.capacites, f[m].capacites)
      <4> HIDE DEF f, champs, v, e
      <4> QED BY <2>1, <3>2, <3>3, <3>4, OrdreTotal
    <3> HIDE DEF v
    <3> QED BY <2>3, <3>1, <3>5, RangeeChangee
  <2> QED BY <2>2, <2>3
<1>7. CASE operation.quoi = "service" /\ AppliquerService(r, operation)
  BY <1>7, MemesRangees DEF AppliquerService
<1>8. CASE operation.quoi = "efface" /\ AppliquerCompteEfface(r, operation)
  <2>1. CASE operation.compte \in effaces[r]
    BY <1>8, <2>1, MemesRangees DEF AppliquerCompteEfface, tablesDesMachines
  <2>2. CASE operation.compte \notin effaces[r]
    BY <1>8, <2>2, ChampsEffaces DEF AppliquerCompteEfface
  <2> QED BY <2>1, <2>2
<1> QED BY <1>5, <1>6, <1>7, <1>8 DEF AppliquerAuxMachines, operation

LEMMA PasChampsGardes ==
  ASSUME IInv, [Next]_vars
  PROVE  \A q \in Racine : ChampsGardes(q)
<1>1. ASSUME machines' = machines PROVE \A q \in Racine : ChampsGardes(q)
  BY <1>1, MemesRangees
<1>2. CASE UNCHANGED vars
  <2>1. machines' = machines BY <1>2 DEF vars, tables, tablesDesMachines
  <2> QED BY <1>1, <2>1
<1>3. ASSUME NEW r \in Racine, Ecrit(r) PROVE \A q \in Racine : ChampsGardes(q)
  <2>1. CASE EcrireDesMachines(r) BY <2>1, ChampsEcrits
  <2>2. CASE EcrireDesInvitations(r)
    <3>1. machines' = machines BY <2>2 DEF EcrireDesInvitations, tablesDesMachines
    <3> QED BY <1>1, <3>1
  <2>3. CASE EcrireDesInscriptions(r)
    <3>1. machines' = machines
      BY <2>3 DEF EcrireDesInscriptions, EcrireUneInscription, DeclarerAnnuaire,
         PresenterUnCode, Decider, PublierLocateurs, Ecrire, tablesDesMachines
    <3> QED BY <1>1, <3>1
  <2>4. CASE EffacerUnCompte(r)
    <3>1. PICK c \in Titulaires : EffacerLesMachines(r, c)
      BY <2>4 DEF EffacerUnCompte, EffacerCompte
    <3> QED BY <3>1, ChampsEffaces
  <2> QED BY <1>3, <2>1, <2>2, <2>3, <2>4 DEF Ecrit
<1>4. ASSUME NEW r \in Racine, Recevoir(r) PROVE \A q \in Racine : ChampsGardes(q)
  <2>1. Retirer(r) /\ Appliquer(r, Head(enRoute[r])) BY <1>4 DEF Recevoir
  <2>2. CASE AppliquerAuxMachines(r, Head(enRoute[r]))
             /\ UNCHANGED <<tablesDesInvitations, tablesDesInscriptions>>
    BY <2>1, <2>2, ChampsRecus
  <2>3. CASE UNCHANGED tablesDesMachines
    <3>1. machines' = machines BY <2>3 DEF tablesDesMachines
    <3> QED BY <1>1, <3>1
  <2> QED BY <2>1, <2>2, <2>3 DEF Appliquer, tables
<1>5. ASSUME NEW r \in Racine, Amorcer(r) PROVE \A q \in Racine : ChampsGardes(q)
  <2>1. machines' = machines BY <1>5 DEF Amorcer, tables, tablesDesMachines
  <2> QED BY <1>1, <2>1
<1>6. ASSUME NEW r \in Racine, Tarder(r) \/ Rendre(r)
      PROVE  \A q \in Racine : ChampsGardes(q)
  <2>1. machines' = machines BY <1>6 DEF Tarder, Rendre, tables, tablesDesMachines
  <2> QED BY <1>1, <2>1
<1>7. ASSUME NEW r \in Racine, Demander(r) PROVE \A q \in Racine : ChampsGardes(q)
  BY <1>7, ChampsDemandes
<1> QED BY <1>2, <1>3, <1>4, <1>5, <1>6, <1>7 DEF Next

\* A name or capabilities are never replaced by older ones, neither by an operation of
\* the peer nor by a snapshot: each field has its own stamp (lib.rs 4611).
THEOREM RegistreChampJamaisRepris == Spec => ChampJamaisRepris
<1>1. IInv /\ [Next]_vars =>
        \A r \in Racine : \A m \in DOMAIN machines[r] \cap DOMAIN machines'[r] :
          /\ ~Avant(machines'[r][m].nom, machines[r][m].nom)
          /\ ~Avant(machines'[r][m].capacites, machines[r][m].capacites)
  BY PasChampsGardes DEF ChampsGardes
<1> QED BY <1>1, RegistreInvariant, PTL DEF Spec, ChampJamaisRepris

-----------------------------------------------------------------------------
(* What is known is dated, and stays known.                                *)

\* The stamps of a fact are given.
Date(g, k, v) ==
  /\ g \in Premiers \cup Derniers => Rang(g, v) \in Emise
  /\ g \in DUneMachine => MachineDuFait(g, k) \in Emise
  /\ g \in Uniques => Origine(g, k, v) \in Emise

\* The table of each kind.
LEMMA FaitsDe ==
  ASSUME NEW q
  PROVE  /\ Faits(q, "efface") = [c \in effaces[q] |-> c]
         /\ Faits(q, "ouvert") = [a \in ouverts[q] |-> a]
         /\ Faits(q, "declaration") = declarations[q]
         /\ Faits(q, "presentation") = presentations[q]
         /\ Faits(q, "marque") = marques[q]
         /\ Faits(q, "hebergeur") = hebergements[q]
         /\ Faits(q, "locateurs") = locateurs[q]
         /\ Faits(q, "machine")
              = [m \in DOMAIN machines[q] |-> machines[q][m].proprietaire]
         /\ Faits(q, "nom") = [m \in DOMAIN machines[q] |-> machines[q][m].nom]
         /\ Faits(q, "capacites") = [m \in DOMAIN machines[q] |-> machines[q][m].capacites]
         /\ Faits(q, "service") = services[q]
BY DEF Faits

LEMMA FaitsDeApres ==
  ASSUME NEW q
  PROVE  /\ Faits(q, "efface")' = [c \in effaces'[q] |-> c]
         /\ Faits(q, "ouvert")' = [a \in ouverts'[q] |-> a]
         /\ Faits(q, "declaration")' = declarations'[q]
         /\ Faits(q, "presentation")' = presentations'[q]
         /\ Faits(q, "marque")' = marques'[q]
         /\ Faits(q, "hebergeur")' = hebergements'[q]
         /\ Faits(q, "locateurs")' = locateurs'[q]
         /\ Faits(q, "machine")'
              = [m \in DOMAIN machines'[q] |-> machines'[q][m].proprietaire]
         /\ Faits(q, "nom")' = [m \in DOMAIN machines'[q] |-> machines'[q][m].nom]
         /\ Faits(q, "capacites")'
              = [m \in DOMAIN machines'[q] |-> machines'[q][m].capacites]
         /\ Faits(q, "service")' = services'[q]
BY DEF Faits

LEMMA TenusDates ==
  ASSUME IInv, NEW q \in Racine, NEW g, NEW k, NEW v, Tenu(q, g, k, v)
  PROVE  Date(g, k, v)
<1>1. MachinesDe(q) /\ InvitationsDe(q) /\ InscriptionsDe(q) BY DEF IInv, Locale
<1>2. g \in Sortes /\ k \in DOMAIN Faits(q, g) /\ v = Faits(q, g)[k] BY DEF Tenu
<1>3. CASE g \in {"efface", "ouvert"}
  BY <1>3 DEF Date, Premiers, Derniers, DUneMachine, Uniques
<1>4. CASE g \in {"declaration", "presentation", "marque", "hebergeur", "locateurs"}
  <2>1. /\ g = "declaration" => k \in Emise
        /\ g \in {"presentation", "hebergeur"} => v.estampille \in Emise
        /\ g \in {"marque", "locateurs"} => v \in Emise
    BY <1>1, <1>2, FaitsDe DEF InscriptionsDe, TableDe, PresentationDe, HebergementDe
  <2> QED BY <1>4, <2>1 DEF Date, Premiers, Derniers, DUneMachine, Uniques, Rang, Origine
<1>5. CASE g \in {"machine", "nom", "capacites"}
  <2>1. k \in DOMAIN machines[q] BY <1>2, <1>5, FaitsDe
  <2>2. k \in Emise /\ machines[q][k] \in MachineDe(Emise)
    BY <1>1, <2>1 DEF MachinesDe, TableDe
  <2>3. machines[q][k].nom \in Emise /\ machines[q][k].capacites \in Emise
    BY <2>2 DEF MachineDe
  <2>4. g \in {"nom", "capacites"} => v \in Emise BY <1>2, <2>1, <2>3, FaitsDe
  <2> QED BY <1>5, <2>2, <2>4 DEF Date, Premiers, Derniers, DUneMachine, Uniques, Rang,
             Origine, MachineDuFait
<1>6. CASE g = "service"
  <2>1. k \in [machine : Emise, nom : Noms] /\ v \in Emise
    BY <1>1, <1>2, <1>6, FaitsDe DEF MachinesDe, TableDe
  <2> QED BY <1>6, <2>1 DEF Date, Premiers, Derniers, DUneMachine, Uniques, Rang,
             MachineDuFait
<1> QED BY <1>2, <1>3, <1>4, <1>5, <1>6 DEF Sortes, Premiers, Derniers

TousDates == \A q \in Racine : \A g, k, v : Tenu(q, g, k, v) => Date(g, k, v)

LEMMA TenusDatesApres == IInv' => TousDates'
<1>1. IInv => TousDates BY TenusDates DEF TousDates
<1> QED BY <1>1, PTL

\* The fields of an operation that is on its way.
LEMMA ChampsDits ==
  ASSUME NEW E, NEW op \in OperationDe(E)
  PROVE  /\ op.quoi = "machine" => op.machine \in E /\ op.enregistrement \in MachineDe(E)
         /\ op.quoi = "modifiee" =>
              /\ op.machine \in E /\ op.estampille \in E
              /\ op.champs \subseteq {"nom", "capacites"}
         /\ op.quoi = "service" =>
              op.service \in [machine : E, nom : Noms] /\ op.estampille \in E
         /\ op.quoi = "inscription" => op.code \in E
         /\ op.quoi = "presentation" => op.enregistrement \in PresentationDe(E)
         /\ op.quoi \in {"marque", "hebergeur", "locateurs"} => op.estampille \in E
<1>1. CASE op \in AuxMachines(E) BY <1>1, ChampsMachines
<1>2. CASE op \in AuxInvitations(E) BY <1>2, ChampsInvitations
<1>3. CASE op \in AuxInscriptions(E) BY <1>3, ChampsInscriptions
<1> QED BY <1>1, <1>2, <1>3 DEF OperationDe

LEMMA PortesDates ==
  ASSUME NEW E, NEW op \in OperationDe(Emise), NEW g, NEW k, NEW v, Porte(op, g, k, v)
  PROVE  Date(g, k, v)
<1>1. CASE op.quoi \in {"efface", "ouvert"}
  <2>1. g \in {"efface", "ouvert"} BY <1>1 DEF Porte, Dit
  <2> QED BY <2>1 DEF Date, Premiers, Derniers, DUneMachine, Uniques
<1>2. CASE op.quoi \in {"inscription", "presentation", "marque", "hebergeur", "locateurs"}
  <2>1. /\ g \in {"declaration", "presentation", "marque", "hebergeur", "locateurs"}
        /\ g = "declaration" => k \in Emise
        /\ g \in {"presentation", "hebergeur"} => v.estampille \in Emise
        /\ g \in {"marque", "locateurs"} => v \in Emise
    BY <1>2, ChampsDits DEF Porte, Dit, PresentationDe
  <2> QED BY <2>1 DEF Date, Premiers, Derniers, DUneMachine, Uniques, Rang, Origine
<1>3. CASE op.quoi \in {"machine", "modifiee"}
  <2>1. op.machine \in Emise BY <1>3, ChampsDits
  <2>2. op.quoi = "machine" =>
          op.enregistrement.nom \in Emise /\ op.enregistrement.capacites \in Emise
    BY ChampsDits DEF MachineDe
  <2>3. op.quoi = "modifiee" => op.estampille \in Emise /\ op.champs \subseteq {"nom", "capacites"}
    BY ChampsDits
  <2>4. /\ g \in {"machine", "nom", "capacites"} /\ k \in Emise
        /\ g \in {"nom", "capacites"} => v \in Emise
    BY <1>3, <2>1, <2>2, <2>3 DEF Porte, Dit
  <2> QED BY <2>4 DEF Date, Premiers, Derniers, DUneMachine, Uniques, Rang, Origine,
             MachineDuFait
<1>4. CASE op.quoi = "service"
  <2>1. g = "service" /\ k \in [machine : Emise, nom : Noms] /\ v \in Emise
    BY <1>4, ChampsDits DEF Porte, Dit
  <2> QED BY <2>1 DEF Date, Premiers, Derniers, DUneMachine, Uniques, Rang, MachineDuFait
<1> QED BY <1>1, <1>2, <1>3, <1>4 DEF Porte, Dit

LEMMA EnRouteType ==
  ASSUME IInv, NEW r \in Racine
  PROVE  /\ enRoute[r] \in Seq(OperationDe(Emise))
         /\ \A i \in DOMAIN enRoute[r] : enRoute[r][i] \in OperationDe(Emise)
<1> DEFINE T == OperationDe(Emise)
<1>1. enRoute[r] \in Seq(T) BY DEF IInv, Voies
<1> HIDE DEF T
<1>2. \A i \in DOMAIN enRoute[r] : enRoute[r][i] \in T BY <1>1
<1> QED BY <1>1, <1>2 DEF T

LEMMA VusDates ==
  ASSUME IInv, NEW g, NEW k, NEW v, Vu(g, k, v)
  PROVE  Date(g, k, v)
BY TenusDates, PortesDates, EnRouteType DEF Vu, PortePar

\* The rule of a kind is an order on the values that are dated.
LEMMA VautTransitif ==
  ASSUME NEW g, NEW a, NEW b, NEW c,
         g \in Premiers \cup Derniers =>
           {Rang(g, a), Rang(g, b), Rang(g, c)} \subseteq Estampille,
         Vaut(g, a, b), Vaut(g, b, c)
  PROVE  Vaut(g, a, c)
<1> DEFINE x == Rang(g, a)
           y == Rang(g, b)
           z == Rang(g, c)
<1>1. /\ g \in Premiers => ~Avant(y, x) /\ ~Avant(z, y)
      /\ g \in Derniers => ~Avant(x, y) /\ ~Avant(y, z)
  BY DEF Vaut
<1>2. /\ g \in Premiers => x \in Estampille /\ y \in Estampille /\ z \in Estampille
      /\ g \in Derniers => x \in Estampille /\ y \in Estampille /\ z \in Estampille
  OBVIOUS
<1> HIDE DEF x, y, z
<1>3. /\ g \in Premiers => ~Avant(z, x)
      /\ g \in Derniers => ~Avant(x, z)
  BY <1>1, <1>2, OrdreTransitif
<1> QED BY <1>3 DEF Vaut, x, y, z

LEMMA VautSoi ==
  ASSUME NEW g, NEW a, g \in Premiers \cup Derniers => Rang(g, a) \in Estampille
  PROVE  Vaut(g, a, a)
BY OrdreTotal DEF Vaut

-----------------------------------------------------------------------------
(* Nothing is taken back.                                                  *)

\* A fact of root q stays, or gives way to one that stays against it, or the account
\* of its machine is erased.
Reste(q, g, k) ==
  \/ k \in DOMAIN Faits(q, g)' /\ Vaut(g, Faits(q, g)'[k], Faits(q, g)[k])
  \/ /\ g \in DUneMachine /\ MachineDuFait(g, k) \in DOMAIN machines[q]
     /\ machines[q][MachineDuFait(g, k)].proprietaire \in effaces'[q]

Progres(q) ==
  /\ effaces[q] \subseteq effaces'[q]
  /\ \A g \in Sortes : \A k \in DOMAIN Faits(q, g) : Reste(q, g, k)

\* No machine that is known gets another owner.
Ancien ==
  \A m \in Emise : \A c : Vu("machine", m, c)' => Vu("machine", m, c)

LEMMA DelaisseReste ==
  ASSUME NEW q, effaces[q] \subseteq effaces'[q], Ancien, NEW m \in Emise, Delaisse(q, m)
  PROVE  Delaisse(q, m)'
BY DEF Delaisse, Ancien

\* A machine that is there has one owner.
LEMMA SonProprietaire ==
  ASSUME IInv, Unicite, NEW q \in Racine, NEW m \in DOMAIN machines[q]
  PROVE  /\ m \in Emise
         /\ \A c : Vu("machine", m, c) <=> c = machines[q][m].proprietaire
<1>1. m \in Emise BY DEF IInv, Locale, MachinesDe, TableDe
<1>2. Tenu(q, "machine", m, machines[q][m].proprietaire) BY FaitsDe DEF Tenu, Sortes
<1>3. Vu("machine", m, machines[q][m].proprietaire) BY <1>2 DEF Vu
<1>4. ASSUME NEW c, Vu("machine", m, c) PROVE c = machines[q][m].proprietaire
  BY <1>3, <1>4 DEF Unicite, Uniques, Origine
<1> QED BY <1>1, <1>3, <1>4

LEMMA LaOuDelaisse ==
  ASSUME IInv, Unicite, Ancien, NEW q \in Racine, NEW m \in DOMAIN machines[q],
         machines[q][m].proprietaire \in effaces'[q]
  PROVE  Delaisse(q, m)'
BY SonProprietaire DEF Delaisse, Ancien

LEMMA ConnuReste ==
  ASSUME IInv, Unicite, Ancien, NEW q \in Racine, Progres(q), NEW m \in Emise, Connu(q, m)
  PROVE  Connu(q, m)'
<1>1. CASE Delaisse(q, m) BY <1>1, DelaisseReste DEF Progres, Connu
<1>2. CASE m \in DOMAIN machines[q]
  <2>1. Reste(q, "machine", m) BY <1>2, FaitsDe DEF Progres, Sortes
  <2>2. CASE m \in DOMAIN Faits(q, "machine")' BY <2>2, FaitsDeApres DEF Connu
  <2>3. CASE machines[q][m].proprietaire \in effaces'[q]
    BY <1>2, <2>3, LaOuDelaisse DEF Connu
  <2> QED BY <2>1, <2>2, <2>3 DEF Reste, MachineDuFait
<1> QED BY <1>1, <1>2 DEF Connu

LEMMA SuReste ==
  ASSUME IInv, IInv', Emise \subseteq Emise', Unicite, Ancien,
         NEW q \in Racine, Progres(q), NEW g, NEW k, NEW v, Vu(g, k, v), Su(q, g, k, v)
  PROVE  Su(q, g, k, v)'
<1>1. Date(g, k, v) BY VusDates
<1>2. g \in Sortes
  <2>1. PICK r \in Racine : Tenu(r, g, k, v) \/ PortePar(enRoute[r], g, k, v) BY DEF Vu
  <2>2. ASSUME NEW i \in DOMAIN enRoute[r], Porte(enRoute[r][i], g, k, v) PROVE g \in Sortes
    <3>1. enRoute[r][i].quoi = "modifiee" => enRoute[r][i].champs \subseteq {"nom", "capacites"}
      BY EnRouteType, ChampsDits
    <3> QED BY <2>2, <3>1 DEF Porte, Dit, Sortes, Premiers, Derniers
  <2> QED BY <2>1, <2>2 DEF Tenu, PortePar
<1>3. CASE g \in DUneMachine /\ Delaisse(q, MachineDuFait(g, k))
  <2>1. Delaisse(q, MachineDuFait(g, k))' BY <1>1, <1>3, DelaisseReste DEF Date, Progres
  <2> QED BY <1>3, <2>1 DEF Su, MachineDuFait
<1>4. CASE k \in DOMAIN Faits(q, g) /\ Vaut(g, Faits(q, g)[k], v)
  <2>1. Reste(q, g, k) BY <1>2, <1>4 DEF Progres
  <2>2. CASE /\ g \in DUneMachine /\ MachineDuFait(g, k) \in DOMAIN machines[q]
             /\ machines[q][MachineDuFait(g, k)].proprietaire \in effaces'[q]
    <3>1. Delaisse(q, MachineDuFait(g, k))' BY <2>2, LaOuDelaisse
    <3> QED BY <2>2, <3>1 DEF Su, MachineDuFait
  <2>3. CASE k \in DOMAIN Faits(q, g)' /\ Vaut(g, Faits(q, g)'[k], Faits(q, g)[k])
    <3>0. PICK a, b : a = Faits(q, g)'[k] /\ b = Faits(q, g)[k] OBVIOUS
    <3>1. Date(g, k, b) BY <1>2, <1>4, <3>0, TenusDates DEF Tenu
    <3>2. Date(g, k, a)'
      <4>1. Tenu(q, g, k, a)' BY <1>2, <2>3, <3>0 DEF Tenu, Sortes, Premiers, Derniers
      <4> QED BY <4>1, TenusDatesApres DEF TousDates
    <3>3. Emise \subseteq Estampille /\ Emise' \subseteq Estampille BY DEF Emise
    <3>4. g \in Premiers \cup Derniers => {Rang(g, a), Rang(g, b), Rang(g, v)} \subseteq Estampille
      BY <1>1, <3>1, <3>2, <3>3 DEF Date, Rang, Premiers, Derniers
    <3>5. Vaut(g, a, b) /\ Vaut(g, b, v) BY <1>4, <2>3, <3>0
    <3>6. Vaut(g, a, v) BY <3>4, <3>5, VautTransitif
    <3> QED BY <2>3, <3>0, <3>6 DEF Su
  <2> QED BY <2>1, <2>2, <2>3 DEF Reste
<1> QED BY <1>3, <1>4 DEF Su

-----------------------------------------------------------------------------
(* A write, and an operation of the peer.                                  *)

\* What a root holds depends on its tables.
LEMMA MemesTenus ==
  ASSUME NEW q, MemesMachines(q), ouverts'[q] = ouverts[q], MemesInscriptions(q)
  PROVE  \A g \in Sortes : Faits(q, g)' = Faits(q, g)
<1>1. /\ effaces'[q] = effaces[q] /\ machines'[q] = machines[q] /\ services'[q] = services[q]
      /\ declarations'[q] = declarations[q] /\ presentations'[q] = presentations[q]
      /\ marques'[q] = marques[q] /\ hebergements'[q] = hebergements[q]
      /\ locateurs'[q] = locateurs[q]
  BY DEF MemesMachines, MemesInscriptions
<1>2. ASSUME NEW g \in Sortes PROVE Faits(q, g)' = Faits(q, g) BY <1>1, <1>2 DEF Faits
<1> QED BY <1>2

LEMMA MemesProgres ==
  ASSUME IInv, NEW q \in Racine, MemesMachines(q), ouverts'[q] = ouverts[q],
         MemesInscriptions(q)
  PROVE  /\ Progres(q)
         /\ \A g, k, v : Tenu(q, g, k, v)' <=> Tenu(q, g, k, v)
<1>1. \A g \in Sortes : Faits(q, g)' = Faits(q, g) BY MemesTenus
<1>2. \A g, k, v : Tenu(q, g, k, v)' <=> Tenu(q, g, k, v) BY <1>1 DEF Tenu
<1>3. ASSUME NEW g \in Sortes, NEW k \in DOMAIN Faits(q, g) PROVE Reste(q, g, k)
  <2>0. PICK b : b = Faits(q, g)[k] OBVIOUS
  <2>1. Date(g, k, b) BY <2>0, TenusDates DEF Tenu
  <2>2. Vaut(g, b, b) BY <2>1, VautSoi DEF Date, Emise
  <2> QED BY <1>1, <2>0, <2>2 DEF Reste
<1> QED BY <1>2, <1>3 DEF Progres, MemesMachines

\* The facts of two queues one after the other.
LEMMA DitsJoints ==
  ASSUME NEW a, NEW b, NEW t, Jointe(t, a, b), NEW g, NEW k, NEW v
  PROVE  /\ DitPar(t, g, k, v) <=> DitPar(a, g, k, v) \/ DitPar(b, g, k, v)
         /\ PortePar(t, g, k, v) <=> PortePar(a, g, k, v) \/ PortePar(b, g, k, v)
<1>1. /\ \A i \in DOMAIN a : i \in DOMAIN t /\ t[i] = a[i]
      /\ \A j \in DOMAIN b : Len(a) + j \in DOMAIN t /\ t[Len(a) + j] = b[j]
      /\ \A i \in DOMAIN t :
           \/ i \in DOMAIN a /\ t[i] = a[i]
           \/ \E j \in DOMAIN b : i = Len(a) + j /\ t[i] = b[j]
  BY DEF Jointe
<1>2. DitPar(t, g, k, v) <=> DitPar(a, g, k, v) \/ DitPar(b, g, k, v) BY <1>1 DEF DitPar
<1>3. PortePar(t, g, k, v) <=> PortePar(a, g, k, v) \/ PortePar(b, g, k, v)
  BY <1>1 DEF PortePar
<1> QED BY <1>2, <1>3

\* An operation says one thing of each kind and key.
LEMMA UneSeuleValeur ==
  ASSUME NEW op, NEW g \in Uniques, NEW k, NEW v, NEW w, Porte(op, g, k, v), Porte(op, g, k, w),
         op.quoi = "modifiee" => op.champs \subseteq {"nom", "capacites"}
  PROVE  v = w
BY DEF Porte, Dit, Uniques

\* The machine is there, or the other root keeps nothing for it.
Attachee(r, m) == m \in DOMAIN machines[r] \/ (m \in Emise /\ Delaisse(Pair[r], m))

\* What a write of root r, journaled as ops, has to do: nothing is taken back, the
\* operations say all that is new, under stamps of their own, and what they say is
\* known here.
Ecriture(r, ops) ==
  /\ Progres(r)
  /\ \A g, k, v : Tenu(r, g, k, v)' => Tenu(r, g, k, v) \/ DitPar(ops, g, k, v)
  /\ \A g \in Uniques : \A k, v : PortePar(ops, g, k, v) => Origine(g, k, v) \notin Emise
  /\ \A g \in Uniques : \A k, v, w :
       PortePar(ops, g, k, v) /\ PortePar(ops, g, k, w) => v = w
  /\ Ancien => \A g, k, v : PortePar(ops, g, k, v) => Su(r, g, k, v)'
  /\ \A j \in DOMAIN ops : \A m : Suppose(ops[j], m) => Attachee(r, m)
  /\ \A m \in DOMAIN machines'[r] : Saine(m, machines'[r][m])
  /\ \A j \in DOMAIN ops : OperationSaine(ops[j])

\* What the queues become.
Allonge(r, ops) ==
  /\ Jointe(enRoute'[Pair[r]], enRoute[Pair[r]], ops)
  /\ \A q \in Racine : q # Pair[r] => enRoute'[q] = enRoute[q]

\* The tables of facts of the other root are left alone.
FaitsAilleurs(r) ==
  \A q \in Racine \ {r} : /\ MemesMachines(q) /\ ouverts'[q] = ouverts[q]
                          /\ MemesInscriptions(q)

\* What is somewhere after a step.
LEMMA VuApres ==
  ASSUME NEW g, NEW k, NEW v, Vu(g, k, v)'
  PROVE  \E q \in Racine : Tenu(q, g, k, v)' \/ PortePar(enRoute'[q], g, k, v)
<1>1. ASSUME NEW q \in Racine, PortePar(enRoute[q], g, k, v)'
      PROVE  PortePar(enRoute'[q], g, k, v)
  <2>1. PICK i \in DOMAIN enRoute'[q] : Porte(enRoute[q][i], g, k, v)' BY <1>1 DEF PortePar
  <2>2. PICK op : op = enRoute'[q][i] OBVIOUS
  <2>3. Porte(op, g, k, v) BY <2>1, <2>2, SMTT(60) DEF Porte, Dit
  <2> QED BY <2>1, <2>2, <2>3 DEF PortePar
<1> QED BY <1>1 DEF Vu

LEMMA AccordEcrit ==
  ASSUME IInv, IInv', Emise \subseteq Emise', Accord, NEW r \in Racine, NEW ops,
         Allonge(r, ops), FaitsAilleurs(r), Ecriture(r, ops)
  PROVE  Accord' /\ Ancien
<1>0. /\ Progres(r)
      /\ \A g, k, v : Tenu(r, g, k, v)' => Tenu(r, g, k, v) \/ DitPar(ops, g, k, v)
      /\ \A g \in Uniques : \A k, v : PortePar(ops, g, k, v) => Origine(g, k, v) \notin Emise
      /\ \A g \in Uniques : \A k, v, w :
           PortePar(ops, g, k, v) /\ PortePar(ops, g, k, w) => v = w
      /\ Ancien => \A g, k, v : PortePar(ops, g, k, v) => Su(r, g, k, v)'
      /\ \A j \in DOMAIN ops : \A m : Suppose(ops[j], m) => Attachee(r, m)
      /\ \A m \in DOMAIN machines'[r] : Saine(m, machines'[r][m])
      /\ \A j \in DOMAIN ops : OperationSaine(ops[j])
  BY DEF Ecriture
<1> DEFINE p == Pair[r]
<1>1. /\ p \in Racine /\ p # r /\ Pair[p] = r /\ \A q \in Racine : Pair[q] \in Racine
      /\ \A q \in Racine : Pair[q] = r <=> q = p
  BY DeuxRacines
<1>2. /\ Jointe(enRoute'[p], enRoute[p], ops)
      /\ \A q \in Racine : q # p => enRoute'[q] = enRoute[q]
  BY DEF Allonge
<1> HIDE DEF p
<1>3. \A g, k, v :
        /\ DitPar(enRoute'[p], g, k, v) <=> DitPar(enRoute[p], g, k, v) \/ DitPar(ops, g, k, v)
        /\ PortePar(enRoute'[p], g, k, v)
             <=> PortePar(enRoute[p], g, k, v) \/ PortePar(ops, g, k, v)
  BY <1>2, DitsJoints
<1>4. \A q \in Racine : q # r => Progres(q) /\ \A g, k, v : Tenu(q, g, k, v)' <=> Tenu(q, g, k, v)
  BY MemesProgres DEF FaitsAilleurs
<1>5. \A q \in Racine : Progres(q) BY <1>0, <1>4
<1>6. \A g, k, v : DitPar(ops, g, k, v) => PortePar(ops, g, k, v) BY DEF DitPar, PortePar, Porte
<1>7. ASSUME NEW g, NEW k, NEW v, Vu(g, k, v)' PROVE Vu(g, k, v) \/ PortePar(ops, g, k, v)
  <2>1. PICK q \in Racine : Tenu(q, g, k, v)' \/ PortePar(enRoute'[q], g, k, v)
    BY <1>7, VuApres
  <2>2. CASE Tenu(q, g, k, v)' BY <2>2, <1>0, <1>4, <1>6 DEF Vu
  <2>3. CASE PortePar(enRoute'[q], g, k, v) BY <2>3, <1>2, <1>3 DEF Vu
  <2> QED BY <2>1, <2>2, <2>3
<1>8. Ancien BY <1>0, <1>7 DEF Ancien, Uniques, Origine
<1>9. ASSUME NEW q \in Racine, NEW g, NEW k, NEW v, Vu(g, k, v), Su(q, g, k, v)
      PROVE  Su(q, g, k, v)'
  BY <1>5, <1>8, <1>9, SuReste DEF Accord
<1>10. Unicite'
  <2> SUFFICES ASSUME NEW g \in Uniques, NEW k, NEW v, NEW w,
                      Vu(g, k, v)', Vu(g, k, w)', Origine(g, k, v) = Origine(g, k, w)
               PROVE  v = w
    BY DEF Unicite, Uniques, Origine
  <2>1. \A x : Vu(g, k, x) => Origine(g, k, x) \in Emise BY VusDates DEF Date
  <2>2. CASE Vu(g, k, v) /\ Vu(g, k, w) BY <2>2 DEF Accord, Unicite
  <2>3. CASE PortePar(ops, g, k, v) /\ PortePar(ops, g, k, w) BY <2>3, <1>0
  <2> QED BY <2>1, <2>2, <2>3, <1>0, <1>7
<1>11. ASSUME NEW q \in Racine PROVE Verite(q)'
  <2> SUFFICES ASSUME NEW g, NEW k, NEW v, PortePar(enRoute'[q], g, k, v)
               PROVE  Su(Pair[q], g, k, v)'
    BY DEF Verite, PortePar, Porte, Dit
  <2>1. CASE PortePar(enRoute[q], g, k, v)
    BY <2>1, <1>1, <1>9 DEF Vu, Accord, Verite
  <2>2. CASE q = p /\ PortePar(ops, g, k, v) BY <2>2, <1>0, <1>1, <1>8
  <2> QED BY <2>1, <2>2, <1>2, <1>3
<1>12. ASSUME NEW q \in Racine PROVE Couverture(q)'
  <2> SUFFICES ASSUME NEW g, NEW k, NEW v, Tenu(Pair[q], g, k, v)'
               PROVE  Su(q, g, k, v)' \/ DitPar(enRoute'[q], g, k, v)
    BY DEF Couverture, DitPar, Dit
  <2>1. CASE Tenu(Pair[q], g, k, v)
    <3>1. Vu(g, k, v) BY <2>1, <1>1 DEF Vu
    <3>2. Su(q, g, k, v) \/ DitPar(enRoute[q], g, k, v) BY <2>1 DEF Accord, Couverture
    <3> QED BY <3>1, <3>2, <1>2, <1>3, <1>9
  <2>2. CASE ~Tenu(Pair[q], g, k, v)
    <3>1. Pair[q] = r BY <2>2, <1>1, <1>4
    <3>2. q = p /\ DitPar(ops, g, k, v) BY <2>2, <3>1, <1>0, <1>1
    <3> QED BY <3>2, <1>3
  <2> QED BY <2>1, <2>2
<1>13. ASSUME NEW q \in Racine, NEW m \in Emise, Connu(q, m) PROVE Connu(q, m)'
  BY <1>5, <1>8, <1>13, ConnuReste DEF Accord
<1>14. ASSUME NEW q \in Racine, NEW i \in DOMAIN enRoute[q], NEW m, Suppose(enRoute[q][i], m)
       PROVE  m \in Emise
  BY <1>14, EnRouteType, ChampsDits DEF Suppose
<1>15. ASSUME NEW q \in Racine, NEW i \in DOMAIN enRoute'[q], NEW m,
              Suppose(enRoute'[q][i], m)
       PROVE  Connu(q, m)' \/ \E j \in 1..(i-1) : \E c : Dit(enRoute'[q][j], "machine", m, c)
  <2>1. CASE q # p
    <3>1. enRoute'[q] = enRoute[q] BY <2>1, <1>2
    <3> QED BY <3>1, <1>13, <1>14, <1>15 DEF Accord, Precedee
  <2>2. CASE q = p
    <3> DEFINE a == enRoute[p]
               t == enRoute'[p]
    <3>1. /\ Len(a) \in Nat /\ DOMAIN a = 1..Len(a) /\ DOMAIN ops = 1..Len(ops)
          /\ Len(ops) \in Nat
          /\ \A x \in DOMAIN a : t[x] = a[x]
          /\ i \in DOMAIN a \/ (\E j \in DOMAIN ops : i = Len(a) + j /\ t[i] = ops[j])
      BY <2>2, <1>2 DEF Jointe
    <3> HIDE DEF a, t
    <3>2. CASE i \in DOMAIN a
      <4>1. t[i] = a[i] /\ \A j \in 1..(i-1) : j \in DOMAIN a /\ t[j] = a[j] BY <3>1, <3>2
      <4>2. Suppose(a[i], m) BY <4>1, <2>2, <1>15 DEF t
      <4>3. Connu(p, m) \/ \E j \in 1..(i-1) : \E c : Dit(a[j], "machine", m, c)
        BY <4>2, <3>2, <1>1 DEF a, Accord, Precedee
      <4>4. m \in Emise BY <4>2, <3>2, <1>1, <1>14 DEF a
      <4> QED BY <4>1, <4>3, <4>4, <2>2, <1>13 DEF t
    <3>3. ASSUME NEW j \in DOMAIN ops, i = Len(a) + j, t[i] = ops[j]
          PROVE  Connu(q, m)' \/ \E l \in 1..(i-1) : \E c : Dit(t[l], "machine", m, c)
      <4>1. Suppose(ops[j], m) BY <3>3, <2>2, <1>15 DEF t
      <4>2. Attachee(r, m) BY <4>1, <1>0
      <4>3. CASE m \in DOMAIN machines[r]
        <5>1. PICK c : c = machines[r][m].proprietaire OBVIOUS
        <5>2. Tenu(r, "machine", m, c) BY <4>3, <5>1, FaitsDe DEF Tenu, Sortes
        <5>3. Su(p, "machine", m, c) \/ DitPar(a, "machine", m, c)
          BY <5>2, <1>1 DEF a, Accord, Couverture
        <5>4. CASE Su(p, "machine", m, c)
          <6>1. Connu(p, m) BY <5>4, FaitsDe DEF Su, Connu, MachineDuFait
          <6>2. m \in Emise BY <4>3, SonProprietaire DEF Accord
          <6> QED BY <6>1, <6>2, <2>2, <1>1, <1>13
        <5>5. CASE DitPar(a, "machine", m, c)
          <6>1. PICK l \in DOMAIN a : Dit(a[l], "machine", m, c) BY <5>5 DEF DitPar
          <6>2. l \in 1..(i-1) /\ t[l] = a[l] BY <3>1, <3>3
          <6> QED BY <6>1, <6>2
        <5> QED BY <5>3, <5>4, <5>5
      <4>4. CASE m \in Emise /\ Delaisse(p, m)
        <5>1. Connu(p, m) BY <4>4 DEF Connu
        <5> QED BY <4>4, <5>1, <2>2, <1>1, <1>13
      <4> QED BY <4>2, <4>3, <4>4 DEF Attachee, p
    <3> QED BY <2>2, <3>1, <3>2, <3>3 DEF t
  <2> QED BY <2>1, <2>2
<1>16. ASSUME NEW q \in Racine, NEW i \in DOMAIN enRoute'[q] PROVE Precedee(q, i)'
  <2> SUFFICES ASSUME NEW m, Suppose(enRoute'[q][i], m)
               PROVE  \/ Connu(q, m)'
                      \/ \E j \in 1..(i-1) : \E c : Dit(enRoute'[q][j], "machine", m, c)
    BY DEF Precedee, Suppose, Dit
  <2> QED BY <1>15
<1>17. ASSUME NEW q \in Racine PROVE Saines(q)'
  <2>1. \A m \in DOMAIN machines'[q] : Saine(m, machines'[q][m])
    <3>1. q # r => machines'[q] = machines[q] BY DEF FaitsAilleurs, MemesMachines
    <3> QED BY <3>1, <1>0 DEF Accord, Saines
  <2>2. \A i \in DOMAIN enRoute'[q] : OperationSaine(enRoute'[q][i])
    <3>1. \A i \in DOMAIN enRoute[q] : OperationSaine(enRoute[q][i]) BY DEF Accord, Saines
    <3> QED BY <3>1, <1>0, <1>2 DEF Jointe
  <2> QED BY <2>1, <2>2 DEF Saines, Saine, OperationSaine
<1> QED BY <1>8, <1>10, <1>11, <1>12, <1>16, <1>17 DEF Accord

\* The queue of root r loses the operation op, that it applies.
Entame(r, op) ==
  /\ 1 \in DOMAIN enRoute[r] /\ op = enRoute[r][1]
  /\ \A i \in DOMAIN enRoute[r] : i \in Nat
  /\ \A i \in DOMAIN enRoute'[r] :
       i \in Nat /\ i + 1 \in DOMAIN enRoute[r] /\ enRoute'[r][i] = enRoute[r][i + 1]
  /\ \A i \in DOMAIN enRoute[r] :
       i # 1 => i - 1 \in DOMAIN enRoute'[r] /\ enRoute'[r][i - 1] = enRoute[r][i]
  /\ \A q \in Racine : q # r => enRoute'[q] = enRoute[q]

LEMMA FileEntamee ==
  ASSUME IInv, NEW r \in Racine, Retirer(r), NEW op, op = Head(enRoute[r])
  PROVE  Entame(r, op) /\ op \in OperationDe(Emise)
<1> DEFINE T == OperationDe(Emise)
           s == enRoute[r]
           t == enRoute'[r]
<1>1. s \in Seq(T) /\ s # <<>> /\ t = Tail(s) /\ op = Head(s)
  BY EnRouteType DEF IInv, Voies, Retirer
<1>2. \A q \in Racine : q # r => enRoute'[q] = enRoute[q] BY DEF IInv, Voies, Retirer
<1> HIDE DEF T, s, t
<1>3. /\ 1 \in DOMAIN s /\ op = s[1]
      /\ \A i \in DOMAIN s : i \in Nat
      /\ \A i \in DOMAIN t : i \in Nat /\ i + 1 \in DOMAIN s /\ t[i] = s[i + 1]
      /\ \A i \in DOMAIN s : i # 1 => i - 1 \in DOMAIN t /\ t[i - 1] = s[i]
  BY <1>1, SuiteEntamee
<1>4. op \in T BY <1>1
<1> QED BY <1>2, <1>3, <1>4 DEF T, s, t, Entame

LEMMA DitsEntames ==
  ASSUME NEW r \in Racine, NEW op, Entame(r, op), NEW g, NEW k, NEW v
  PROVE  /\ DitPar(enRoute[r], g, k, v) => Dit(op, g, k, v) \/ DitPar(enRoute'[r], g, k, v)
         /\ PortePar(enRoute'[r], g, k, v) => PortePar(enRoute[r], g, k, v)
         /\ Porte(op, g, k, v) => PortePar(enRoute[r], g, k, v)
<1>1. /\ 1 \in DOMAIN enRoute[r] /\ op = enRoute[r][1]
      /\ \A i \in DOMAIN enRoute'[r] : i + 1 \in DOMAIN enRoute[r] /\ enRoute'[r][i] = enRoute[r][i + 1]
      /\ \A i \in DOMAIN enRoute[r] :
           i # 1 => i - 1 \in DOMAIN enRoute'[r] /\ enRoute'[r][i - 1] = enRoute[r][i]
  BY DEF Entame
<1>2. DitPar(enRoute[r], g, k, v) => Dit(op, g, k, v) \/ DitPar(enRoute'[r], g, k, v)
  BY <1>1 DEF DitPar
<1>3. PortePar(enRoute'[r], g, k, v) => PortePar(enRoute[r], g, k, v) BY <1>1 DEF PortePar
<1>4. Porte(op, g, k, v) => PortePar(enRoute[r], g, k, v) BY <1>1 DEF PortePar
<1> QED BY <1>2, <1>3, <1>4

\* What applying an operation has to do: nothing is taken back, nothing is known but
\* by the operation, all that it says is known.
Reception(r, op) ==
  /\ Progres(r)
  /\ \A g, k, v : Tenu(r, g, k, v)' => Tenu(r, g, k, v) \/ Porte(op, g, k, v)
  /\ Ancien => \A g, k, v : Dit(op, g, k, v) => Su(r, g, k, v)'
  /\ \A m \in DOMAIN machines'[r] : Saine(m, machines'[r][m])

LEMMA AccordRecu ==
  ASSUME IInv, IInv', Emise \subseteq Emise', Accord, NEW r \in Racine, NEW op,
         Entame(r, op), FaitsAilleurs(r), Reception(r, op)
  PROVE  Accord' /\ Ancien
<1>0. /\ Progres(r)
      /\ \A g, k, v : Tenu(r, g, k, v)' => Tenu(r, g, k, v) \/ Porte(op, g, k, v)
      /\ Ancien => \A g, k, v : Dit(op, g, k, v) => Su(r, g, k, v)'
      /\ \A m \in DOMAIN machines'[r] : Saine(m, machines'[r][m])
  BY DEF Reception
<1> DEFINE p == Pair[r]
<1>1. /\ p \in Racine /\ p # r /\ Pair[p] = r /\ \A q \in Racine : Pair[q] \in Racine
      /\ \A q \in Racine : Pair[q] = r <=> q = p
  BY DeuxRacines
<1> HIDE DEF p
<1>2. \A q \in Racine : q # r => enRoute'[q] = enRoute[q] BY DEF Entame
<1>3. \A g, k, v :
        /\ DitPar(enRoute[r], g, k, v) => Dit(op, g, k, v) \/ DitPar(enRoute'[r], g, k, v)
        /\ PortePar(enRoute'[r], g, k, v) => PortePar(enRoute[r], g, k, v)
        /\ Porte(op, g, k, v) => PortePar(enRoute[r], g, k, v)
  BY DitsEntames
<1>4. \A q \in Racine : q # r => Progres(q) /\ \A g, k, v : Tenu(q, g, k, v)' <=> Tenu(q, g, k, v)
  BY MemesProgres DEF FaitsAilleurs
<1>5. \A q \in Racine : Progres(q) BY <1>0, <1>4
<1>6. ASSUME NEW g, NEW k, NEW v, Vu(g, k, v)' PROVE Vu(g, k, v)
  <2>1. PICK q \in Racine : Tenu(q, g, k, v)' \/ PortePar(enRoute'[q], g, k, v)
    BY <1>6, VuApres
  <2>2. CASE Tenu(q, g, k, v)' BY <2>2, <1>0, <1>3, <1>4 DEF Vu
  <2>3. CASE PortePar(enRoute'[q], g, k, v) BY <2>3, <1>2, <1>3 DEF Vu
  <2> QED BY <2>1, <2>2, <2>3
<1>7. Ancien BY <1>6 DEF Ancien
<1>8. ASSUME NEW q \in Racine, NEW g, NEW k, NEW v, Vu(g, k, v), Su(q, g, k, v)
      PROVE  Su(q, g, k, v)'
  BY <1>5, <1>7, <1>8, SuReste DEF Accord
<1>9. Unicite'
  <2> SUFFICES ASSUME NEW g \in Uniques, NEW k, NEW v, NEW w,
                      Vu(g, k, v)', Vu(g, k, w)', Origine(g, k, v) = Origine(g, k, w)
               PROVE  v = w
    BY DEF Unicite, Uniques, Origine
  <2> QED BY <1>6 DEF Accord, Unicite
<1>10. ASSUME NEW q \in Racine PROVE Verite(q)'
  <2> SUFFICES ASSUME NEW g, NEW k, NEW v, PortePar(enRoute'[q], g, k, v)
               PROVE  Su(Pair[q], g, k, v)'
    BY DEF Verite, PortePar, Porte, Dit
  <2>1. PortePar(enRoute[q], g, k, v) BY <1>2, <1>3
  <2> QED BY <2>1, <1>1, <1>8 DEF Vu, Accord, Verite
<1>11. ASSUME NEW q \in Racine PROVE Couverture(q)'
  <2> SUFFICES ASSUME NEW g, NEW k, NEW v, Tenu(Pair[q], g, k, v)'
               PROVE  Su(q, g, k, v)' \/ DitPar(enRoute'[q], g, k, v)
    BY DEF Couverture, DitPar, Dit
  <2>1. CASE Tenu(Pair[q], g, k, v)
    <3>1. Vu(g, k, v) BY <2>1, <1>1 DEF Vu
    <3>2. Su(q, g, k, v) \/ DitPar(enRoute[q], g, k, v) BY <2>1 DEF Accord, Couverture
    <3> QED BY <3>1, <3>2, <1>0, <1>2, <1>3, <1>7, <1>8
  <2>2. CASE ~Tenu(Pair[q], g, k, v)
    <3>1. Pair[q] = r BY <2>2, <1>1, <1>4
    <3>2. q = p /\ PortePar(enRoute[r], g, k, v) BY <2>2, <3>1, <1>0, <1>1, <1>3
    <3>3. Vu(g, k, v) /\ Su(p, g, k, v) BY <3>2 DEF p, Vu, Accord, Verite
    <3> QED BY <3>2, <3>3, <1>1, <1>8
  <2> QED BY <2>1, <2>2
\* What is on its way to q was so before, one place further on r.
<1>12. ASSUME NEW q \in Racine, NEW i \in DOMAIN enRoute'[q]
       PROVE  \E j \in DOMAIN enRoute[q] :
                /\ enRoute'[q][i] = enRoute[q][j]
                /\ q # r => j = i
                /\ q = r => i \in Nat /\ j = i + 1
  BY <1>2 DEF Entame
<1>13. ASSUME NEW q \in Racine, NEW m \in Emise, Connu(q, m) PROVE Connu(q, m)'
  BY <1>5, <1>7, <1>13, ConnuReste DEF Accord
<1>14. ASSUME NEW q \in Racine, NEW i \in DOMAIN enRoute'[q], NEW m,
              Suppose(enRoute'[q][i], m)
       PROVE  Connu(q, m)' \/ \E j \in 1..(i-1) : \E c : Dit(enRoute'[q][j], "machine", m, c)
  <2>1. PICK j \in DOMAIN enRoute[q] : /\ enRoute'[q][i] = enRoute[q][j]
                                       /\ q # r => j = i
                                       /\ q = r => i \in Nat /\ j = i + 1
    BY <1>12
  <2>2. Suppose(enRoute[q][j], m) BY <2>1, <1>14
  <2>3. m \in Emise BY <2>2, EnRouteType, ChampsDits DEF Suppose
  <2>4. CASE Connu(q, m) BY <2>3, <2>4, <1>13
  <2>5. ASSUME NEW l \in 1..(j-1), NEW c, Dit(enRoute[q][l], "machine", m, c)
        PROVE  Connu(q, m)' \/ \E x \in 1..(i-1) : \E d : Dit(enRoute'[q][x], "machine", m, d)
    <3>1. CASE q # r BY <3>1, <2>1, <2>5, <1>2
    <3>2. CASE q = r /\ l = 1
      <4>1. Dit(op, "machine", m, c) BY <3>2, <2>5 DEF Entame
      <4>2. Su(r, "machine", m, c)' BY <4>1, <1>0, <1>7
      <4> QED BY <4>2, <3>2, FaitsDeApres DEF Su, Connu, MachineDuFait
    <3>3. CASE q = r /\ l # 1
      <4>1. l \in DOMAIN enRoute[r]
        <5> DEFINE T == OperationDe(Emise)
                   s == enRoute[r]
        <5>1. s \in Seq(T) /\ j \in DOMAIN s BY <2>1, <3>3, EnRouteType
        <5> HIDE DEF T, s
        <5>2. l \in DOMAIN s BY <5>1, <2>5
        <5> QED BY <5>2 DEF s
      <4>2. l - 1 \in DOMAIN enRoute'[r] /\ enRoute'[r][l - 1] = enRoute[r][l]
        BY <4>1, <3>3 DEF Entame
      <4>3. l - 1 \in 1..(i-1)
        <5>1. i \in Nat /\ j = i + 1 /\ l \in 1..(j-1) /\ l # 1 BY <2>1, <2>5, <3>3
        <5> QED BY <5>1
      <4> QED BY <4>2, <4>3, <2>5, <3>3
    <3> QED BY <3>1, <3>2, <3>3
  <2> QED BY <2>2, <2>4, <2>5 DEF Accord, Precedee
<1>15. ASSUME NEW q \in Racine, NEW i \in DOMAIN enRoute'[q] PROVE Precedee(q, i)'
  <2> SUFFICES ASSUME NEW m, Suppose(enRoute'[q][i], m)
               PROVE  \/ Connu(q, m)'
                      \/ \E j \in 1..(i-1) : \E c : Dit(enRoute'[q][j], "machine", m, c)
    BY DEF Precedee, Suppose, Dit
  <2> QED BY <1>14
<1>16. ASSUME NEW q \in Racine PROVE Saines(q)'
  <2>1. \A m \in DOMAIN machines'[q] : Saine(m, machines'[q][m])
    <3>1. q # r => machines'[q] = machines[q] BY DEF FaitsAilleurs, MemesMachines
    <3> QED BY <3>1, <1>0 DEF Accord, Saines
  <2>2. \A i \in DOMAIN enRoute'[q] : OperationSaine(enRoute'[q][i])
    BY <1>12 DEF Accord, Saines
  <2> QED BY <2>1, <2>2 DEF Saines, Saine, OperationSaine
<1> QED BY <1>7, <1>9, <1>10, <1>11, <1>15, <1>16 DEF Accord

-----------------------------------------------------------------------------
(* A snapshot.                                                             *)

\* A field of a machine, from before its first change: all that a snapshot says and its
\* author does not hold.
Naissance(q, g, k, v) == g \in {"nom", "capacites"} /\ k \in DOMAIN machines[q] /\ v = k

\* What s says of a machine comes after it, unless it is in X.
Appuyee(s, X) ==
  \A i \in DOMAIN s : \A m : Suppose(s[i], m) =>
    m \in X \/ \E j \in 1..(i-1) : \E c : Dit(s[j], "machine", m, c)

\* The operations of s tell what root q holds: nothing else, and all that is of the
\* sorts G.
Reflet(q, s, G, X) ==
  /\ \A g, k, v : PortePar(s, g, k, v) => Tenu(q, g, k, v) \/ Naissance(q, g, k, v)
  /\ \A g \in G : \A k, v : Tenu(q, g, k, v) => DitPar(s, g, k, v)
  /\ \A i \in DOMAIN s : OperationSaine(s[i])
  /\ Appuyee(s, X)

\* What comes after needs X: the operations of the sorts G bring it, but for Y.
Relie(q, G, X, Y) ==
  \A m \in X : m \in Y \/ ("machine" \in G /\ \E c : Tenu(q, "machine", m, c))

LEMMA JointeReflet ==
  ASSUME NEW q, NEW T, NEW a \in Seq(T), NEW b \in Seq(T), NEW t, t = a \o b,
         NEW G, NEW H, NEW X, NEW Y, Reflet(q, a, G, Y), Reflet(q, b, H, X),
         Relie(q, G, X, Y)
  PROVE  t \in Seq(T) /\ Reflet(q, t, G \cup H, Y)
<1>0. t \in Seq(T) OBVIOUS
<1>1. Jointe(t, a, b) BY SuiteJointe
<1>2. \A g, k, v : /\ DitPar(t, g, k, v) <=> DitPar(a, g, k, v) \/ DitPar(b, g, k, v)
                   /\ PortePar(t, g, k, v) <=> PortePar(a, g, k, v) \/ PortePar(b, g, k, v)
  BY <1>1, DitsJoints
<1>3. \A g, k, v : PortePar(t, g, k, v) => Tenu(q, g, k, v) \/ Naissance(q, g, k, v)
  BY <1>2 DEF Reflet
<1>4. \A g \in G \cup H : \A k, v : Tenu(q, g, k, v) => DitPar(t, g, k, v)
  BY <1>2 DEF Reflet
<1>5. \A i \in DOMAIN t : OperationSaine(t[i]) BY <1>1 DEF Reflet, Jointe
<1>6. ASSUME NEW i \in DOMAIN t, NEW m, Suppose(t[i], m)
      PROVE  m \in Y \/ \E j \in 1..(i-1) : \E c : Dit(t[j], "machine", m, c)
  <2>1. /\ Len(a) \in Nat /\ DOMAIN a = 1..Len(a) /\ Len(b) \in Nat /\ DOMAIN b = 1..Len(b)
        /\ \A x \in DOMAIN a : t[x] = a[x]
        /\ \A j \in DOMAIN b : t[Len(a) + j] = b[j]
    BY <1>1 DEF Jointe
  <2>2. CASE i \in DOMAIN a
    <3>1. \A j \in 1..(i-1) : j \in DOMAIN a BY <2>1, <2>2
    <3> QED BY <3>1, <2>1, <2>2, <1>6 DEF Reflet, Appuyee
  <2>3. ASSUME NEW j \in DOMAIN b, i = Len(a) + j
        PROVE  m \in Y \/ \E l \in 1..(i-1) : \E c : Dit(t[l], "machine", m, c)
    <3>1. Suppose(b[j], m) BY <2>1, <2>3, <1>6
    <3>2. CASE m \in X /\ m \notin Y
      <4>1. PICK c : DitPar(a, "machine", m, c) BY <3>2 DEF Reflet, Relie
      <4>2. PICK l \in DOMAIN a : Dit(a[l], "machine", m, c) BY <4>1 DEF DitPar
      <4>3. l \in 1..(i-1) /\ t[l] = a[l] BY <2>1, <2>3
      <4> QED BY <4>2, <4>3
    <3>3. ASSUME NEW l \in 1..(j-1), NEW c, Dit(b[l], "machine", m, c)
          PROVE  \E x \in 1..(i-1) : \E d : Dit(t[x], "machine", m, d)
      <4>1. l \in DOMAIN b /\ Len(a) + l \in 1..(i-1) BY <2>1, <2>3
      <4>2. t[Len(a) + l] = b[l] BY <4>1, <2>1
      <4> QED BY <4>1, <4>2, <3>3
    <3> QED BY <3>1, <3>2, <3>3 DEF Reflet, Appuyee
  <2> QED BY <1>1, <2>2, <2>3 DEF Jointe
<1>7. Appuyee(t, Y) BY <1>6 DEF Appuyee
<1> QED BY <1>0, <1>3, <1>4, <1>5, <1>7 DEF Reflet

LEMMA JointeReflets ==
  ASSUME NEW q, NEW T, NEW a \in Seq(T), NEW b \in Seq(T), NEW G, NEW H, NEW Y,
         Reflet(q, a, G, Y), Reflet(q, b, H, {})
  PROVE  a \o b \in Seq(T) /\ Reflet(q, a \o b, G \cup H, Y)
<1>1. PICK X : X = {} OBVIOUS
<1>2. Reflet(q, b, H, X) BY <1>1
<1>3. Relie(q, G, X, Y) BY <1>1 DEF Relie
<1>4. PICK t : t = a \o b OBVIOUS
<1>5. t \in Seq(T) /\ Reflet(q, t, G \cup H, Y) BY <1>2, <1>3, <1>4, JointeReflet
<1> QED BY <1>4, <1>5

\* One operation for each row: the rows are told.
LEMMA RefletDUneTable ==
  ASSUME NEW q, NEW S, IsFiniteSet(S), NEW o, DOMAIN o = S, NEW d, Dite(S, o, d),
         NEW G, NEW X,
         \A x \in S : \A g, k, v : Porte(o[x], g, k, v) => Tenu(q, g, k, v),
         \A x \in S : OperationSaine(o[x]) /\ \A m : Suppose(o[x], m) => m \in X,
         \A g \in G : \A k, v : Tenu(q, g, k, v) => \E x \in S : Dit(o[x], g, k, v)
  PROVE  Reflet(q, d, G, X)
<1> DEFINE tous == SetToSeq(S)
<1>1. /\ Cardinality(S) \in Nat /\ tous \in [1..Cardinality(S) -> S]
      /\ \A x \in S : \E i \in DOMAIN tous : tous[i] = x
  BY SuiteDe
<1>2. d = [i \in DOMAIN tous |-> o[tous[i]]] BY DEF Dite
<1> HIDE DEF tous
<1>3. \A i \in DOMAIN d : \E x \in S : d[i] = o[x] BY <1>1, <1>2
<1>4. \A x \in S : \E i \in DOMAIN d : d[i] = o[x] BY <1>1, <1>2
<1>5. \A g, k, v : PortePar(d, g, k, v) => Tenu(q, g, k, v) BY <1>3 DEF PortePar
<1>6. \A g \in G : \A k, v : Tenu(q, g, k, v) => DitPar(d, g, k, v) BY <1>4 DEF DitPar
<1>7. (\A i \in DOMAIN d : OperationSaine(d[i])) /\ Appuyee(d, X) BY <1>3 DEF Appuyee
<1> QED BY <1>5, <1>6, <1>7 DEF Reflet

\* One machine: its row, then its fields under their stamps.
LEMMA RefletDUneMachine ==
  ASSUME IInv, NEW q \in Racine, Saines(q), NEW m \in DOMAIN machines[q], NEW s,
         s = DitsDUneMachine(q, m)
  PROVE  /\ Reflet(q, s, {}, {})
         /\ \A g \in {"machine", "nom", "capacites"} : \A v :
              Tenu(q, g, m, v) => DitPar(s, g, m, v)
<1> DEFINE machine == machines[q][m]
           o == [quoi |-> "machine", estampille |-> machine.estampille, machine |-> m,
                 enregistrement |-> machine]
           modifiee(e, champs) == [quoi |-> "modifiee", estampille |-> e, machine |-> m,
                                   champs |-> champs]
           a == modifiee(machine.nom, {"nom", "capacites"})
           b == modifiee(machine.nom, {"nom"})
           c == modifiee(machine.capacites, {"capacites"})
<1>1. /\ \A v : Tenu(q, "machine", m, v) <=> v = machine.proprietaire
      /\ \A v : Tenu(q, "nom", m, v) <=> v = machine.nom
      /\ \A v : Tenu(q, "capacites", m, v) <=> v = machine.capacites
  BY FaitsDe DEF Tenu, Sortes, Derniers
<1>2. s = <<o>> \o (IF machine.nom = machine.capacites THEN <<a>> ELSE <<b, c>>)
  BY DEF DitsDUneMachine
<1>3. Saine(m, machine) BY DEF Saines
<1> HIDE DEF machine
<1>4. /\ \A g, k, v : Dit(o, g, k, v) <=>
           /\ k = m
           /\ \/ g = "machine" /\ v = machine.proprietaire
              \/ g \in {"nom", "capacites"} /\ v = m
      /\ \A g, k, v : Porte(o, g, k, v) <=>
           \/ Dit(o, g, k, v)
           \/ k = m /\ ((g = "nom" /\ v = machine.nom) \/ (g = "capacites" /\ v = machine.capacites))
      /\ OperationSaine(o) /\ \A x : ~Suppose(o, x)
  <2>1. o.quoi = "machine" /\ o.machine = m /\ o.enregistrement = machine OBVIOUS
  <2> HIDE DEF o
  <2>2. \A g, k, v : Dit(o, g, k, v) <=>
           /\ k = m
           /\ \/ g = "machine" /\ v = machine.proprietaire
              \/ g \in {"nom", "capacites"} /\ v = m
    BY <2>1 DEF Dit
  <2>3. \A g, k, v : Porte(o, g, k, v) <=>
           \/ Dit(o, g, k, v)
           \/ k = m /\ ((g = "nom" /\ v = machine.nom) \/ (g = "capacites" /\ v = machine.capacites))
    <3> SUFFICES ASSUME NEW g, NEW k, NEW v
                 PROVE  Porte(o, g, k, v) <=>
                          \/ Dit(o, g, k, v)
                          \/ /\ k = m
                             /\ \/ g = "nom" /\ v = machine.nom
                                \/ g = "capacites" /\ v = machine.capacites
      OBVIOUS
    <3> QED BY <2>1 DEF Porte
  <2>4. OperationSaine(o) BY <2>1, <1>3 DEF OperationSaine
  <2>5. \A x : ~Suppose(o, x) BY <2>1 DEF Suppose
  <2> QED BY <2>2, <2>3, <2>4, <2>5
<1>5. /\ \A g, k, v : Porte(a, g, k, v) <=> Dit(a, g, k, v)
      /\ \A g, k, v : Dit(a, g, k, v) <=> g \in {"nom", "capacites"} /\ k = m /\ v = machine.nom
      /\ OperationSaine(a) /\ \A x : Suppose(a, x) => x = m
  BY DEF Dit, Porte, OperationSaine, Suppose
<1>6. /\ \A g, k, v : Porte(b, g, k, v) <=> Dit(b, g, k, v)
      /\ \A g, k, v : Dit(b, g, k, v) <=> g = "nom" /\ k = m /\ v = machine.nom
      /\ OperationSaine(b) /\ \A x : Suppose(b, x) => x = m
  BY DEF Dit, Porte, OperationSaine, Suppose
<1>7. /\ \A g, k, v : Porte(c, g, k, v) <=> Dit(c, g, k, v)
      /\ \A g, k, v : Dit(c, g, k, v) <=> g = "capacites" /\ k = m /\ v = machine.capacites
      /\ OperationSaine(c) /\ \A x : Suppose(c, x) => x = m
  BY DEF Dit, Porte, OperationSaine, Suppose
<1> HIDE DEF o, a, b, c
<1>8. /\ 1 \in DOMAIN s /\ s[1] = o /\ \A i \in DOMAIN s : i \in Nat /\ 1 <= i
      /\ machine.nom = machine.capacites =>
           /\ 2 \in DOMAIN s /\ s[2] = a /\ \A i \in DOMAIN s : i \in {1, 2}
      /\ machine.nom # machine.capacites =>
           /\ 2 \in DOMAIN s /\ s[2] = b /\ 3 \in DOMAIN s /\ s[3] = c
           /\ \A i \in DOMAIN s : i \in {1, 2, 3}
  BY <1>2, SMTT(60)
<1>9. ASSUME NEW g, NEW k, NEW v, PortePar(s, g, k, v)
      PROVE  Tenu(q, g, k, v) \/ Naissance(q, g, k, v)
  <2>1. \A i \in DOMAIN s : Porte(s[i], g, k, v) =>
          /\ k = m
          /\ \/ g = "machine" /\ v = machine.proprietaire
             \/ g \in {"nom", "capacites"} /\ v = m
             \/ g = "nom" /\ v = machine.nom
             \/ g = "capacites" /\ v = machine.capacites
    <3>1. \A x \in {o, b, c} : Porte(x, g, k, v) =>
            /\ k = m
            /\ \/ g = "machine" /\ v = machine.proprietaire
               \/ g \in {"nom", "capacites"} /\ v = m
               \/ g = "nom" /\ v = machine.nom
               \/ g = "capacites" /\ v = machine.capacites
      BY <1>4, <1>6, <1>7
    <3>2. machine.nom = machine.capacites /\ Porte(a, g, k, v) =>
            k = m /\ ((g = "nom" /\ v = machine.nom) \/ (g = "capacites" /\ v = machine.capacites))
      BY <1>5
    <3>3. \A i \in DOMAIN s :
            s[i] \in {o, b, c} \/ (machine.nom = machine.capacites /\ s[i] = a)
      BY <1>8
    <3> QED BY <3>1, <3>2, <3>3
  <2> QED BY <1>1, <1>9, <2>1 DEF PortePar, Naissance
<1>10. \A i \in DOMAIN s : OperationSaine(s[i]) BY <1>4, <1>5, <1>6, <1>7, <1>8
<1>11. Appuyee(s, {})
  <2>1. \A i \in DOMAIN s : \A x : Suppose(s[i], x) => i # 1 /\ x = m
    BY <1>4, <1>5, <1>6, <1>7, <1>8
  <2>2. Dit(s[1], "machine", m, machine.proprietaire) BY <1>4, <1>8
  <2>3. \A i \in DOMAIN s : i # 1 => 1 \in 1..(i-1) BY <1>8
  <2> QED BY <2>1, <2>2, <2>3 DEF Appuyee
<1>12. ASSUME NEW g \in {"machine", "nom", "capacites"}, NEW v, Tenu(q, g, m, v)
       PROVE  DitPar(s, g, m, v)
  BY <1>1, <1>4, <1>5, <1>6, <1>7, <1>8, <1>12 DEF DitPar
<1> QED BY <1>9, <1>10, <1>11, <1>12 DEF Reflet

\* All the machines.
LEMMA RefletDesMachines ==
  ASSUME IInv, NEW q \in Racine, Saines(q)
  PROVE  Reflet(q, DitsDesMachines(q), {"machine", "nom", "capacites"}, {})
<1> DEFINE T == AuxMachines(Emise)
           S == DOMAIN machines[q]
           toutes == SetToSeq(S)
           n == Cardinality(S)
           d == [i \in DOMAIN toutes |-> DitsDUneMachine(q, toutes[i])]
           G == {"machine", "nom", "capacites"}
<1>1. IsFiniteSet(S) BY DEF IInv, Locale, MachinesDe, TableDe
<1>2. /\ n \in Nat /\ toutes \in [1..n -> S]
      /\ \A m \in S : \E i \in DOMAIN toutes : toutes[i] = m
  BY <1>1, SuiteDe
<1>3. \A m \in S : DitsDUneMachine(q, m) \in Seq(T) BY DitsMachine
<1>4. \A m \in S : /\ Reflet(q, DitsDUneMachine(q, m), {}, {})
                   /\ \A g \in G : \A v :
                        Tenu(q, g, m, v) => DitPar(DitsDUneMachine(q, m), g, m, v)
  BY RefletDUneMachine
<1>5. \A g \in G : \A k, v : Tenu(q, g, k, v) => k \in S
  BY FaitsDe DEF Tenu
<1>6. DitsDesMachines(q) = FlattenSeq(d) BY DEF DitsDesMachines
<1> HIDE DEF T, S, toutes, n, G
<1>7. /\ d \in [1..n -> Seq(T)] /\ \A i \in 1..n : toutes[i] \in S /\ d[i] = DitsDUneMachine(q, toutes[i])
  BY <1>2, <1>3
<1> HIDE DEF d
<1>8. d \in Seq(Seq(T)) /\ Len(d) = n BY <1>7, <1>2
<1>9. PICK f : f = FlattenSeq(d) OBVIOUS
<1>10. Reprend(f, d, n) BY <1>8, <1>9, AplatieReprend
<1>11. /\ \A i \in DOMAIN f : \E k \in 1..n : \E j \in DOMAIN d[k] :
            f[i] = d[k][j] /\ \A m \in 1..(j-1) : \E l \in 1..(i-1) : f[l] = d[k][m]
       /\ \A k \in 1..n : \A j \in DOMAIN d[k] : \E i \in DOMAIN f : f[i] = d[k][j]
  BY <1>10 DEF Reprend
<1>12. \A k \in 1..n : Reflet(q, d[k], {}, {}) BY <1>4, <1>7
<1>13. ASSUME NEW i \in DOMAIN f
       PROVE  /\ \A g, k, v : Porte(f[i], g, k, v) => Tenu(q, g, k, v) \/ Naissance(q, g, k, v)
              /\ OperationSaine(f[i])
              /\ \A m : Suppose(f[i], m) =>
                   \E j \in 1..(i-1) : \E c : Dit(f[j], "machine", m, c)
  <2>1. PICK k \in 1..n : \E j \in DOMAIN d[k] :
          f[i] = d[k][j] /\ \A m \in 1..(j-1) : \E l \in 1..(i-1) : f[l] = d[k][m]
    BY <1>11
  <2>2. PICK b : b = d[k] OBVIOUS
  <2>3. PICK j \in DOMAIN b : f[i] = b[j] /\ \A m \in 1..(j-1) : \E l \in 1..(i-1) : f[l] = b[m]
    BY <2>1, <2>2
  <2>4. Reflet(q, b, {}, {}) BY <2>2, <1>12
  <2>5. \A g, kk, v : Porte(b[j], g, kk, v) => Tenu(q, g, kk, v) \/ Naissance(q, g, kk, v)
    BY <2>4 DEF Reflet, PortePar
  <2>6. OperationSaine(b[j]) BY <2>4 DEF Reflet
  <2>7. \A m : Suppose(b[j], m) => \E x \in 1..(j-1) : \E c : Dit(b[x], "machine", m, c)
    BY <2>4 DEF Reflet, Appuyee
  <2> QED BY <2>3, <2>5, <2>6, <2>7
<1>14. ASSUME NEW g \in G, NEW k, NEW v, Tenu(q, g, k, v) PROVE DitPar(f, g, k, v)
  <2>1. PICK i \in DOMAIN toutes : toutes[i] = k BY <1>2, <1>5, <1>14
  <2>2. i \in 1..n /\ k \in S BY <2>1, <1>2, <1>5, <1>14
  <2>3. PICK b : b = d[i] OBVIOUS
  <2>4. DitPar(b, g, k, v) BY <2>1, <2>2, <2>3, <1>4, <1>7, <1>14
  <2>5. PICK j \in DOMAIN b : Dit(b[j], g, k, v) BY <2>4 DEF DitPar
  <2>6. PICK x \in DOMAIN f : f[x] = b[j] BY <2>2, <2>3, <1>11
  <2> QED BY <2>5, <2>6 DEF DitPar
<1>15. \A g, k, v : PortePar(f, g, k, v) => Tenu(q, g, k, v) \/ Naissance(q, g, k, v)
  BY <1>13 DEF PortePar
<1>16. Appuyee(f, {}) BY <1>13 DEF Appuyee
<1>17. Reflet(q, f, G, {}) BY <1>13, <1>14, <1>15, <1>16 DEF Reflet
<1> QED BY <1>6, <1>9, <1>17 DEF G

\* The other tables, one operation for each row.
LEMMA RefletDesEffaces ==
  ASSUME IInv, NEW q \in Racine, NEW S, S = effaces[q], NEW d,
         d = [i \in DOMAIN SetToSeq(S) |->
                [quoi |-> "efface", estampille |-> Aucune, compte |-> SetToSeq(S)[i]]]
  PROVE  Reflet(q, d, {"efface"}, {})
<1> DEFINE o == [x \in S |->
                   [quoi |-> "efface", estampille |-> Aucune, compte |-> x]]
<1>1. IsFiniteSet(S) BY DEF IInv, Locale, MachinesDe
<1>2. \A i \in DOMAIN SetToSeq(S) : SetToSeq(S)[i] \in S BY <1>1, SuiteDe
<1>3. Dite(S, o, d) BY <1>2 DEF Dite
<1>4. \A x \in S :
        /\ o[x].quoi = "efface" /\ o[x].compte = x
  BY <1>1
<1>5. DOMAIN o = S OBVIOUS
<1>6. \A k, v : Tenu(q, "efface", k, v) <=> k \in S /\ v = k
  BY FaitsDe DEF Tenu, Sortes, Premiers, Derniers
<1> HIDE DEF o
<1>7. \A x \in S : \A g, k, v : Dit(o[x], g, k, v) <=> g = "efface" /\ k = x /\ v = x
  BY <1>4 DEF Dit
<1>8. \A x \in S : \A g, k, v : Porte(o[x], g, k, v) <=> Dit(o[x], g, k, v)
  BY <1>4 DEF Porte
<1>9. \A x \in S : OperationSaine(o[x]) /\ \A m : Suppose(o[x], m) => m \in {}
  BY <1>1, <1>4 DEF OperationSaine, Suppose
<1>10. ASSUME NEW x \in S, NEW g, NEW k, NEW v, Porte(o[x], g, k, v)
       PROVE  Tenu(q, g, k, v)
  <2>0. Dit(o[x], g, k, v) BY <1>8, <1>10
  <2>1. g = "efface" /\ k = x /\ v = x BY <2>0, <1>7
  <2>2. Tenu(q, "efface", k, v) BY <2>1, <1>6
  <2> QED BY <2>1, <2>2
<1>11. \A g \in {"efface"} : \A k, v : Tenu(q, g, k, v) => \E x \in S : Dit(o[x], g, k, v)
  BY <1>6, <1>7
<1> QED BY <1>1, <1>3, <1>5, <1>9, <1>10, <1>11, RefletDUneTable

LEMMA RefletDesOuverts ==
  ASSUME IInv, NEW q \in Racine, NEW S, S = ouverts[q], NEW d,
         d = [i \in DOMAIN SetToSeq(S) |->
                [quoi |-> "ouvert", estampille |-> SetToSeq(S)[i].compte, par |-> SetToSeq(S)[i].par,
                 compte |-> SetToSeq(S)[i].compte]]
  PROVE  Reflet(q, d, {"ouvert"}, {})
<1> DEFINE o == [x \in S |->
                   [quoi |-> "ouvert", estampille |-> x.compte, par |-> x.par,
                    compte |-> x.compte]]
<1>1. IsFiniteSet(S) /\ \A x \in S : x = [par |-> x.par, compte |-> x.compte]
  BY DEF IInv, Locale, InvitationsDe, CompteOuvert
<1>2. \A i \in DOMAIN SetToSeq(S) : SetToSeq(S)[i] \in S BY <1>1, SuiteDe
<1>3. Dite(S, o, d) BY <1>2 DEF Dite
<1>4. \A x \in S :
        /\ o[x].quoi = "ouvert" /\ x = [par |-> o[x].par, compte |-> o[x].compte]
  BY <1>1
<1>5. DOMAIN o = S OBVIOUS
<1>6. \A k, v : Tenu(q, "ouvert", k, v) <=> k \in S /\ v = k
  BY FaitsDe DEF Tenu, Sortes, Premiers, Derniers
<1> HIDE DEF o
<1>7. \A x \in S : \A g, k, v : Dit(o[x], g, k, v) <=> g = "ouvert" /\ k = x /\ v = x
  BY <1>4 DEF Dit
<1>8. \A x \in S : \A g, k, v : Porte(o[x], g, k, v) <=> Dit(o[x], g, k, v)
  BY <1>4 DEF Porte
<1>9. \A x \in S : OperationSaine(o[x]) /\ \A m : Suppose(o[x], m) => m \in {}
  BY <1>1, <1>4 DEF OperationSaine, Suppose
<1>10. ASSUME NEW x \in S, NEW g, NEW k, NEW v, Porte(o[x], g, k, v)
       PROVE  Tenu(q, g, k, v)
  <2>0. Dit(o[x], g, k, v) BY <1>8, <1>10
  <2>1. g = "ouvert" /\ k = x /\ v = x BY <2>0, <1>7
  <2>2. Tenu(q, "ouvert", k, v) BY <2>1, <1>6
  <2> QED BY <2>1, <2>2
<1>11. \A g \in {"ouvert"} : \A k, v : Tenu(q, g, k, v) => \E x \in S : Dit(o[x], g, k, v)
  BY <1>6, <1>7
<1> QED BY <1>1, <1>3, <1>5, <1>9, <1>10, <1>11, RefletDUneTable

LEMMA RefletDesServices ==
  ASSUME IInv, NEW q \in Racine, NEW S, S = DOMAIN services[q], NEW d,
         d = [i \in DOMAIN SetToSeq(S) |->
                [quoi |-> "service", estampille |-> services[q][SetToSeq(S)[i]], service |-> SetToSeq(S)[i]]]
  PROVE  Reflet(q, d, {"service"}, {s.machine : s \in S})
<1> DEFINE o == [x \in S |->
                   [quoi |-> "service", estampille |-> services[q][x], service |-> x]]
<1>1. IsFiniteSet(S) BY DEF IInv, Locale, MachinesDe, TableDe
<1>2. \A i \in DOMAIN SetToSeq(S) : SetToSeq(S)[i] \in S BY <1>1, SuiteDe
<1>3. Dite(S, o, d) BY <1>2 DEF Dite
<1>4. \A x \in S :
        /\ o[x].quoi = "service" /\ o[x].service = x /\ o[x].estampille = services[q][x]
  BY <1>1
<1>5. DOMAIN o = S OBVIOUS
<1>6. \A k, v : Tenu(q, "service", k, v) <=> k \in S /\ v = services[q][k]
  BY FaitsDe DEF Tenu, Sortes, Premiers, Derniers
<1> HIDE DEF o
<1>7. \A x \in S : \A g, k, v : Dit(o[x], g, k, v) <=> g = "service" /\ k = x /\ v = services[q][x]
  BY <1>4 DEF Dit
<1>8. \A x \in S : \A g, k, v : Porte(o[x], g, k, v) <=> Dit(o[x], g, k, v)
  BY <1>4 DEF Porte
<1>9. \A x \in S : OperationSaine(o[x]) /\ \A m : Suppose(o[x], m) => m \in {s.machine : s \in S}
  BY <1>1, <1>4 DEF OperationSaine, Suppose
<1>10. ASSUME NEW x \in S, NEW g, NEW k, NEW v, Porte(o[x], g, k, v)
       PROVE  Tenu(q, g, k, v)
  <2>0. Dit(o[x], g, k, v) BY <1>8, <1>10
  <2>1. g = "service" /\ k = x /\ v = services[q][x] BY <2>0, <1>7
  <2>2. Tenu(q, "service", k, v) BY <2>1, <1>6
  <2> QED BY <2>1, <2>2
<1>11. \A g \in {"service"} : \A k, v : Tenu(q, g, k, v) => \E x \in S : Dit(o[x], g, k, v)
  BY <1>6, <1>7
<1> QED BY <1>1, <1>3, <1>5, <1>9, <1>10, <1>11, RefletDUneTable

LEMMA RefletDesDeclarations ==
  ASSUME IInv, NEW q \in Racine, NEW S, S = DOMAIN declarations[q], NEW d,
         d = [i \in DOMAIN SetToSeq(S) |->
                [quoi |-> "inscription", estampille |-> SetToSeq(S)[i], code |-> SetToSeq(S)[i],
                 enregistrement |-> declarations[q][SetToSeq(S)[i]]]]
  PROVE  Reflet(q, d, {"declaration"}, {})
<1> DEFINE o == [x \in S |->
                   [quoi |-> "inscription", estampille |-> x, code |-> x,
                    enregistrement |-> declarations[q][x]]]
<1>1. IsFiniteSet(S) BY DEF IInv, Locale, InscriptionsDe, TableDe
<1>2. \A i \in DOMAIN SetToSeq(S) : SetToSeq(S)[i] \in S BY <1>1, SuiteDe
<1>3. Dite(S, o, d) BY <1>2 DEF Dite
<1>4. \A x \in S :
        /\ o[x].quoi = "inscription" /\ o[x].code = x /\ o[x].enregistrement = declarations[q][x]
  BY <1>1
<1>5. DOMAIN o = S OBVIOUS
<1>6. \A k, v : Tenu(q, "declaration", k, v) <=> k \in S /\ v = declarations[q][k]
  BY FaitsDe DEF Tenu, Sortes, Premiers, Derniers
<1> HIDE DEF o
<1>7. \A x \in S : \A g, k, v : Dit(o[x], g, k, v) <=> g = "declaration" /\ k = x /\ v = declarations[q][x]
  BY <1>4 DEF Dit
<1>8. \A x \in S : \A g, k, v : Porte(o[x], g, k, v) <=> Dit(o[x], g, k, v)
  BY <1>4 DEF Porte
<1>9. \A x \in S : OperationSaine(o[x]) /\ \A m : Suppose(o[x], m) => m \in {}
  BY <1>1, <1>4 DEF OperationSaine, Suppose
<1>10. ASSUME NEW x \in S, NEW g, NEW k, NEW v, Porte(o[x], g, k, v)
       PROVE  Tenu(q, g, k, v)
  <2>0. Dit(o[x], g, k, v) BY <1>8, <1>10
  <2>1. g = "declaration" /\ k = x /\ v = declarations[q][x] BY <2>0, <1>7
  <2>2. Tenu(q, "declaration", k, v) BY <2>1, <1>6
  <2> QED BY <2>1, <2>2
<1>11. \A g \in {"declaration"} : \A k, v : Tenu(q, g, k, v) => \E x \in S : Dit(o[x], g, k, v)
  BY <1>6, <1>7
<1> QED BY <1>1, <1>3, <1>5, <1>9, <1>10, <1>11, RefletDUneTable

LEMMA RefletDesPresentations ==
  ASSUME IInv, NEW q \in Racine, NEW S, S = DOMAIN presentations[q], NEW d,
         d = [i \in DOMAIN SetToSeq(S) |->
                [quoi |-> "presentation", code |-> SetToSeq(S)[i],
                 estampille |-> presentations[q][SetToSeq(S)[i]].estampille,
                 enregistrement |-> presentations[q][SetToSeq(S)[i]]]]
  PROVE  Reflet(q, d, {"presentation"}, {})
<1> DEFINE o == [x \in S |->
                   [quoi |-> "presentation", code |-> x,
                    estampille |-> presentations[q][x].estampille,
                    enregistrement |-> presentations[q][x]]]
<1>1. IsFiniteSet(S) BY DEF IInv, Locale, InscriptionsDe, TableDe
<1>2. \A i \in DOMAIN SetToSeq(S) : SetToSeq(S)[i] \in S BY <1>1, SuiteDe
<1>3. Dite(S, o, d) BY <1>2 DEF Dite
<1>4. \A x \in S :
        /\ o[x].quoi = "presentation" /\ o[x].code = x /\ o[x].enregistrement = presentations[q][x]
  BY <1>1
<1>5. DOMAIN o = S OBVIOUS
<1>6. \A k, v : Tenu(q, "presentation", k, v) <=> k \in S /\ v = presentations[q][k]
  BY FaitsDe DEF Tenu, Sortes, Premiers, Derniers
<1> HIDE DEF o
<1>7. \A x \in S : \A g, k, v : Dit(o[x], g, k, v) <=> g = "presentation" /\ k = x /\ v = presentations[q][x]
  BY <1>4 DEF Dit
<1>8. \A x \in S : \A g, k, v : Porte(o[x], g, k, v) <=> Dit(o[x], g, k, v)
  BY <1>4 DEF Porte
<1>9. \A x \in S : OperationSaine(o[x]) /\ \A m : Suppose(o[x], m) => m \in {}
  BY <1>1, <1>4 DEF OperationSaine, Suppose
<1>10. ASSUME NEW x \in S, NEW g, NEW k, NEW v, Porte(o[x], g, k, v)
       PROVE  Tenu(q, g, k, v)
  <2>0. Dit(o[x], g, k, v) BY <1>8, <1>10
  <2>1. g = "presentation" /\ k = x /\ v = presentations[q][x] BY <2>0, <1>7
  <2>2. Tenu(q, "presentation", k, v) BY <2>1, <1>6
  <2> QED BY <2>1, <2>2
<1>11. \A g \in {"presentation"} : \A k, v : Tenu(q, g, k, v) => \E x \in S : Dit(o[x], g, k, v)
  BY <1>6, <1>7
<1> QED BY <1>1, <1>3, <1>5, <1>9, <1>10, <1>11, RefletDUneTable

LEMMA RefletDesMarques ==
  ASSUME IInv, NEW q \in Racine, NEW S, S = DOMAIN marques[q], NEW d,
         d = [i \in DOMAIN SetToSeq(S) |->
                [quoi |-> "marque", estampille |-> marques[q][SetToSeq(S)[i]], marque |-> SetToSeq(S)[i]]]
  PROVE  Reflet(q, d, {"marque"}, {})
<1> DEFINE o == [x \in S |->
                   [quoi |-> "marque", estampille |-> marques[q][x], marque |-> x]]
<1>1. IsFiniteSet(S) BY DEF IInv, Locale, InscriptionsDe, TableDe
<1>2. \A i \in DOMAIN SetToSeq(S) : SetToSeq(S)[i] \in S BY <1>1, SuiteDe
<1>3. Dite(S, o, d) BY <1>2 DEF Dite
<1>4. \A x \in S :
        /\ o[x].quoi = "marque" /\ o[x].marque = x /\ o[x].estampille = marques[q][x]
  BY <1>1
<1>5. DOMAIN o = S OBVIOUS
<1>6. \A k, v : Tenu(q, "marque", k, v) <=> k \in S /\ v = marques[q][k]
  BY FaitsDe DEF Tenu, Sortes, Premiers, Derniers
<1> HIDE DEF o
<1>7. \A x \in S : \A g, k, v : Dit(o[x], g, k, v) <=> g = "marque" /\ k = x /\ v = marques[q][x]
  BY <1>4 DEF Dit
<1>8. \A x \in S : \A g, k, v : Porte(o[x], g, k, v) <=> Dit(o[x], g, k, v)
  BY <1>4 DEF Porte
<1>9. \A x \in S : OperationSaine(o[x]) /\ \A m : Suppose(o[x], m) => m \in {}
  BY <1>1, <1>4 DEF OperationSaine, Suppose
<1>10. ASSUME NEW x \in S, NEW g, NEW k, NEW v, Porte(o[x], g, k, v)
       PROVE  Tenu(q, g, k, v)
  <2>0. Dit(o[x], g, k, v) BY <1>8, <1>10
  <2>1. g = "marque" /\ k = x /\ v = marques[q][x] BY <2>0, <1>7
  <2>2. Tenu(q, "marque", k, v) BY <2>1, <1>6
  <2> QED BY <2>1, <2>2
<1>11. \A g \in {"marque"} : \A k, v : Tenu(q, g, k, v) => \E x \in S : Dit(o[x], g, k, v)
  BY <1>6, <1>7
<1> QED BY <1>1, <1>3, <1>5, <1>9, <1>10, <1>11, RefletDUneTable

LEMMA RefletDesHebergements ==
  ASSUME IInv, NEW q \in Racine, NEW S, S = DOMAIN hebergements[q], NEW d,
         d = [i \in DOMAIN SetToSeq(S) |->
                [quoi |-> "hebergeur", estampille |-> hebergements[q][SetToSeq(S)[i]].estampille,
                 domaine |-> SetToSeq(S)[i], annuaire |-> hebergements[q][SetToSeq(S)[i]].annuaire]]
  PROVE  Reflet(q, d, {"hebergeur"}, {})
<1> DEFINE o == [x \in S |->
                   [quoi |-> "hebergeur", estampille |-> hebergements[q][x].estampille,
                    domaine |-> x, annuaire |-> hebergements[q][x].annuaire]]
<1>1. /\ IsFiniteSet(S)
      /\ \A x \in S : hebergements[q][x] = [annuaire |-> hebergements[q][x].annuaire,
                                            estampille |-> hebergements[q][x].estampille]
  BY DEF IInv, Locale, InscriptionsDe, TableDe, HebergementDe
<1>2. \A i \in DOMAIN SetToSeq(S) : SetToSeq(S)[i] \in S BY <1>1, SuiteDe
<1>3. Dite(S, o, d) BY <1>2 DEF Dite
<1>4. \A x \in S :
        /\ o[x].quoi = "hebergeur" /\ o[x].domaine = x
           /\ hebergements[q][x] = [annuaire |-> o[x].annuaire, estampille |-> o[x].estampille]
  BY <1>1
<1>5. DOMAIN o = S OBVIOUS
<1>6. \A k, v : Tenu(q, "hebergeur", k, v) <=> k \in S /\ v = hebergements[q][k]
  BY FaitsDe DEF Tenu, Sortes, Premiers, Derniers
<1> HIDE DEF o
<1>7. \A x \in S : \A g, k, v : Dit(o[x], g, k, v) <=> g = "hebergeur" /\ k = x /\ v = hebergements[q][x]
  <2> SUFFICES ASSUME NEW x \in S, NEW g, NEW k, NEW v
               PROVE  Dit(o[x], g, k, v) <=> g = "hebergeur" /\ k = x /\ v = hebergements[q][x]
    OBVIOUS
  <2>1. PICK op : op = o[x] OBVIOUS
  <2>2. PICK w : w = hebergements[q][x] OBVIOUS
  <2>3. /\ op.quoi = "hebergeur" /\ op.domaine = x
        /\ w = [annuaire |-> op.annuaire, estampille |-> op.estampille]
    BY <2>1, <2>2, <1>4
  <2>4. Dit(op, g, k, v) <=> g = "hebergeur" /\ k = x /\ v = w BY <2>3 DEF Dit
  <2> QED BY <2>1, <2>2, <2>4
<1>8. \A x \in S : \A g, k, v : Porte(o[x], g, k, v) <=> Dit(o[x], g, k, v)
  BY <1>4 DEF Porte
<1>9. \A x \in S : OperationSaine(o[x]) /\ \A m : Suppose(o[x], m) => m \in {}
  BY <1>1, <1>4 DEF OperationSaine, Suppose
<1>10. ASSUME NEW x \in S, NEW g, NEW k, NEW v, Porte(o[x], g, k, v)
       PROVE  Tenu(q, g, k, v)
  <2>0. Dit(o[x], g, k, v) BY <1>8, <1>10
  <2>1. g = "hebergeur" /\ k = x /\ v = hebergements[q][x] BY <2>0, <1>7
  <2>2. Tenu(q, "hebergeur", k, v) BY <2>1, <1>6
  <2> QED BY <2>1, <2>2
<1>11. \A g \in {"hebergeur"} : \A k, v : Tenu(q, g, k, v) => \E x \in S : Dit(o[x], g, k, v)
  BY <1>6, <1>7
<1> QED BY <1>1, <1>3, <1>5, <1>9, <1>10, <1>11, RefletDUneTable

LEMMA RefletDesLocateurs ==
  ASSUME IInv, NEW q \in Racine, NEW S, S = DOMAIN locateurs[q], NEW d,
         d = [i \in DOMAIN SetToSeq(S) |->
                [quoi |-> "locateurs", estampille |-> locateurs[q][SetToSeq(S)[i]], membre |-> SetToSeq(S)[i]]]
  PROVE  Reflet(q, d, {"locateurs"}, {})
<1> DEFINE o == [x \in S |->
                   [quoi |-> "locateurs", estampille |-> locateurs[q][x], membre |-> x]]
<1>1. IsFiniteSet(S) BY DEF IInv, Locale, InscriptionsDe, TableDe
<1>2. \A i \in DOMAIN SetToSeq(S) : SetToSeq(S)[i] \in S BY <1>1, SuiteDe
<1>3. Dite(S, o, d) BY <1>2 DEF Dite
<1>4. \A x \in S :
        /\ o[x].quoi = "locateurs" /\ o[x].membre = x /\ o[x].estampille = locateurs[q][x]
  BY <1>1
<1>5. DOMAIN o = S OBVIOUS
<1>6. \A k, v : Tenu(q, "locateurs", k, v) <=> k \in S /\ v = locateurs[q][k]
  BY FaitsDe DEF Tenu, Sortes, Premiers, Derniers
<1> HIDE DEF o
<1>7. \A x \in S : \A g, k, v : Dit(o[x], g, k, v) <=> g = "locateurs" /\ k = x /\ v = locateurs[q][x]
  BY <1>4 DEF Dit
<1>8. \A x \in S : \A g, k, v : Porte(o[x], g, k, v) <=> Dit(o[x], g, k, v)
  BY <1>4 DEF Porte
<1>9. \A x \in S : OperationSaine(o[x]) /\ \A m : Suppose(o[x], m) => m \in {}
  BY <1>1, <1>4 DEF OperationSaine, Suppose
<1>10. ASSUME NEW x \in S, NEW g, NEW k, NEW v, Porte(o[x], g, k, v)
       PROVE  Tenu(q, g, k, v)
  <2>0. Dit(o[x], g, k, v) BY <1>8, <1>10
  <2>1. g = "locateurs" /\ k = x /\ v = locateurs[q][x] BY <2>0, <1>7
  <2>2. Tenu(q, "locateurs", k, v) BY <2>1, <1>6
  <2> QED BY <2>1, <2>2
<1>11. \A g \in {"locateurs"} : \A k, v : Tenu(q, g, k, v) => \E x \in S : Dit(o[x], g, k, v)
  BY <1>6, <1>7
<1> QED BY <1>1, <1>3, <1>5, <1>9, <1>10, <1>11, RefletDUneTable

\* An invitation says nothing.
LEMMA RefletDesInvitations ==
  ASSUME IInv, NEW q \in Racine, NEW S, S = DOMAIN invitations[q], NEW d,
         d = [i \in DOMAIN SetToSeq(S) |->
                [quoi |-> "invitation", invitation |-> SetToSeq(S)[i],
                 estampille |-> IF invitations[q][SetToSeq(S)[i]] = "morte" THEN Aucune
                                  ELSE SetToSeq(S)[i],
                 etat |-> invitations[q][SetToSeq(S)[i]]]]
  PROVE  Reflet(q, d, {}, {})
<1>1. \A i \in DOMAIN d : d[i].quoi = "invitation" OBVIOUS
<1>2. \A i \in DOMAIN d : \A g, k, v : ~Porte(d[i], g, k, v) BY <1>1 DEF Porte, Dit
<1>3. \A i \in DOMAIN d : OperationSaine(d[i]) /\ \A m : ~Suppose(d[i], m)
  BY <1>1 DEF OperationSaine, Suppose
<1> QED BY <1>2, <1>3 DEF Reflet, PortePar, Appuyee

\* The operations of a table, one by one, are a sequence.
LEMMA SuiteDUneTable ==
  ASSUME NEW S, IsFiniteSet(S), NEW d, DOMAIN d = DOMAIN SetToSeq(S),
         d = [i \in DOMAIN d |-> d[i]], NEW T, \A i \in DOMAIN d : d[i] \in T
  PROVE  d \in Seq(T)
<1>1. PICK n \in Nat : DOMAIN SetToSeq(S) = 1..n BY SuiteDe
<1>2. d \in [1..n -> T] BY <1>1
<1> QED BY <1>2

LEMMA RefletDesInscriptions ==
  ASSUME IInv, NEW q \in Racine
  PROVE  Reflet(q, DitsDesInscriptions(q),
                {"declaration", "presentation", "marque", "hebergeur", "locateurs"}, {})
<1> DEFINE S1 == DOMAIN declarations[q]
           S2 == DOMAIN presentations[q]
           S3 == DOMAIN marques[q]
           S4 == DOMAIN hebergements[q]
           S5 == DOMAIN locateurs[q]
           d1 == [i \in DOMAIN SetToSeq(S1) |->
                    [quoi |-> "inscription", estampille |-> SetToSeq(S1)[i],
                     code |-> SetToSeq(S1)[i],
                     enregistrement |-> declarations[q][SetToSeq(S1)[i]]]]
           d2 == [i \in DOMAIN SetToSeq(S2) |->
                    [quoi |-> "presentation", code |-> SetToSeq(S2)[i],
                     estampille |-> presentations[q][SetToSeq(S2)[i]].estampille,
                     enregistrement |-> presentations[q][SetToSeq(S2)[i]]]]
           d3 == [i \in DOMAIN SetToSeq(S3) |->
                    [quoi |-> "marque", estampille |-> marques[q][SetToSeq(S3)[i]],
                     marque |-> SetToSeq(S3)[i]]]
           d4 == [i \in DOMAIN SetToSeq(S4) |->
                    [quoi |-> "hebergeur",
                     estampille |-> hebergements[q][SetToSeq(S4)[i]].estampille,
                     domaine |-> SetToSeq(S4)[i],
                     annuaire |-> hebergements[q][SetToSeq(S4)[i]].annuaire]]
           d5 == [i \in DOMAIN SetToSeq(S5) |->
                    [quoi |-> "locateurs", estampille |-> locateurs[q][SetToSeq(S5)[i]],
                     membre |-> SetToSeq(S5)[i]]]
           T == {d1[i] : i \in DOMAIN d1} \cup {d2[i] : i \in DOMAIN d2}
                  \cup {d3[i] : i \in DOMAIN d3} \cup {d4[i] : i \in DOMAIN d4}
                  \cup {d5[i] : i \in DOMAIN d5}
<1>1. DitsDesInscriptions(q) = d1 \o d2 \o d3 \o d4 \o d5
  BY DEF DitsDesInscriptions, Dits
<1>2. /\ IsFiniteSet(S1) /\ IsFiniteSet(S2) /\ IsFiniteSet(S3)
      /\ IsFiniteSet(S4) /\ IsFiniteSet(S5)
  BY DEF IInv, Locale, InscriptionsDe, TableDe
<1>3. Reflet(q, d1, {"declaration"}, {}) BY RefletDesDeclarations
<1>4. Reflet(q, d2, {"presentation"}, {}) BY RefletDesPresentations
<1>5. Reflet(q, d3, {"marque"}, {}) BY RefletDesMarques
<1>6. Reflet(q, d4, {"hebergeur"}, {}) BY RefletDesHebergements
<1>7. Reflet(q, d5, {"locateurs"}, {}) BY RefletDesLocateurs
<1>8. /\ DOMAIN d1 = DOMAIN SetToSeq(S1) /\ d1 = [i \in DOMAIN d1 |-> d1[i]]
      /\ DOMAIN d2 = DOMAIN SetToSeq(S2) /\ d2 = [i \in DOMAIN d2 |-> d2[i]]
      /\ DOMAIN d3 = DOMAIN SetToSeq(S3) /\ d3 = [i \in DOMAIN d3 |-> d3[i]]
      /\ DOMAIN d4 = DOMAIN SetToSeq(S4) /\ d4 = [i \in DOMAIN d4 |-> d4[i]]
      /\ DOMAIN d5 = DOMAIN SetToSeq(S5) /\ d5 = [i \in DOMAIN d5 |-> d5[i]]
  OBVIOUS
<1> HIDE DEF S1, S2, S3, S4, S5, d1, d2, d3, d4, d5
<1>9. d1 \in Seq(T) /\ d2 \in Seq(T) /\ d3 \in Seq(T) /\ d4 \in Seq(T) /\ d5 \in Seq(T)
  <2>1. /\ \A i \in DOMAIN d1 : d1[i] \in T
        /\ \A i \in DOMAIN d2 : d2[i] \in T
        /\ \A i \in DOMAIN d3 : d3[i] \in T
        /\ \A i \in DOMAIN d4 : d4[i] \in T
        /\ \A i \in DOMAIN d5 : d5[i] \in T
    OBVIOUS
  <2> HIDE DEF T
  <2>2. d1 \in Seq(T) BY <2>1, <1>2, <1>8, SuiteDUneTable
  <2>3. d2 \in Seq(T) BY <2>1, <1>2, <1>8, SuiteDUneTable
  <2>4. d3 \in Seq(T) BY <2>1, <1>2, <1>8, SuiteDUneTable
  <2>5. d4 \in Seq(T) BY <2>1, <1>2, <1>8, SuiteDUneTable
  <2>6. d5 \in Seq(T) BY <2>1, <1>2, <1>8, SuiteDUneTable
  <2> QED BY <2>2, <2>3, <2>4, <2>5, <2>6
<1> HIDE DEF T
<1> DEFINE e2 == d1 \o d2
           e3 == e2 \o d3
           e4 == e3 \o d4
           e5 == e4 \o d5
           G2 == {"declaration"} \cup {"presentation"}
           G3 == G2 \cup {"marque"}
           G4 == G3 \cup {"hebergeur"}
           G5 == G4 \cup {"locateurs"}
<1>10. e2 \in Seq(T) /\ Reflet(q, e2, G2, {}) BY <1>3, <1>4, <1>9, JointeReflets
<1>11. DitsDesInscriptions(q) = e5 BY <1>1
<1>12. G5 = {"declaration", "presentation", "marque", "hebergeur", "locateurs"} OBVIOUS
<1> HIDE DEF e2, G2
<1>13. e3 \in Seq(T) /\ Reflet(q, e3, G3, {}) BY <1>5, <1>9, <1>10, JointeReflets
<1> HIDE DEF e3, G3
<1>14. e4 \in Seq(T) /\ Reflet(q, e4, G4, {}) BY <1>6, <1>9, <1>13, JointeReflets
<1> HIDE DEF e4, G4
<1>15. Reflet(q, e5, G5, {}) BY <1>7, <1>9, <1>14, JointeReflets
<1> QED BY <1>11, <1>12, <1>15

\* The machines of the services that have lost theirs.
Perdues(q) == {s.machine : s \in DOMAIN services[q]} \ DOMAIN machines[q]

\* The whole snapshot, its end frame with it.
LEMMA RefletDeLInstantane ==
  ASSUME IInv, NEW q \in Racine, Saines(q), NEW u, u = Instantane(q) \o <<Fin(q)>>
  PROVE  Reflet(q, u, Sortes, Perdues(q))
<1> DEFINE T == OperationDe(Emise)
           d1 == DitsDesEffaces(q)
           d2 == DitsDesMachines(q)
           d3 == DitsDesInvitations(q)
           d4 == DitsDesServices(q)
           d5 == DitsDesInscriptions(q)
           fin == <<Fin(q)>>
           G1 == {"efface"}
           G2 == G1 \cup {"machine", "nom", "capacites"}
           G3 == G2 \cup ({"ouvert"} \cup {})
           G4 == G3 \cup {"service"}
           G5 == G4 \cup {"declaration", "presentation", "marque", "hebergeur", "locateurs"}
           G6 == G5 \cup {}
           X == {s.machine : s \in DOMAIN services[q]}
           Y == Perdues(q)
<1>1. /\ d1 \in Seq(T) /\ d2 \in Seq(T) /\ d3 \in Seq(T) /\ d4 \in Seq(T)
      /\ d5 \in Seq(T)
  BY DitsEffaces, DitsMachines, DitsInvitations, DitsServices, DitsInscriptions,
     MachinesMuettes, InvitationsMuettes
<1>2. fin \in Seq(T) /\ Reflet(q, fin, {}, {})
  <2>1. Fin(q).estampille \in Emise BY FinEmise DEF IInv, Voies
  <2>2. Fin(q) \in AuxMachines(Emise) BY <2>1 DEF Fin, AuxMachines
  <2>3. Fin(q) \in T BY <2>2 DEF OperationDe
  <2>4. Fin(q).quoi = "fin" BY DEF Fin
  <2>5. PICK op : op = Fin(q) OBVIOUS
  <2> HIDE DEF T
  <2>6. fin \in Seq(T) /\ \A i \in DOMAIN fin : fin[i] = op BY <2>3, <2>5
  <2>7. /\ \A g, k, v : ~Porte(op, g, k, v)
        /\ OperationSaine(op) /\ \A m : ~Suppose(op, m)
    BY <2>4, <2>5 DEF Porte, Dit, OperationSaine, Suppose
  <2> HIDE DEF fin
  <2> QED BY <2>6, <2>7 DEF Reflet, PortePar, Appuyee
<1>3. Reflet(q, d1, G1, Y)
  <2>1. Reflet(q, d1, G1, {}) BY RefletDesEffaces DEF DitsDesEffaces
  <2> QED BY <2>1 DEF Reflet, Appuyee
<1>4. Reflet(q, d2, {"machine", "nom", "capacites"}, {}) BY RefletDesMachines
<1>5. Reflet(q, d3, {"ouvert"} \cup {}, {})
  <2> DEFINE S == ouverts[q]
             R == DOMAIN invitations[q]
             a == [i \in DOMAIN SetToSeq(S) |->
                     [quoi |-> "ouvert", estampille |-> SetToSeq(S)[i].compte,
                      par |-> SetToSeq(S)[i].par, compte |-> SetToSeq(S)[i].compte]]
             b == [i \in DOMAIN SetToSeq(R) |->
                     [quoi |-> "invitation", invitation |-> SetToSeq(R)[i],
                      estampille |-> IF invitations[q][SetToSeq(R)[i]] = "morte" THEN Aucune
                                       ELSE SetToSeq(R)[i],
                      etat |-> invitations[q][SetToSeq(R)[i]]]]
             U == {a[i] : i \in DOMAIN a} \cup {b[i] : i \in DOMAIN b}
  <2>1. d3 = a \o b BY DEF DitsDesInvitations
  <2>2. IsFiniteSet(S) /\ IsFiniteSet(R) BY DEF IInv, Locale, InvitationsDe, TableDe
  <2>3. Reflet(q, a, {"ouvert"}, {}) BY RefletDesOuverts
  <2>4. Reflet(q, b, {}, {}) BY RefletDesInvitations
  <2>5. /\ DOMAIN a = DOMAIN SetToSeq(S) /\ a = [i \in DOMAIN a |-> a[i]]
        /\ DOMAIN b = DOMAIN SetToSeq(R) /\ b = [i \in DOMAIN b |-> b[i]]
    OBVIOUS
  <2> HIDE DEF S, R, a, b, d3
  <2>6. (\A i \in DOMAIN a : a[i] \in U) /\ (\A i \in DOMAIN b : b[i] \in U) OBVIOUS
  <2> HIDE DEF U
  <2>7. a \in Seq(U) BY <2>2, <2>5, <2>6, SuiteDUneTable
  <2>8. b \in Seq(U) BY <2>2, <2>5, <2>6, SuiteDUneTable
  <2> QED BY <2>1, <2>3, <2>4, <2>7, <2>8, JointeReflets
<1>6. Reflet(q, d4, {"service"}, X) BY RefletDesServices DEF DitsDesServices
<1>7. Reflet(q, d5, {"declaration", "presentation", "marque", "hebergeur", "locateurs"}, {})
  BY RefletDesInscriptions
<1>8. Relie(q, G3, X, Y)
  <2>1. \A m \in DOMAIN machines[q] : \E c : Tenu(q, "machine", m, c)
    BY FaitsDe DEF Tenu, Sortes
  <2>2. \A m \in X : m \in Y \/ m \in DOMAIN machines[q] BY DEF Perdues
  <2> QED BY <2>1, <2>2 DEF Relie
<1>9. u = ((((d1 \o d2) \o d3) \o d4) \o d5) \o fin BY DEF Instantane
<1>10. G6 = Sortes BY DEF Sortes, Premiers, Derniers
<1> HIDE DEF T, d1, d2, d3, d4, d5, fin, X, Y, G1
<1> DEFINE e2 == d1 \o d2
           e3 == e2 \o d3
           e4 == e3 \o d4
           e5 == e4 \o d5
           e6 == e5 \o fin
<1>11. u = e6 BY <1>9
<1>12. e2 \in Seq(T) /\ Reflet(q, e2, G2, Y) BY <1>1, <1>3, <1>4, JointeReflets
<1> HIDE DEF e2, G2
<1>13. e3 \in Seq(T) /\ Reflet(q, e3, G3, Y) BY <1>1, <1>5, <1>12, JointeReflets
<1> HIDE DEF e3, G3
<1>14. e4 \in Seq(T) /\ Reflet(q, e4, G4, Y)
  <2>1. PICK t : t = e3 \o d4 OBVIOUS
  <2>2. PICK H : H = {"service"} OBVIOUS
  <2>3. Reflet(q, d4, H, X) BY <1>6, <2>2
  <2>4. t \in Seq(T) /\ Reflet(q, t, G3 \cup H, Y)
    BY <1>1, <1>8, <1>13, <2>1, <2>3, JointeReflet
  <2> QED BY <2>1, <2>2, <2>4
<1> HIDE DEF e4, G4
<1>15. e5 \in Seq(T) /\ Reflet(q, e5, G5, Y) BY <1>1, <1>7, <1>14, JointeReflets
<1> HIDE DEF e5, G5
<1>16. Reflet(q, e6, G6, Y) BY <1>2, <1>15, JointeReflets
<1> QED BY <1>10, <1>11, <1>16 DEF Y

\* A snapshot tells what its author holds, and what it held before.
LEMMA AccordAmorce ==
  ASSUME IInv, IInv', Accord, Attaches, NEW r \in Racine, Amorcer(r)
  PROVE  Accord' /\ Ancien
<1> DEFINE p == Pair[r]
           u == Instantane(p) \o <<Fin(p)>>
<1>1. /\ p \in Racine /\ p # r /\ Pair[p] = r /\ \A q \in Racine : Pair[q] \in Racine
      /\ \A q \in Racine : Pair[q] = r <=> q = p
  BY DeuxRacines
<1>2. enRoute'[r] = u /\ \A q \in Racine : q # r => enRoute'[q] = enRoute[q]
  BY DEF Amorcer, AmorcerPar, IInv, Voies
<1>3. UNCHANGED <<tablesDesMachines, ouverts, tablesDesInscriptions>> /\ compteur' = compteur
  BY DEF Amorcer, AmorcerPar, tables, tablesDesInvitations
<1>4. ASSUME NEW q \in Racine
      PROVE  MemesMachines(q) /\ ouverts'[q] = ouverts[q] /\ MemesInscriptions(q)
  BY <1>3 DEF MemesMachines, MemesInscriptions, tablesDesMachines, tablesDesInscriptions
<1>5. Reflet(p, u, Sortes, Perdues(p)) BY <1>1, RefletDeLInstantane DEF Accord
<1> HIDE DEF p, u
<1>6. Emise \subseteq Emise' BY <1>3 DEF Emise
<1>7. \A q \in Racine : Progres(q) /\ \A g, k, v : Tenu(q, g, k, v)' <=> Tenu(q, g, k, v)
  BY <1>4, MemesProgres
<1>8. ASSUME NEW g, NEW k, NEW v, PortePar(u, g, k, v)
      PROVE  Tenu(p, g, k, v) \/ Naissance(p, g, k, v)
  BY <1>5, <1>8 DEF Reflet
<1>9. ASSUME NEW g, NEW k, NEW v, Vu(g, k, v)' PROVE Vu(g, k, v) \/ Naissance(p, g, k, v)
  <2>1. PICK q \in Racine : Tenu(q, g, k, v)' \/ PortePar(enRoute'[q], g, k, v)
    BY <1>9, VuApres
  <2>2. CASE Tenu(q, g, k, v)' BY <2>2, <1>7 DEF Vu
  <2>3. CASE PortePar(enRoute'[q], g, k, v) BY <2>3, <1>1, <1>2, <1>8 DEF Vu
  <2> QED BY <2>1, <2>2, <2>3
<1>10. Ancien BY <1>9 DEF Ancien, Naissance
<1>11. ASSUME NEW q \in Racine, NEW g, NEW k, NEW v, Vu(g, k, v), Su(q, g, k, v)
       PROVE  Su(q, g, k, v)'
  BY <1>6, <1>7, <1>10, <1>11, SuReste DEF Accord
<1>12. ASSUME NEW g, NEW k, NEW v, Tenu(p, g, k, v) PROVE Su(p, g, k, v)'
  <2>1. Date(g, k, v) BY <1>1, <1>12, TenusDates
  <2>2. Vaut(g, v, v) BY <2>1, VautSoi DEF Date, Emise
  <2>3. Su(p, g, k, v) BY <1>12, <2>2 DEF Su, Tenu
  <2> QED BY <2>3, <1>1, <1>11, <1>12 DEF Vu
<1>13. ASSUME NEW g, NEW k, NEW v, Naissance(p, g, k, v) PROVE Su(p, g, k, v)'
  <2>1. g \in {"nom", "capacites"} /\ k \in DOMAIN machines[p] /\ v = k BY <1>13 DEF Naissance
  <2>2. Saine(k, machines[p][k]) BY <2>1, <1>1 DEF Accord, Saines
  <2>3. machines'[p] = machines[p] BY <1>1, <1>4 DEF MemesMachines
  <2>4. PICK a : a = Faits(p, g)'[k] OBVIOUS
  <2>5. k \in DOMAIN Faits(p, g)' /\ ~Avant(a, v)
    BY <2>1, <2>2, <2>3, <2>4, FaitsDeApres DEF Saine
  <2>6. Vaut(g, a, v) BY <2>1, <2>5 DEF Vaut, Rang, Premiers
  <2> QED BY <2>4, <2>5, <2>6 DEF Su
<1>14. Unicite'
  <2> SUFFICES ASSUME NEW g \in Uniques, NEW k, NEW v, NEW w,
                      Vu(g, k, v)', Vu(g, k, w)', Origine(g, k, v) = Origine(g, k, w)
               PROVE  v = w
    BY DEF Unicite, Uniques, Origine
  <2>1. \A x : ~Naissance(p, g, k, x) BY DEF Naissance, Uniques
  <2> QED BY <2>1, <1>9 DEF Accord, Unicite
<1>15. ASSUME NEW q \in Racine PROVE Verite(q)'
  <2> SUFFICES ASSUME NEW g, NEW k, NEW v, PortePar(enRoute'[q], g, k, v)
               PROVE  Su(Pair[q], g, k, v)'
    BY DEF Verite, PortePar, Porte, Dit
  <2>1. CASE q # r BY <2>1, <1>1, <1>2, <1>11 DEF Vu, Accord, Verite
  <2>2. CASE q = r BY <2>2, <1>2, <1>8, <1>12, <1>13 DEF p
  <2> QED BY <2>1, <2>2
<1>16. ASSUME NEW q \in Racine PROVE Couverture(q)'
  <2> SUFFICES ASSUME NEW g, NEW k, NEW v, Tenu(Pair[q], g, k, v)'
               PROVE  Su(q, g, k, v)' \/ DitPar(enRoute'[q], g, k, v)
    BY DEF Couverture, DitPar, Dit
  <2>1. Tenu(Pair[q], g, k, v) BY <1>1, <1>7
  <2>2. CASE q # r
    <3>1. Vu(g, k, v) BY <2>1, <1>1 DEF Vu
    <3>2. Su(q, g, k, v) \/ DitPar(enRoute[q], g, k, v) BY <2>1 DEF Accord, Couverture
    <3> QED BY <3>1, <3>2, <2>2, <1>2, <1>11
  <2>3. CASE q = r
    <3>1. Tenu(p, g, k, v) /\ g \in Sortes BY <2>1, <2>3 DEF p, Tenu
    <3>2. DitPar(u, g, k, v) BY <3>1, <1>5 DEF Reflet
    <3> QED BY <3>2, <2>3, <1>2
  <2> QED BY <2>2, <2>3
<1>17. ASSUME NEW q \in Racine, NEW i \in DOMAIN enRoute'[q] PROVE Precedee(q, i)'
  <2> SUFFICES ASSUME NEW m, Suppose(enRoute'[q][i], m)
               PROVE  \/ Connu(q, m)'
                      \/ \E j \in 1..(i-1) : \E c : Dit(enRoute'[q][j], "machine", m, c)
    BY DEF Precedee, Suppose, Dit
  <2>1. CASE q # r
    <3>1. enRoute'[q] = enRoute[q] BY <2>1, <1>2
    <3>2. i \in DOMAIN enRoute[q] /\ Suppose(enRoute[q][i], m) BY <3>1
    <3>3. m \in Emise BY <3>2, EnRouteType, ChampsDits DEF Suppose
    <3>4. Connu(q, m) \/ \E j \in 1..(i-1) : \E c : Dit(enRoute[q][j], "machine", m, c)
      BY <3>2 DEF Accord, Precedee
    <3>5. Connu(q, m) => Connu(q, m)' BY <3>3, <1>7, <1>10, ConnuReste DEF Accord
    <3> QED BY <3>1, <3>4, <3>5
  <2>2. CASE q = r
    <3>1. enRoute'[q] = u BY <2>2, <1>2
    <3>2. CASE m \in Perdues(p)
      <4>1. m \in Nommees(p) /\ m \notin DOMAIN machines[p] BY <3>2 DEF Perdues, Nommees
      <4>0. Delaisse(q, m) BY <2>2, <4>1, <1>1 DEF Attaches, Attachees, Abandonnee
      <4>2. m \in Emise BY <3>2, <1>1 DEF Perdues, IInv, Locale, MachinesDe, TableDe
      <4>3. Connu(q, m)' BY <4>0, <4>2, <1>7, <1>10, ConnuReste DEF Accord, Connu
      <4> QED BY <4>3
    <3> QED BY <3>1, <3>2, <1>5 DEF Reflet, Appuyee
  <2> QED BY <2>1, <2>2
<1>18. ASSUME NEW q \in Racine PROVE Saines(q)'
  <2>1. \A m \in DOMAIN machines'[q] : Saine(m, machines'[q][m])
    BY <1>4 DEF MemesMachines, Accord, Saines
  <2>2. \A i \in DOMAIN enRoute'[q] : OperationSaine(enRoute'[q][i])
    <3>1. \A i \in DOMAIN u : OperationSaine(u[i]) BY <1>5 DEF Reflet
    <3>2. \A i \in DOMAIN enRoute[q] : OperationSaine(enRoute[q][i]) BY DEF Accord, Saines
    <3> QED BY <3>1, <3>2, <1>2
  <2> QED BY <2>1, <2>2 DEF Saines, Saine, OperationSaine
<1> QED BY <1>10, <1>14, <1>15, <1>16, <1>17, <1>18 DEF Accord

-----------------------------------------------------------------------------
(* Each operation makes known what it says, and takes nothing back.        *)

\* What a root holds, it knows.
TousSus == \A q \in Racine : \A g, k, v : Tenu(q, g, k, v) => Su(q, g, k, v)

LEMMA TenusSus == IInv => TousSus
<1> SUFFICES ASSUME IInv, NEW q \in Racine, NEW g, NEW k, NEW v, Tenu(q, g, k, v)
             PROVE  Su(q, g, k, v)
  BY DEF TousSus
<1>1. Date(g, k, v) BY TenusDates
<1>2. Vaut(g, v, v) BY <1>1, VautSoi DEF Date, Emise
<1> QED BY <1>2 DEF Su, Tenu

LEMMA TenusSusApres == IInv' => TousSus'
BY TenusSus, PTL

\* A row that stays as it is.
LEMMA RangeeReste ==
  ASSUME IInv, NEW q \in Racine, NEW g \in Sortes, NEW k \in DOMAIN Faits(q, g),
         k \in DOMAIN Faits(q, g)', Faits(q, g)'[k] = Faits(q, g)[k]
  PROVE  Reste(q, g, k)
<1>0. PICK b : b = Faits(q, g)[k] OBVIOUS
<1>1. Date(g, k, b) BY <1>0, TenusDates DEF Tenu
<1>2. Vaut(g, b, b) BY <1>1, VautSoi DEF Date, Emise
<1> QED BY <1>0, <1>2 DEF Reste

\* The operation says one fact.
DitSeulement(op, s, c, v) == \A g, k, w : Dit(op, g, k, w) <=> g = s /\ k = c /\ w = v

\* One row changes, the one the operation is about, by the rule of its kind.
LEMMA UneRangeeChange ==
  ASSUME IInv, Accord, NEW r \in Racine, NEW op, NEW s \in Sortes, NEW c, NEW v,
         DitSeulement(op, s, c, v),
         effaces'[r] = effaces[r], machines'[r] = machines[r],
         \A g \in Sortes \ {s} : Faits(r, g)' = Faits(r, g),
         NEW f, f = Faits(r, s), NEW h, h = Faits(r, s)',
         DOMAIN h = DOMAIN f \cup {c}, \A k \in DOMAIN f \ {c} : h[k] = f[k],
         h[c] = v \/ (c \in DOMAIN f /\ h[c] = f[c]),
         Vaut(s, h[c], v), c \in DOMAIN f => Vaut(s, h[c], f[c])
  PROVE  Reception(r, op)
<1>1. ASSUME NEW g \in Sortes, NEW k \in DOMAIN Faits(r, g) PROVE Reste(r, g, k)
  <2>1. CASE g # s
    <3>1. Faits(r, g)' = Faits(r, g) BY <2>1
    <3> QED BY <3>1, RangeeReste
  <2>2. CASE g = s /\ k # c
    <3>1. k \in DOMAIN f /\ k \in DOMAIN h /\ h[k] = f[k] BY <1>1, <2>2
    <3>2. Faits(r, g)' = h /\ Faits(r, g) = f BY <2>2
    <3> QED BY <3>1, <3>2, RangeeReste
  <2>3. CASE g = s /\ k = c
    <3>1. Faits(r, g)' = h /\ Faits(r, g) = f BY <2>3
    <3>2. c \in DOMAIN f BY <1>1, <2>3
    <3>3. c \in DOMAIN h /\ Vaut(s, h[c], f[c]) BY <3>2
    <3> QED BY <2>3, <3>1, <3>3 DEF Reste
  <2> QED BY <2>1, <2>2, <2>3
<1>2. ASSUME NEW g, NEW k, NEW w, Tenu(r, g, k, w)'
      PROVE  Tenu(r, g, k, w) \/ Porte(op, g, k, w)
  <2>1. g \in Sortes /\ k \in DOMAIN Faits(r, g)' /\ w = Faits(r, g)'[k]
    BY <1>2 DEF Tenu, Sortes, Premiers, Derniers
  <2>2. CASE g # s
    <3>1. Faits(r, g)' = Faits(r, g) BY <2>1, <2>2
    <3> QED BY <2>1, <3>1 DEF Tenu
  <2>3. CASE g = s
    <3>1. Faits(r, g)' = h /\ Faits(r, g) = f BY <2>3
    <3>2. k \in DOMAIN h /\ w = h[k] BY <2>1, <3>1
    <3>3. CASE k \in DOMAIN f /\ w = f[k] BY <2>1, <3>1, <3>3 DEF Tenu
    <3>4. CASE k = c /\ w = v BY <2>3, <3>4 DEF Porte, DitSeulement
    <3> QED BY <3>2, <3>3, <3>4
  <2> QED BY <2>2, <2>3
<1>3. ASSUME NEW g, NEW k, NEW w, Dit(op, g, k, w) PROVE Su(r, g, k, w)'
  <2>1. g = s /\ k = c /\ w = v BY <1>3 DEF DitSeulement
  <2>2. Faits(r, g)' = h BY <2>1
  <2>3. k \in DOMAIN h /\ Vaut(g, h[k], w) BY <2>1
  <2> QED BY <2>2, <2>3 DEF Su
<1>4. \A m \in DOMAIN machines'[r] : Saine(m, machines'[r][m]) BY DEF Accord, Saines
<1>5. Progres(r) BY <1>1 DEF Progres
<1> QED BY <1>2, <1>3, <1>4, <1>5 DEF Reception

\* Nothing changes: what the operation says is known.
LEMMA RienNeChange ==
  ASSUME IInv, Accord, NEW r \in Racine, NEW op, MemesMachines(r), ouverts'[r] = ouverts[r],
         MemesInscriptions(r), Ancien => \A g, k, v : Dit(op, g, k, v) => Su(r, g, k, v)'
  PROVE  Reception(r, op)
<1>1. Progres(r) /\ \A g, k, v : Tenu(r, g, k, v)' => Tenu(r, g, k, v) BY MemesProgres
<1>2. \A m \in DOMAIN machines'[r] : Saine(m, machines'[r][m])
  BY DEF MemesMachines, Accord, Saines
<1> QED BY <1>1, <1>2 DEF Reception

-----------------------------------------------------------------------------
(* Inscriptions.                                                           *)

\* The table of another kind.
LEMMA AutresFaits ==
  ASSUME NEW q, NEW s \in Sortes,
         s # "efface" => effaces'[q] = effaces[q],
         s # "ouvert" => ouverts'[q] = ouverts[q],
         s # "declaration" => declarations'[q] = declarations[q],
         s # "presentation" => presentations'[q] = presentations[q],
         s # "marque" => marques'[q] = marques[q],
         s # "hebergeur" => hebergements'[q] = hebergements[q],
         s # "locateurs" => locateurs'[q] = locateurs[q],
         machines'[q] = machines[q],
         s # "service" => services'[q] = services[q]
  PROVE  \A g \in Sortes \ {s} : Faits(q, g)' = Faits(q, g)
<1>1. s # "efface" => Faits(q, "efface")' = Faits(q, "efface") BY FaitsDe, FaitsDeApres
<1>2. s # "ouvert" => Faits(q, "ouvert")' = Faits(q, "ouvert") BY FaitsDe, FaitsDeApres
<1>3. s # "declaration" => Faits(q, "declaration")' = Faits(q, "declaration")
  BY FaitsDe, FaitsDeApres
<1>4. s # "presentation" => Faits(q, "presentation")' = Faits(q, "presentation")
  BY FaitsDe, FaitsDeApres
<1>5. s # "marque" => Faits(q, "marque")' = Faits(q, "marque") BY FaitsDe, FaitsDeApres
<1>6. s # "hebergeur" => Faits(q, "hebergeur")' = Faits(q, "hebergeur")
  BY FaitsDe, FaitsDeApres
<1>7. s # "locateurs" => Faits(q, "locateurs")' = Faits(q, "locateurs")
  BY FaitsDe, FaitsDeApres
<1>8. /\ Faits(q, "machine")' = Faits(q, "machine") /\ Faits(q, "nom")' = Faits(q, "nom")
      /\ Faits(q, "capacites")' = Faits(q, "capacites")
  BY DEF Faits
<1>9. s # "service" => Faits(q, "service")' = Faits(q, "service") BY FaitsDe, FaitsDeApres
<1>10. ASSUME NEW g \in Sortes \ {s} PROVE Faits(q, g)' = Faits(q, g)
  BY <1>1, <1>2, <1>3, <1>4, <1>5, <1>6, <1>7, <1>8, <1>9, <1>10
     DEF Sortes, Premiers, Derniers
<1> QED BY <1>10

\* A code is inserted if absent.
LEMMA InscriptionRecue ==
  ASSUME IInv, Accord, NEW r \in Racine, NEW op, op.quoi = "inscription",
         AppliquerInscription(r, op), MemesMachines(r), ouverts'[r] = ouverts[r]
  PROVE  Reception(r, op)
<1> DEFINE f == declarations[r]
           h == declarations'[r]
           c == op.code
           v == op.enregistrement
<1>1. DitSeulement(op, "declaration", c, v) BY DEF DitSeulement, Dit
<1>2. \A g \in Sortes \ {"declaration"} : Faits(r, g)' = Faits(r, g)
  BY AutresFaits DEF AppliquerInscription, MemesMachines, Sortes
<1>3. Faits(r, "declaration") = f /\ Faits(r, "declaration")' = h BY FaitsDe, FaitsDeApres
<1>4. h = Garder(f, c, v) BY DEF AppliquerInscription, IInv, Racines
<1>5. effaces'[r] = effaces[r] /\ machines'[r] = machines[r] /\ "declaration" \in Sortes
  BY DEF MemesMachines, Sortes
<1>6. \A a, b : Vaut("declaration", a, b) BY DEF Vaut, Premiers, Derniers
<1> HIDE DEF f, h, c, v
<1>7. /\ DOMAIN h = DOMAIN f \cup {c} /\ \A k \in DOMAIN f \ {c} : h[k] = f[k]
      /\ h[c] = v \/ (c \in DOMAIN f /\ h[c] = f[c])
  BY <1>4 DEF Garder, Poser
<1> QED BY <1>1, <1>2, <1>3, <1>5, <1>6, <1>7, UneRangeeChange

\* The first presentation stays.
LEMMA PresentationRecue ==
  ASSUME IInv, Accord, NEW r \in Racine, NEW op, op.quoi = "presentation",
         op.enregistrement.estampille \in Estampille,
         AppliquerPresentation(r, op), MemesMachines(r), ouverts'[r] = ouverts[r]
  PROVE  Reception(r, op)
<1> DEFINE f == presentations[r]
           h == presentations'[r]
           c == op.code
           v == op.enregistrement
           s == "presentation"
<1>1. DitSeulement(op, s, c, v) BY DEF DitSeulement, Dit
<1>2. \A g \in Sortes \ {s} : Faits(r, g)' = Faits(r, g)
  BY AutresFaits DEF AppliquerPresentation, MemesMachines, Sortes, Premiers
<1>3. Faits(r, s) = f /\ Faits(r, s)' = h BY FaitsDe, FaitsDeApres
<1>4. h = IF c \in DOMAIN f /\ ~Avant(v.estampille, f[c].estampille) THEN f ELSE Poser(f, c, v)
  BY DEF AppliquerPresentation, IInv, Racines
<1>5. effaces'[r] = effaces[r] /\ machines'[r] = machines[r] /\ s \in Sortes
  BY DEF MemesMachines, Sortes, Premiers
<1>6. \A a, b : Vaut(s, a, b) <=> ~Avant(b.estampille, a.estampille)
  BY DEF Vaut, Premiers, Derniers, Rang
<1>7. c \in DOMAIN f => f[c].estampille \in Estampille
  BY DEF IInv, Locale, InscriptionsDe, TableDe, PresentationDe, Emise
<1> HIDE DEF f, h, c, s
<1>8. /\ DOMAIN h = DOMAIN f \cup {c} /\ \A k \in DOMAIN f \ {c} : h[k] = f[k]
      /\ h[c] = v \/ (c \in DOMAIN f /\ h[c] = f[c])
  BY <1>4 DEF Poser
<1>9. Vaut(s, h[c], v) /\ (c \in DOMAIN f => Vaut(s, h[c], f[c]))
  <2>1. CASE c \in DOMAIN f /\ ~Avant(v.estampille, f[c].estampille)
    BY <2>1, <1>4, <1>6, <1>7, OrdreTotal
  <2>2. CASE c \in DOMAIN f /\ Avant(v.estampille, f[c].estampille)
    BY <2>2, <1>4, <1>6, <1>7, OrdreTotal DEF Poser
  <2>3. CASE c \notin DOMAIN f
    BY <2>3, <1>4, <1>6, OrdreTotal DEF Poser
  <2> QED BY <2>1, <2>2, <2>3
<1> QED BY <1>1, <1>2, <1>3, <1>5, <1>8, <1>9, UneRangeeChange

\* The first mark of a kind stays.
LEMMA MarqueRecue ==
  ASSUME IInv, Accord, NEW r \in Racine, NEW op, op.quoi = "marque",
         op.estampille \in Estampille,
         AppliquerMarque(r, op), MemesMachines(r), ouverts'[r] = ouverts[r]
  PROVE  Reception(r, op)
<1> DEFINE f == marques[r]
           h == marques'[r]
           c == op.marque
           v == op.estampille
           s == "marque"
<1>1. DitSeulement(op, s, c, v) BY DEF DitSeulement, Dit
<1>2. \A g \in Sortes \ {s} : Faits(r, g)' = Faits(r, g)
  BY AutresFaits DEF AppliquerMarque, MemesMachines, Sortes, Premiers
<1>3. Faits(r, s) = f /\ Faits(r, s)' = h BY FaitsDe, FaitsDeApres
<1>4. h = Marquer(f, c, v) BY DEF AppliquerMarque, IInv, Racines
<1>5. effaces'[r] = effaces[r] /\ machines'[r] = machines[r] /\ s \in Sortes
  BY DEF MemesMachines, Sortes, Premiers
<1>6. \A a, b : Vaut(s, a, b) <=> ~Avant(b, a)
  BY DEF Vaut, Premiers, Derniers, Rang
<1>7. (c \in DOMAIN f => f[c] \in Estampille) /\ v \in Estampille
  BY DEF IInv, Locale, InscriptionsDe, TableDe, Emise
<1>8. f = [x \in DOMAIN f |-> f[x]] BY DEF IInv, Locale, InscriptionsDe, TableDe
<1> HIDE DEF f, h, c, s, v
<1>9. /\ DOMAIN h = DOMAIN f \cup {c} /\ \A k \in DOMAIN f \ {c} : h[k] = f[k]
      /\ h[c] = IF c \in DOMAIN f THEN PlusTot(f[c], v) ELSE v
  BY <1>4, <1>8 DEF Marquer, Poser
<1>10. h[c] = v \/ (c \in DOMAIN f /\ h[c] = f[c]) BY <1>9 DEF PlusTot
<1>11. Vaut(s, h[c], v) /\ (c \in DOMAIN f => Vaut(s, h[c], f[c]))
  BY <1>6, <1>7, <1>9, OrdreTotal DEF PlusTot
<1> QED BY <1>1, <1>2, <1>3, <1>5, <1>9, <1>10, <1>11, UneRangeeChange

\* The last host of a domain stays.
LEMMA HebergementRecu ==
  ASSUME IInv, Accord, NEW r \in Racine, NEW op, op.quoi = "hebergeur",
         op.estampille \in Estampille,
         AppliquerHebergement(r, op), MemesMachines(r), ouverts'[r] = ouverts[r]
  PROVE  Reception(r, op)
<1> DEFINE f == hebergements[r]
           h == hebergements'[r]
           c == op.domaine
           v == [annuaire |-> op.annuaire, estampille |-> op.estampille]
           s == "hebergeur"
<1>1. DitSeulement(op, s, c, v) BY DEF DitSeulement, Dit
<1>2. \A g \in Sortes \ {s} : Faits(r, g)' = Faits(r, g)
  BY AutresFaits DEF AppliquerHebergement, MemesMachines, Sortes, Derniers
<1>3. Faits(r, s) = f /\ Faits(r, s)' = h BY FaitsDe, FaitsDeApres
<1>4. h = IF c \in DOMAIN f /\ ~Avant(f[c].estampille, v.estampille) THEN f ELSE Poser(f, c, v)
  BY DEF AppliquerHebergement, IInv, Racines
<1>5. effaces'[r] = effaces[r] /\ machines'[r] = machines[r] /\ s \in Sortes
  BY DEF MemesMachines, Sortes, Derniers
<1>6. \A a, b : Vaut(s, a, b) <=> ~Avant(a.estampille, b.estampille)
  BY DEF Vaut, Premiers, Derniers, Rang
<1>7. (c \in DOMAIN f => f[c].estampille \in Estampille) /\ v.estampille \in Estampille
  BY DEF IInv, Locale, InscriptionsDe, TableDe, HebergementDe, Emise
<1> HIDE DEF f, h, c, s, v
<1>8. /\ DOMAIN h = DOMAIN f \cup {c} /\ \A k \in DOMAIN f \ {c} : h[k] = f[k]
      /\ h[c] = v \/ (c \in DOMAIN f /\ h[c] = f[c])
  BY <1>4 DEF Poser
<1>9. Vaut(s, h[c], v) /\ (c \in DOMAIN f => Vaut(s, h[c], f[c]))
  <2>1. CASE c \in DOMAIN f /\ ~Avant(f[c].estampille, v.estampille)
    BY <2>1, <1>4, <1>6, <1>7, OrdreTotal
  <2>2. CASE c \in DOMAIN f /\ Avant(f[c].estampille, v.estampille)
    BY <2>2, <1>4, <1>6, <1>7, OrdreTotal DEF Poser
  <2>3. CASE c \notin DOMAIN f
    BY <2>3, <1>4, <1>6, <1>7, OrdreTotal DEF Poser
  <2> QED BY <2>1, <2>2, <2>3
<1> QED BY <1>1, <1>2, <1>3, <1>5, <1>8, <1>9, UneRangeeChange

\* The last locators of a member stay.
LEMMA LocateursRecus ==
  ASSUME IInv, Accord, NEW r \in Racine, NEW op, op.quoi = "locateurs",
         op.estampille \in Estampille,
         AppliquerLocateurs(r, op), MemesMachines(r), ouverts'[r] = ouverts[r]
  PROVE  Reception(r, op)
<1> DEFINE f == locateurs[r]
           h == locateurs'[r]
           c == op.membre
           v == op.estampille
           s == "locateurs"
<1>1. DitSeulement(op, s, c, v) BY DEF DitSeulement, Dit
<1>2. \A g \in Sortes \ {s} : Faits(r, g)' = Faits(r, g)
  BY AutresFaits DEF AppliquerLocateurs, MemesMachines, Sortes, Derniers
<1>3. Faits(r, s) = f /\ Faits(r, s)' = h BY FaitsDe, FaitsDeApres
<1>4. h = IF c \in DOMAIN f /\ ~Avant(f[c], v) THEN f ELSE Poser(f, c, v)
  BY DEF AppliquerLocateurs, IInv, Racines
<1>5. effaces'[r] = effaces[r] /\ machines'[r] = machines[r] /\ s \in Sortes
  BY DEF MemesMachines, Sortes, Derniers
<1>6. \A a, b : Vaut(s, a, b) <=> ~Avant(a, b)
  BY DEF Vaut, Premiers, Derniers, Rang
<1>7. (c \in DOMAIN f => f[c] \in Estampille) /\ v \in Estampille
  BY DEF IInv, Locale, InscriptionsDe, TableDe, Emise
<1> HIDE DEF f, h, c, s, v
<1>8. /\ DOMAIN h = DOMAIN f \cup {c} /\ \A k \in DOMAIN f \ {c} : h[k] = f[k]
      /\ h[c] = v \/ (c \in DOMAIN f /\ h[c] = f[c])
  BY <1>4 DEF Poser
<1>9. Vaut(s, h[c], v) /\ (c \in DOMAIN f => Vaut(s, h[c], f[c]))
  <2>1. CASE c \in DOMAIN f /\ ~Avant(f[c], v)
    BY <2>1, <1>4, <1>6, <1>7, OrdreTotal
  <2>2. CASE c \in DOMAIN f /\ Avant(f[c], v)
    BY <2>2, <1>4, <1>6, <1>7, OrdreTotal DEF Poser
  <2>3. CASE c \notin DOMAIN f
    BY <2>3, <1>4, <1>6, <1>7, OrdreTotal DEF Poser
  <2> QED BY <2>1, <2>2, <2>3
<1> QED BY <1>1, <1>2, <1>3, <1>5, <1>8, <1>9, UneRangeeChange

LEMMA InscriptionsRecues ==
  ASSUME IInv, Accord, NEW r \in Racine, NEW E, E \subseteq Estampille,
         NEW op \in AuxInscriptions(E), AppliquerAuxInscriptions(r, op), MemesMachines(r),
         ouverts'[r] = ouverts[r]
  PROVE  Reception(r, op)
<1>1. op.quoi = "presentation" => op.enregistrement.estampille \in E
  BY ChampsInscriptions DEF PresentationDe
<1>2. op.estampille \in E BY ChampsInscriptions
<1> QED BY <1>1, <1>2, InscriptionRecue, PresentationRecue, MarqueRecue, HebergementRecu,
           LocateursRecus DEF AppliquerAuxInscriptions

-----------------------------------------------------------------------------
(* Accounts opened, machines, services.                                    *)

LEMMA OuvertRecu ==
  ASSUME IInv, Accord, NEW r \in Racine, NEW op, op.quoi = "ouvert",
         ouverts'[r] = ouverts[r] \cup {[par |-> op.par, compte |-> op.compte]},
         MemesMachines(r), MemesInscriptions(r)
  PROVE  Reception(r, op)
<1> DEFINE c == [par |-> op.par, compte |-> op.compte]
           X == ouverts[r]
           f == [a \in X |-> a]
           h == [a \in X \cup {c} |-> a]
           s == "ouvert"
<1>1. DitSeulement(op, s, c, c) BY DEF DitSeulement, Dit
<1>2. \A g \in Sortes \ {s} : Faits(r, g)' = Faits(r, g)
  BY AutresFaits DEF MemesInscriptions, MemesMachines, Sortes
<1>3. ouverts'[r] = X \cup {c} OBVIOUS
<1>4. Faits(r, s) = f /\ Faits(r, s)' = h
  <2>1. Faits(r, s) = f BY FaitsDe
  <2>2. Faits(r, s)' = [a \in ouverts'[r] |-> a] BY FaitsDeApres
  <2> QED BY <2>1, <2>2, <1>3
<1>5. effaces'[r] = effaces[r] /\ machines'[r] = machines[r] /\ s \in Sortes
  BY DEF MemesMachines, Sortes
<1>6. \A a, b : Vaut(s, a, b) BY DEF Vaut, Premiers, Derniers
<1> HIDE DEF c, X, s
<1>7. /\ DOMAIN h = DOMAIN f \cup {c} /\ \A k \in DOMAIN f \ {c} : h[k] = f[k]
      /\ h[c] = c
  OBVIOUS
<1> HIDE DEF f, h
<1> QED BY <1>1, <1>2, <1>4, <1>5, <1>6, <1>7, UneRangeeChange

\* A machine that is new here.
LEMMA MachinePosee ==
  ASSUME IInv, Accord, NEW r \in Racine, NEW op, op.quoi = "machine",
         NEW m, m = op.machine, m \notin DOMAIN machines[r],
         NEW v, v = op.enregistrement, Saine(m, v),
         machines'[r] = Poser(machines[r], m, v),
         effaces'[r] = effaces[r], services'[r] = services[r], ouverts'[r] = ouverts[r],
         MemesInscriptions(r)
  PROVE  Reception(r, op)
<1> DEFINE f == machines[r]
           h == machines'[r]
           Siens == {"machine", "nom", "capacites"}
<1>1. /\ DOMAIN h = DOMAIN f \cup {m} /\ m \notin DOMAIN f
      /\ \A k \in DOMAIN f : h[k] = f[k]
  BY DEF Poser
<1>2. h[m] = v BY DEF Poser
<1> HIDE DEF f, h
<1>3. ASSUME NEW g \in Sortes \ Siens PROVE Faits(r, g)' = Faits(r, g)
  BY <1>3 DEF Faits, MemesInscriptions, Sortes
<1>4. ASSUME NEW g \in Siens
      PROVE  /\ DOMAIN Faits(r, g)' = DOMAIN f \cup {m} /\ DOMAIN Faits(r, g) = DOMAIN f
             /\ \A k \in DOMAIN f : Faits(r, g)'[k] = Faits(r, g)[k]
  <2>1. /\ Faits(r, "machine") = [x \in DOMAIN f |-> f[x].proprietaire]
        /\ Faits(r, "nom") = [x \in DOMAIN f |-> f[x].nom]
        /\ Faits(r, "capacites") = [x \in DOMAIN f |-> f[x].capacites]
    BY FaitsDe DEF f
  <2>2. /\ Faits(r, "machine")' = [x \in DOMAIN h |-> h[x].proprietaire]
        /\ Faits(r, "nom")' = [x \in DOMAIN h |-> h[x].nom]
        /\ Faits(r, "capacites")' = [x \in DOMAIN h |-> h[x].capacites]
    BY FaitsDeApres DEF h
  <2>3. CASE g = "machine"
    <3>1. \A k \in DOMAIN f : Faits(r, "machine")'[k] = Faits(r, "machine")[k]
      BY <1>1, <2>1, <2>2
    <3> QED BY <1>1, <2>1, <2>2, <2>3, <3>1
  <2>4. CASE g = "nom"
    <3>1. \A k \in DOMAIN f : Faits(r, "nom")'[k] = Faits(r, "nom")[k] BY <1>1, <2>1, <2>2
    <3> QED BY <1>1, <2>1, <2>2, <2>4, <3>1
  <2>5. CASE g = "capacites"
    <3>1. \A k \in DOMAIN f : Faits(r, "capacites")'[k] = Faits(r, "capacites")[k]
      BY <1>1, <2>1, <2>2
    <3> QED BY <1>1, <2>1, <2>2, <2>5, <3>1
  <2> QED BY <2>3, <2>4, <2>5
<1>5. /\ Faits(r, "machine")'[m] = v.proprietaire /\ Faits(r, "nom")'[m] = v.nom
      /\ Faits(r, "capacites")'[m] = v.capacites
  <2>1. /\ Faits(r, "machine")' = [x \in DOMAIN h |-> h[x].proprietaire]
        /\ Faits(r, "nom")' = [x \in DOMAIN h |-> h[x].nom]
        /\ Faits(r, "capacites")' = [x \in DOMAIN h |-> h[x].capacites]
    BY FaitsDeApres DEF h
  <2> QED BY <2>1, <1>1, <1>2
<1>6. ASSUME NEW g \in Sortes, NEW k \in DOMAIN Faits(r, g) PROVE Reste(r, g, k)
  <2>1. k \in DOMAIN Faits(r, g)' /\ Faits(r, g)'[k] = Faits(r, g)[k] BY <1>3, <1>4, <1>6
  <2> QED BY <2>1, RangeeReste
<1>7. ASSUME NEW g, NEW k, NEW w, Tenu(r, g, k, w)'
      PROVE  Tenu(r, g, k, w) \/ Porte(op, g, k, w)
  <2>1. g \in Sortes /\ k \in DOMAIN Faits(r, g)' /\ w = Faits(r, g)'[k]
    BY <1>7 DEF Tenu, Sortes, Premiers, Derniers
  <2>2. CASE k \in DOMAIN Faits(r, g) /\ w = Faits(r, g)[k] BY <2>1, <2>2 DEF Tenu
  <2>3. CASE g \in Siens /\ k = m BY <2>1, <2>3, <1>5 DEF Porte, Dit
  <2> QED BY <2>1, <2>2, <2>3, <1>3, <1>4
<1>8. ASSUME NEW g, NEW k, NEW w, Dit(op, g, k, w) PROVE Su(r, g, k, w)'
  <2>1. k = m /\ g \in Siens /\ (g \in {"nom", "capacites"} => w = m)
    BY <1>8 DEF Dit
  <2>2. k \in DOMAIN Faits(r, g)' BY <2>1, <1>4
  <2>3. PICK a : a = Faits(r, g)'[k] OBVIOUS
  <2>4. g \in {"nom", "capacites"} => ~Avant(a, w) BY <2>1, <2>3, <1>5 DEF Saine
  <2>5. Vaut(g, a, w) BY <2>1, <2>4 DEF Vaut, Rang, Premiers, Derniers
  <2> QED BY <2>2, <2>3, <2>5 DEF Su
<1>9. \A x \in DOMAIN machines'[r] : Saine(x, machines'[r][x])
  <2>1. \A x \in DOMAIN f : Saine(x, f[x]) BY DEF Accord, Saines, f
  <2>2. \A x \in DOMAIN h : Saine(x, h[x]) BY <2>1, <1>1, <1>2
  <2> QED BY <2>2 DEF h
<1>10. Progres(r) BY <1>6 DEF Progres
<1> QED BY <1>7, <1>8, <1>9, <1>10 DEF Reception

\* The machine is there, or its account is erased here.
LEMMA MachineRecue ==
  ASSUME IInv, Accord, NEW r \in Racine, NEW op, op.quoi = "machine",
         Saine(op.machine, op.enregistrement), op.machine \in Emise,
         Vu("machine", op.machine, op.enregistrement.proprietaire),
         AppliquerMachine(r, op), ouverts'[r] = ouverts[r], MemesInscriptions(r)
  PROVE  Reception(r, op)
<1> DEFINE m == op.machine
           v == op.enregistrement
<1>1. machines'[r] = IF v.proprietaire \in effaces[r] THEN machines[r]
                       ELSE Garder(machines[r], m, v)
  BY DEF AppliquerMachine, IInv, Racines
<1>2. effaces'[r] = effaces[r] /\ services'[r] = services[r] BY DEF AppliquerMachine
<1>3. CASE v.proprietaire \in effaces[r]
  <2>1. MemesMachines(r) BY <1>1, <1>2, <1>3 DEF MemesMachines
  <2>2. ASSUME Ancien, NEW g, NEW k, NEW w, Dit(op, g, k, w) PROVE Su(r, g, k, w)'
    <3>1. k = m /\ g \in DUneMachine \ {"service"} BY <2>2 DEF Dit, DUneMachine
    <3>2. \A c : Vu("machine", m, c) => c = v.proprietaire
      BY DEF Accord, Unicite, Uniques, Origine
    <3>3. Delaisse(r, m)' BY <3>2, <2>2, <1>2, <1>3 DEF Delaisse, Ancien
    <3> QED BY <3>1, <3>3 DEF Su, MachineDuFait
  <2> QED BY <2>1, <2>2, RienNeChange
<1>4. CASE v.proprietaire \notin effaces[r] /\ m \in DOMAIN machines[r]
  <2>1. machines'[r] = machines[r] BY <1>1, <1>4 DEF Garder
  <2>2. MemesMachines(r) BY <2>1, <1>2 DEF MemesMachines
  <2>3. ASSUME NEW g, NEW k, NEW w, Dit(op, g, k, w) PROVE Su(r, g, k, w)'
    <3>1. k = m /\ g \in {"machine", "nom", "capacites"} /\ (g \in {"nom", "capacites"} => w = m)
      BY <2>3 DEF Dit
    <3>2. Saine(m, machines[r][m]) BY <1>4 DEF Accord, Saines
    <3>3. PICK a : a = Faits(r, g)'[k] OBVIOUS
    <3>4. k \in DOMAIN Faits(r, g)' BY <3>1, <2>1, <1>4, FaitsDeApres
    <3>5. g \in {"nom", "capacites"} => ~Avant(a, w)
      BY <3>1, <3>2, <3>3, <2>1, <1>4, FaitsDeApres DEF Saine
    <3>6. Vaut(g, a, w) BY <3>1, <3>5 DEF Vaut, Rang, Premiers, Derniers
    <3> QED BY <3>3, <3>4, <3>6 DEF Su
  <2> QED BY <2>2, <2>3, RienNeChange
<1>5. CASE v.proprietaire \notin effaces[r] /\ m \notin DOMAIN machines[r]
  <2>1. machines'[r] = Poser(machines[r], m, v) BY <1>1, <1>5 DEF Garder
  <2> QED BY <2>1, <1>2, <1>5, MachinePosee
<1> QED BY <1>3, <1>4, <1>5

-----------------------------------------------------------------------------
LEMMA LaPlusTardive ==
  ASSUME NEW a \in Estampille, NEW b \in Estampille
  PROVE  /\ PlusTard(a, b) \in {a, b}
         /\ ~Avant(PlusTard(a, b), a) /\ ~Avant(PlusTard(a, b), b)
BY OrdreTotal DEF PlusTard

\* The stamp of a row whose fields take a stamp that is later.
LEMMA EstampilleDeRangee ==
  ASSUME NEW n \in Estampille, NEW c \in Estampille, NEW e \in Estampille,
         NEW n2 \in {n, e}, NEW c2 \in {c, e}, ~Avant(n2, n), ~Avant(c2, c),
         ~Avant(n2, e) \/ ~Avant(c2, e)
  PROVE  PlusTard(PlusTard(n, c), e) = PlusTard(n2, c2)
<1> DEFINE d == PlusTard(n, c)
           x == PlusTard(d, e)
           y == PlusTard(n2, c2)
<1>1. d \in {n, c} /\ ~Avant(d, n) /\ ~Avant(d, c) BY LaPlusTardive
<1>2. n2 \in Estampille /\ c2 \in Estampille /\ d \in Estampille BY <1>1
<1>3. y \in {n2, c2} /\ ~Avant(y, n2) /\ ~Avant(y, c2) BY <1>2, LaPlusTardive
<1> HIDE DEF d
<1>4. x \in {d, e} /\ ~Avant(x, d) /\ ~Avant(x, e) BY <1>2, LaPlusTardive
<1> HIDE DEF x, y
<1>5. x \in {n, c, e} /\ y \in {n, c, e} /\ x \in Estampille /\ y \in Estampille
  BY <1>1, <1>2, <1>3, <1>4
<1>6. ~Avant(x, n) /\ ~Avant(x, c) BY <1>1, <1>2, <1>4, <1>5, OrdreTransitif
<1>7. ~Avant(x, y) BY <1>4, <1>5, <1>6
<1>8. ~Avant(y, n) /\ ~Avant(y, c) BY <1>2, <1>3, <1>5, OrdreTransitif
<1>9. ~Avant(y, e) BY <1>2, <1>3, <1>5, OrdreTransitif
<1>10. ~Avant(y, x) BY <1>5, <1>8, <1>9
<1>11. x = y BY <1>5, <1>7, <1>10, OrdreTotal
<1> QED BY <1>11 DEF x, y, d

\* Some fields of a machine take the stamp e of the operation.
LEMMA MachineChangee ==
  ASSUME IInv, Accord, NEW r \in Racine, NEW op, op.quoi = "modifiee",
         NEW m \in DOMAIN machines[r], m = op.machine,
         NEW e \in Estampille, e = op.estampille,
         op.champs \subseteq {"nom", "capacites"},
         NEW u, u = machines[r][m], NEW v, machines'[r] = [machines[r] EXCEPT ![m] = v],
         v.proprietaire = u.proprietaire, v.estampille = PlusTard(v.nom, v.capacites),
         v.nom = u.nom \/ ("nom" \in op.champs /\ v.nom = e), ~Avant(v.nom, u.nom),
         v.capacites = u.capacites \/ ("capacites" \in op.champs /\ v.capacites = e),
         ~Avant(v.capacites, u.capacites),
         "nom" \in op.champs => ~Avant(v.nom, e),
         "capacites" \in op.champs => ~Avant(v.capacites, e),
         effaces'[r] = effaces[r], services'[r] = services[r], ouverts'[r] = ouverts[r],
         MemesInscriptions(r)
  PROVE  Reception(r, op)
<1> DEFINE f == machines[r]
           h == machines'[r]
           Siens == {"machine", "nom", "capacites"}
<1>1. /\ DOMAIN h = DOMAIN f /\ h[m] = v
      /\ \A k \in DOMAIN f : k # m => h[k] = f[k]
  OBVIOUS
<1>2. m \in DOMAIN f /\ u = f[m] OBVIOUS
<1>3. /\ u.nom \in Estampille /\ u.capacites \in Estampille /\ m \in Estampille
  BY MachineTypee DEF Emise
<1>4. Saine(m, u) /\ \A x \in DOMAIN f : Saine(x, f[x]) BY DEF Accord, Saines
<1> HIDE DEF f, h
<1>5. ASSUME NEW g \in Sortes \ Siens PROVE Faits(r, g)' = Faits(r, g)
  BY <1>5 DEF Faits, MemesInscriptions, Sortes
<1>6. /\ Faits(r, "machine") = [x \in DOMAIN f |-> f[x].proprietaire]
      /\ Faits(r, "nom") = [x \in DOMAIN f |-> f[x].nom]
      /\ Faits(r, "capacites") = [x \in DOMAIN f |-> f[x].capacites]
  BY FaitsDe DEF f
<1>7. /\ Faits(r, "machine")' = [x \in DOMAIN h |-> h[x].proprietaire]
      /\ Faits(r, "nom")' = [x \in DOMAIN h |-> h[x].nom]
      /\ Faits(r, "capacites")' = [x \in DOMAIN h |-> h[x].capacites]
  BY FaitsDeApres DEF h
<1>8. ASSUME NEW g \in Siens
      PROVE  /\ DOMAIN Faits(r, g)' = DOMAIN f /\ DOMAIN Faits(r, g) = DOMAIN f
             /\ \A k \in DOMAIN f : k # m => Faits(r, g)'[k] = Faits(r, g)[k]
  <2>1. CASE g = "machine"
    <3>1. \A k \in DOMAIN f : k # m => Faits(r, "machine")'[k] = Faits(r, "machine")[k]
      BY <1>1, <1>6, <1>7
    <3> QED BY <1>1, <1>6, <1>7, <2>1, <3>1
  <2>2. CASE g = "nom"
    <3>1. \A k \in DOMAIN f : k # m => Faits(r, "nom")'[k] = Faits(r, "nom")[k]
      BY <1>1, <1>6, <1>7
    <3> QED BY <1>1, <1>6, <1>7, <2>2, <3>1
  <2>3. CASE g = "capacites"
    <3>1. \A k \in DOMAIN f : k # m => Faits(r, "capacites")'[k] = Faits(r, "capacites")[k]
      BY <1>1, <1>6, <1>7
    <3> QED BY <1>1, <1>6, <1>7, <2>3, <3>1
  <2> QED BY <2>1, <2>2, <2>3
<1>9. /\ Faits(r, "machine")'[m] = v.proprietaire /\ Faits(r, "nom")'[m] = v.nom
      /\ Faits(r, "capacites")'[m] = v.capacites
  BY <1>1, <1>2, <1>7
<1>10. /\ Faits(r, "machine")[m] = u.proprietaire /\ Faits(r, "nom")[m] = u.nom
       /\ Faits(r, "capacites")[m] = u.capacites
  BY <1>2, <1>6
<1>11. ASSUME NEW g \in Sortes, NEW k \in DOMAIN Faits(r, g) PROVE Reste(r, g, k)
  <2>1. CASE g \notin Siens \/ k # m
    <3>1. k \in DOMAIN Faits(r, g)' /\ Faits(r, g)'[k] = Faits(r, g)[k]
      BY <1>5, <1>8, <1>11, <2>1
    <3> QED BY <3>1, RangeeReste
  <2>2. CASE g \in Siens /\ k = m
    <3>1. k \in DOMAIN Faits(r, g)' BY <1>8, <1>11, <2>2
    <3>2. PICK a, b : a = Faits(r, g)'[k] /\ b = Faits(r, g)[k] OBVIOUS
    <3>3. g \in {"nom", "capacites"} => ~Avant(a, b) BY <2>2, <3>2, <1>9, <1>10
    <3>4. Vaut(g, a, b) BY <2>2, <3>3 DEF Vaut, Rang, Premiers, Derniers
    <3> QED BY <3>1, <3>2, <3>4 DEF Reste
  <2> QED BY <2>1, <2>2
<1>12. ASSUME NEW g, NEW k, NEW w, Tenu(r, g, k, w)'
       PROVE  Tenu(r, g, k, w) \/ Porte(op, g, k, w)
  <2>1. g \in Sortes /\ k \in DOMAIN Faits(r, g)' /\ w = Faits(r, g)'[k]
    BY <1>12 DEF Tenu, Sortes, Premiers, Derniers
  <2>2. CASE k \in DOMAIN Faits(r, g) /\ w = Faits(r, g)[k] BY <2>1, <2>2 DEF Tenu
  <2>3. CASE g \in op.champs /\ k = m /\ w = e BY <2>3 DEF Porte, Dit
  <2>4. CASE g \in Siens /\ k = m
    <3>1. CASE g = "machine" BY <3>1, <2>1, <2>2, <2>4, <1>2, <1>8, <1>9, <1>10
    <3>2. CASE g = "nom" BY <3>2, <2>1, <2>2, <2>3, <2>4, <1>2, <1>8, <1>9, <1>10
    <3>3. CASE g = "capacites" BY <3>3, <2>1, <2>2, <2>3, <2>4, <1>2, <1>8, <1>9, <1>10
    <3> QED BY <2>4, <3>1, <3>2, <3>3
  <2>5. CASE g \in Siens /\ k # m BY <2>1, <2>2, <2>5, <1>8
  <2> QED BY <2>1, <2>2, <2>4, <2>5, <1>5
<1>13. ASSUME NEW g, NEW k, NEW w, Dit(op, g, k, w) PROVE Su(r, g, k, w)'
  <2>1. k = m /\ w = e /\ g \in op.champs /\ g \in {"nom", "capacites"} BY <1>13 DEF Dit
  <2>2. k \in DOMAIN Faits(r, g)' BY <2>1, <1>2, <1>8
  <2>3. PICK a : a = Faits(r, g)'[k] OBVIOUS
  <2>4. ~Avant(a, w) BY <2>1, <2>3, <1>9
  <2>5. Vaut(g, a, w) BY <2>1, <2>4 DEF Vaut, Rang, Premiers, Derniers
  <2> QED BY <2>2, <2>3, <2>5 DEF Su
<1>14. Saine(m, v)
  <2>1. v.nom \in Estampille /\ v.capacites \in Estampille BY <1>3
  <2> QED BY <2>1, <1>3, <1>4, OrdreTransitif DEF Saine
<1>15. \A x \in DOMAIN machines'[r] : Saine(x, machines'[r][x])
  <2>1. \A x \in DOMAIN h : Saine(x, h[x]) BY <1>1, <1>4, <1>14
  <2> QED BY <2>1 DEF h
<1>16. Progres(r) BY <1>11 DEF Progres
<1> QED BY <1>12, <1>13, <1>15, <1>16 DEF Reception

\* Each field on its own, if it is later.
LEMMA ModifieeRecue ==
  ASSUME IInv, Accord, NEW r \in Racine, NEW op \in AuxMachines(Emise), op.quoi = "modifiee",
         op.champs # {}, Connu(r, op.machine),
         AppliquerMachineModifiee(r, op), ouverts'[r] = ouverts[r], MemesInscriptions(r)
  PROVE  Reception(r, op)
<1> DEFINE m == op.machine
           e == op.estampille
           f == machines[r]
           u == f[m]
           recents == Recents(u, op.champs, e)
           t == PlusTard(u.estampille, e)
           v == [Modifiee(u, recents, e) EXCEPT !.estampille = t]
<1>1. /\ m \in Emise /\ e \in Emise /\ e \in Estampille
      /\ op.champs \subseteq {"nom", "capacites"}
  BY ChampsMachines DEF Emise
<1>2. effaces'[r] = effaces[r] /\ services'[r] = services[r]
  BY DEF AppliquerMachineModifiee
<1>3. CASE m \notin DOMAIN f
  <2>1. machines'[r] = machines[r] BY <1>3 DEF AppliquerMachineModifiee
  <2>2. MemesMachines(r) BY <2>1, <1>2 DEF MemesMachines
  <2>3. ASSUME Ancien, NEW g, NEW k, NEW w, Dit(op, g, k, w) PROVE Su(r, g, k, w)'
    <3>1. k = m /\ g \in {"nom", "capacites"} BY <2>3, <1>1 DEF Dit
    <3>2. Delaisse(r, m) BY <1>3 DEF Connu
    <3>3. Delaisse(r, m)' BY <3>2, <2>3, <1>1, <1>2, DelaisseReste
    <3> QED BY <3>1, <3>3 DEF Su, MachineDuFait, DUneMachine
  <2> QED BY <2>2, <2>3, RienNeChange
<1>4. CASE m \in DOMAIN f
  <2>1. machines' = [machines EXCEPT ![r][m] = v] BY <1>4 DEF AppliquerMachineModifiee
  <2>2. machines'[r] = [machines[r] EXCEPT ![m] = v] BY <2>1 DEF IInv, Racines
  <2>3. /\ u \in [proprietaire : Titulaires, estampille : Emise, nom : Emise,
                   capacites : Emise]
        /\ u.nom \in Estampille /\ u.capacites \in Estampille
    BY <1>4, MachineTypee
  <2>4. u.estampille = PlusTard(u.nom, u.capacites) BY <1>4 DEF Accord, Saines, Saine
  <2>5. /\ v.nom = IF "nom" \in recents THEN e ELSE u.nom
        /\ v.capacites = IF "capacites" \in recents THEN e ELSE u.capacites
        /\ v.proprietaire = u.proprietaire /\ v.estampille = t
    <3> HIDE DEF u, recents, t, e
    <3> QED BY <2>3 DEF Modifiee
  <2>6. /\ "nom" \in recents <=> "nom" \in op.champs /\ Avant(u.nom, e)
        /\ "capacites" \in recents <=> "capacites" \in op.champs /\ Avant(u.capacites, e)
    <3> HIDE DEF u, e
    <3> QED BY <2>3 DEF Recents
  <2> HIDE DEF v, recents, e, u
  <2>7. /\ v.nom = u.nom \/ ("nom" \in op.champs /\ v.nom = e)
        /\ v.capacites = u.capacites \/ ("capacites" \in op.champs /\ v.capacites = e)
    BY <2>5, <2>6
  <2>8. ~Avant(v.nom, u.nom) /\ ("nom" \in op.champs => ~Avant(v.nom, e))
    <3>1. CASE "nom" \in recents BY <3>1, <2>3, <2>5, <2>6, <1>1, OrdreTotal
    <3>2. CASE "nom" \notin recents BY <3>2, <2>3, <2>5, <2>6, <1>1, OrdreTotal
    <3> QED BY <3>1, <3>2
  <2>9. ~Avant(v.capacites, u.capacites) /\ ("capacites" \in op.champs => ~Avant(v.capacites, e))
    <3>1. CASE "capacites" \in recents BY <3>1, <2>3, <2>5, <2>6, <1>1, OrdreTotal
    <3>2. CASE "capacites" \notin recents BY <3>2, <2>3, <2>5, <2>6, <1>1, OrdreTotal
    <3> QED BY <3>1, <3>2
  <2>10. v.estampille = PlusTard(v.nom, v.capacites)
    <3>1. ~Avant(v.nom, e) \/ ~Avant(v.capacites, e) BY <2>8, <2>9, <1>1
    <3>2. v.nom \in {u.nom, e} /\ v.capacites \in {u.capacites, e} BY <2>7
    <3>3. PlusTard(PlusTard(u.nom, u.capacites), e) = PlusTard(v.nom, v.capacites)
      BY <3>1, <3>2, <2>3, <2>8, <2>9, <1>1, EstampilleDeRangee
    <3> QED BY <3>3, <2>4, <2>5
  <2> QED BY <2>2, <2>5, <2>7, <2>8, <2>9, <2>10, <1>1, <1>2, <1>4, MachineChangee DEF u, e
<1> QED BY <1>3, <1>4

\* A service that is new, or the first of two.
LEMMA ServicePose ==
  ASSUME IInv, Accord, NEW r \in Racine, NEW op, op.quoi = "service",
         NEW c, c = op.service, NEW v \in Estampille, v = op.estampille, NEW f, f = services[r],
         services'[r] = Poser(f, c, IF c \in DOMAIN f THEN PlusTot(f[c], v) ELSE v),
         effaces'[r] = effaces[r], machines'[r] = machines[r], ouverts'[r] = ouverts[r],
         MemesInscriptions(r)
  PROVE  Reception(r, op)
<1> DEFINE h == services'[r]
           s == "service"
<1>1. DitSeulement(op, s, c, v) BY DEF DitSeulement, Dit
<1>2. s \in Sortes BY DEF Sortes, Premiers
<1>3. \A g \in Sortes \ {s} : Faits(r, g)' = Faits(r, g)
  BY <1>2, AutresFaits DEF MemesInscriptions
<1>4. Faits(r, s) = f /\ Faits(r, s)' = h BY FaitsDe, FaitsDeApres
<1>5. \A a, b : Vaut(s, a, b) <=> ~Avant(b, a)
  BY DEF Vaut, Premiers, Derniers, Rang
<1>6. c \in DOMAIN f => f[c] \in Estampille
  BY DEF IInv, Locale, MachinesDe, TableDe, Emise
<1>7. /\ DOMAIN h = DOMAIN f \cup {c} /\ \A k \in DOMAIN f \ {c} : h[k] = f[k]
      /\ h[c] = IF c \in DOMAIN f THEN PlusTot(f[c], v) ELSE v
  BY DEF Poser
<1> HIDE DEF h, s
<1>8. h[c] = v \/ (c \in DOMAIN f /\ h[c] = f[c]) BY <1>7 DEF PlusTot
<1>9. Vaut(s, h[c], v) /\ (c \in DOMAIN f => Vaut(s, h[c], f[c]))
  BY <1>5, <1>6, <1>7, OrdreTotal DEF PlusTot
<1> QED BY <1>1, <1>2, <1>3, <1>4, <1>7, <1>8, <1>9, UneRangeeChange

LEMMA ServiceRecu ==
  ASSUME IInv, Accord, NEW r \in Racine, NEW op \in AuxMachines(Emise), op.quoi = "service",
         Connu(r, op.service.machine), AppliquerService(r, op), ouverts'[r] = ouverts[r],
         MemesInscriptions(r)
  PROVE  Reception(r, op)
<1> DEFINE c == op.service
           e == op.estampille
           f == services[r]
<1>1. c.machine \in Emise /\ e \in Estampille BY ChampsMachines DEF Emise
<1>2. effaces'[r] = effaces[r] /\ machines'[r] = machines[r] BY DEF AppliquerService
<1>3. services'[r] = IF ~Rattache(r, c) THEN f
                       ELSE Poser(f, c, IF c \in DOMAIN f THEN PlusTot(f[c], e) ELSE e)
  BY DEF AppliquerService, IInv, Racines
<1>4. CASE ~Rattache(r, c)
  <2>1. MemesMachines(r) BY <1>2, <1>3, <1>4 DEF MemesMachines
  <2>2. ASSUME Ancien, NEW g, NEW k, NEW w, Dit(op, g, k, w) PROVE Su(r, g, k, w)'
    <3>1. k = c /\ g = "service" BY <2>2 DEF Dit
    <3>2. Delaisse(r, c.machine) BY <1>4 DEF Connu, Rattache
    <3>3. Delaisse(r, c.machine)' BY <3>2, <2>2, <1>1, <1>2, DelaisseReste
    <3> QED BY <3>1, <3>3 DEF Su, MachineDuFait, DUneMachine
  <2> QED BY <2>1, <2>2, RienNeChange
<1>5. CASE Rattache(r, c)
  <2>1. services'[r] = Poser(f, c, IF c \in DOMAIN f THEN PlusTot(f[c], e) ELSE e)
    BY <1>3, <1>5
  <2> QED BY <2>1, <1>1, <1>2, ServicePose
<1> QED BY <1>4, <1>5

-----------------------------------------------------------------------------
(* Erasures, and the whole of what a root receives.                        *)

\* The machines of an account leave with it, and their services.
LEMMA EffaceRecu ==
  ASSUME IInv, Accord, NEW r \in Racine, NEW op, op.quoi = "efface", NEW c, c = op.compte,
         EffacerLesMachines(r, c), ouverts'[r] = ouverts[r], MemesInscriptions(r)
  PROVE  Reception(r, op)
<1> DEFINE X == {m \in DOMAIN machines[r] : machines[r][m].proprietaire = c}
           Y == {s \in DOMAIN services[r] : s.machine \in X}
           f == machines[r]
           h == machines'[r]
           Siens == {"machine", "nom", "capacites"}
<1>1. /\ effaces'[r] = effaces[r] \cup {c}
      /\ h = Sans(f, X) /\ services'[r] = Sans(services[r], Y)
  BY DEF EffacerLesMachines, IInv, Racines
<1>2. DOMAIN h = DOMAIN f \ X /\ \A m \in DOMAIN h : h[m] = f[m] BY <1>1 DEF Sans
<1>3. /\ DOMAIN services'[r] = DOMAIN services[r] \ Y
      /\ \A s \in DOMAIN services'[r] : services'[r][s] = services[r][s]
  BY <1>1 DEF Sans
<1>4. \A m \in DOMAIN f \ DOMAIN h : f[m].proprietaire = c BY <1>2
<1>5. \A s \in DOMAIN services[r] \ DOMAIN services'[r] :
        s.machine \in DOMAIN f /\ f[s.machine].proprietaire = c
  BY <1>3
<1>6. \A m \in DOMAIN f : Saine(m, f[m]) BY DEF Accord, Saines
<1> HIDE DEF X, Y, f, h
<1>7. ASSUME NEW g \in Sortes \ (Siens \cup {"service", "efface"})
      PROVE  Faits(r, g)' = Faits(r, g)
  <2>1. g \in {"ouvert", "declaration", "presentation", "marque", "hebergeur", "locateurs"}
    BY <1>7 DEF Sortes, Premiers, Derniers
  <2> QED BY <2>1 DEF Faits, MemesInscriptions
<1>8. ASSUME NEW g \in Siens
      PROVE  /\ DOMAIN Faits(r, g)' = DOMAIN h /\ DOMAIN Faits(r, g) = DOMAIN f
             /\ \A k \in DOMAIN h : Faits(r, g)'[k] = Faits(r, g)[k]
  <2>1. /\ Faits(r, "machine") = [x \in DOMAIN f |-> f[x].proprietaire]
        /\ Faits(r, "nom") = [x \in DOMAIN f |-> f[x].nom]
        /\ Faits(r, "capacites") = [x \in DOMAIN f |-> f[x].capacites]
    BY FaitsDe DEF f
  <2>2. /\ Faits(r, "machine")' = [x \in DOMAIN h |-> h[x].proprietaire]
        /\ Faits(r, "nom")' = [x \in DOMAIN h |-> h[x].nom]
        /\ Faits(r, "capacites")' = [x \in DOMAIN h |-> h[x].capacites]
    BY FaitsDeApres DEF h
  <2>3. \A x \in DOMAIN h : x \in DOMAIN f /\ h[x] = f[x] BY <1>2
  <2>4. CASE g = "machine"
    <3>1. \A k \in DOMAIN h : Faits(r, "machine")'[k] = Faits(r, "machine")[k]
      BY <2>1, <2>2, <2>3
    <3> QED BY <2>1, <2>2, <2>4, <3>1
  <2>5. CASE g = "nom"
    <3>1. \A k \in DOMAIN h : Faits(r, "nom")'[k] = Faits(r, "nom")[k] BY <2>1, <2>2, <2>3
    <3> QED BY <2>1, <2>2, <2>5, <3>1
  <2>6. CASE g = "capacites"
    <3>1. \A k \in DOMAIN h : Faits(r, "capacites")'[k] = Faits(r, "capacites")[k]
      BY <2>1, <2>2, <2>3
    <3> QED BY <2>1, <2>2, <2>6, <3>1
  <2> QED BY <2>4, <2>5, <2>6
<1>9. /\ Faits(r, "service") = services[r] /\ Faits(r, "service")' = services'[r]
  BY FaitsDe, FaitsDeApres
<1>10. /\ Faits(r, "efface") = [x \in effaces[r] |-> x]
       /\ Faits(r, "efface")' = [x \in effaces[r] \cup {c} |-> x]
  <2>1. Faits(r, "efface") = [x \in effaces[r] |-> x] BY FaitsDe
  <2>2. Faits(r, "efface")' = [x \in effaces'[r] |-> x] BY FaitsDeApres
  <2> QED BY <2>1, <2>2, <1>1
<1>11. /\ DOMAIN Faits(r, "efface") = effaces[r]
       /\ DOMAIN Faits(r, "efface")' = effaces[r] \cup {c}
       /\ \A k \in effaces[r] : Faits(r, "efface")'[k] = Faits(r, "efface")[k]
       /\ Faits(r, "efface")'[c] = c
  BY <1>10
<1>12. ASSUME NEW g \in Sortes, NEW k \in DOMAIN Faits(r, g) PROVE Reste(r, g, k)
  <2>1. CASE k \in DOMAIN Faits(r, g)' /\ Faits(r, g)'[k] = Faits(r, g)[k]
    BY <2>1, <1>12, RangeeReste
  <2>2. CASE g \in Siens /\ k \notin DOMAIN Faits(r, g)'
    <3>1. k \in DOMAIN f \ DOMAIN h BY <2>2, <1>8, <1>12
    <3>2. k \in DOMAIN machines[r] /\ machines[r][k].proprietaire \in effaces'[r]
      BY <3>1, <1>1, <1>4 DEF f
    <3> QED BY <2>2, <3>2 DEF Reste, MachineDuFait, DUneMachine
  <2>3. CASE g = "service" /\ k \notin DOMAIN Faits(r, g)'
    <3>1. k \in DOMAIN services[r] \ DOMAIN services'[r] BY <2>3, <1>9, <1>12
    <3>2. /\ k.machine \in DOMAIN machines[r]
          /\ machines[r][k.machine].proprietaire \in effaces'[r]
      BY <3>1, <1>1, <1>5 DEF f
    <3> QED BY <2>3, <3>2 DEF Reste, MachineDuFait, DUneMachine
  <2>4. CASE g \in Siens BY <2>1, <2>2, <2>4, <1>8
  <2>5. CASE g = "service" BY <2>1, <2>3, <2>5, <1>3, <1>9
  <2>6. CASE g = "efface" BY <2>1, <2>6, <1>11, <1>12
  <2> QED BY <2>1, <2>4, <2>5, <2>6, <1>7, <1>12
<1>13. ASSUME NEW g, NEW k, NEW w, Tenu(r, g, k, w)'
       PROVE  Tenu(r, g, k, w) \/ Porte(op, g, k, w)
  <2>1. g \in Sortes /\ k \in DOMAIN Faits(r, g)' /\ w = Faits(r, g)'[k]
    BY <1>13 DEF Tenu, Sortes, Premiers, Derniers
  <2>2. CASE k \in DOMAIN Faits(r, g) /\ w = Faits(r, g)[k] BY <2>1, <2>2 DEF Tenu
  <2>3. CASE g = "efface" /\ k = c BY <2>1, <2>3, <1>11 DEF Porte, Dit
  <2>4. CASE g \in Siens BY <2>1, <2>2, <2>4, <1>2, <1>8
  <2>5. CASE g = "service" BY <2>1, <2>2, <2>5, <1>3, <1>9
  <2>6. CASE g = "efface" BY <2>1, <2>2, <2>3, <2>6, <1>11
  <2> QED BY <2>1, <2>2, <2>4, <2>5, <2>6, <1>7
<1>14. ASSUME NEW g, NEW k, NEW w, Dit(op, g, k, w) PROVE Su(r, g, k, w)'
  <2>1. g = "efface" /\ k = c BY <1>14 DEF Dit
  <2>2. k \in DOMAIN Faits(r, g)' BY <2>1, <1>11
  <2>3. \A a : Vaut(g, a, w) BY <2>1 DEF Vaut, Premiers, Derniers
  <2> QED BY <2>2, <2>3 DEF Su
<1>15. \A x \in DOMAIN machines'[r] : Saine(x, machines'[r][x])
  <2>1. \A x \in DOMAIN h : Saine(x, h[x]) BY <1>2, <1>6
  <2> QED BY <2>1 DEF h
<1>16. Progres(r) BY <1>1, <1>12 DEF Progres
<1> QED BY <1>13, <1>14, <1>15, <1>16 DEF Reception

LEMMA EffacementRecu ==
  ASSUME IInv, Accord, NEW r \in Racine, NEW op, op.quoi = "efface",
         AppliquerCompteEfface(r, op), ouverts'[r] = ouverts[r], MemesInscriptions(r)
  PROVE  Reception(r, op)
<1>1. CASE op.compte \in effaces[r]
  <2>1. MemesMachines(r) BY <1>1 DEF AppliquerCompteEfface, tablesDesMachines, MemesMachines
  <2>2. ASSUME NEW g, NEW k, NEW v, Dit(op, g, k, v) PROVE Su(r, g, k, v)'
    <3>1. g = "efface" /\ k \in effaces'[r] BY <2>1, <2>2, <1>1 DEF Dit, MemesMachines
    <3>2. k \in DOMAIN Faits(r, g)' BY <3>1, FaitsDeApres
    <3>3. \A a : Vaut(g, a, v) BY <3>1 DEF Vaut, Premiers, Derniers
    <3> QED BY <3>2, <3>3 DEF Su
  <2> QED BY <2>1, <2>2, RienNeChange
<1>2. CASE op.compte \notin effaces[r]
  BY <1>2, EffaceRecu DEF AppliquerCompteEfface
<1> QED BY <1>1, <1>2

\* What is received.
LEMMA AccordDeRecevoir ==
  ASSUME IInv, IInv', Accord, NEW r \in Racine, Recevoir(r)
  PROVE  Accord' /\ Ancien
<1> DEFINE op == Head(enRoute[r])
<1>1. Retirer(r) /\ Appliquer(r, op) BY DEF Recevoir
<1>2. Entame(r, op) /\ op \in OperationDe(Emise) BY <1>1, FileEntamee
<1> HIDE DEF op
<1>3. \A p \in Racine : ouverts[p] \subseteq ouverts'[p]
  <2>1. \/ UNCHANGED ouverts
        \/ ouverts' = [ouverts EXCEPT ![r] = @ \cup {[par |-> op.par, compte |-> op.compte]}]
    BY <1>1 DEF Appliquer, AppliquerAuxInvitations, AppliquerInvitation,
       AppliquerInvitationConsommee, AppliquerCompteOuvert, tablesDesInvitations, tables
  <2>2. DOMAIN ouverts = Racine BY DEF IInv, Racines
  <2> QED BY <2>1, <2>2
<1>4. Emise \subseteq Emise' BY <1>1, <1>3, Recue
<1>5. /\ OperationSaine(op)
      /\ op.quoi = "machine" => Vu("machine", op.machine, op.enregistrement.proprietaire)
      /\ \A m : Suppose(op, m) => Connu(r, m)
  <2>1. 1 \in DOMAIN enRoute[r] /\ op = enRoute[r][1] BY <1>2 DEF Entame
  <2>2. OperationSaine(op) BY <2>1 DEF Accord, Saines
  <2>3. ASSUME op.quoi = "machine"
        PROVE  Vu("machine", op.machine, op.enregistrement.proprietaire)
    <3>1. Porte(op, "machine", op.machine, op.enregistrement.proprietaire)
      BY <2>3 DEF Porte, Dit
    <3>2. PortePar(enRoute[r], "machine", op.machine, op.enregistrement.proprietaire)
      BY <2>1, <3>1 DEF PortePar
    <3> QED BY <3>2 DEF Vu
  <2>4. ASSUME NEW m, Suppose(op, m) PROVE Connu(r, m)
    <3>1. Precedee(r, 1) BY <2>1 DEF Accord
    <3>2. Connu(r, m) \/ \E j \in 1..(1-1) : TRUE BY <3>1, <2>1, <2>4 DEF Precedee
    <3> QED BY <3>2
  <2> QED BY <2>2, <2>3, <2>4
<1>6. Reception(r, op) /\ FaitsAilleurs(r)
  <2>1. CASE AppliquerAuxMachines(r, op) /\ UNCHANGED <<tablesDesInvitations, tablesDesInscriptions>>
    <3>1. /\ \A q \in Racine : ouverts'[q] = ouverts[q] /\ MemesInscriptions(q)
      BY <2>1 DEF tablesDesInvitations, tablesDesInscriptions, MemesInscriptions
    <3>2. op.quoi \in {"machine", "modifiee", "service", "efface"}
      BY <2>1 DEF AppliquerAuxMachines
    <3>3. op \in AuxMachines(Emise)
      BY <1>2, <3>2, ChampsInvitations, ChampsInscriptions DEF OperationDe
    <3>4. CASE op.quoi = "machine" /\ AppliquerMachine(r, op)
      <4>1. op.machine \in Emise /\ Saine(op.machine, op.enregistrement)
        BY <3>3, <3>4, <1>5, ChampsMachines DEF OperationSaine
      <4>2. Reception(r, op) BY <4>1, <3>1, <3>4, <1>5, MachineRecue
      <4>3. \A q \in Racine : q # r => MemesMachines(q)
        BY <3>4 DEF AppliquerMachine, MemesMachines, IInv, Racines
      <4> QED BY <4>2, <4>3, <3>1 DEF FaitsAilleurs
    <3>5. CASE op.quoi = "modifiee" /\ AppliquerMachineModifiee(r, op)
      <4>1. op.champs # {} /\ Connu(r, op.machine) BY <3>5, <1>5 DEF OperationSaine, Suppose
      <4>2. Reception(r, op) BY <4>1, <3>1, <3>3, <3>5, ModifieeRecue
      <4>3. \A q \in Racine : q # r => MemesMachines(q)
        BY <3>5 DEF AppliquerMachineModifiee, MemesMachines, IInv, Racines
      <4> QED BY <4>2, <4>3, <3>1 DEF FaitsAilleurs
    <3>6. CASE op.quoi = "service" /\ AppliquerService(r, op)
      <4>1. Connu(r, op.service.machine) BY <3>6, <1>5 DEF Suppose
      <4>2. Reception(r, op) BY <4>1, <3>1, <3>3, <3>6, ServiceRecu
      <4>3. \A q \in Racine : q # r => MemesMachines(q)
        BY <3>6 DEF AppliquerService, MemesMachines, IInv, Racines
      <4> QED BY <4>2, <4>3, <3>1 DEF FaitsAilleurs
    <3>7. CASE op.quoi = "efface" /\ AppliquerCompteEfface(r, op)
      <4>2. Reception(r, op) BY <3>1, <3>7, EffacementRecu
      <4>3. \A q \in Racine : q # r => MemesMachines(q)
        BY <3>7 DEF AppliquerCompteEfface, EffacerLesMachines, MemesMachines, IInv, Racines,
           tablesDesMachines
      <4> QED BY <4>2, <4>3, <3>1 DEF FaitsAilleurs
    <3> QED BY <2>1, <3>4, <3>5, <3>6, <3>7 DEF AppliquerAuxMachines
  <2>2. CASE AppliquerAuxInvitations(r, op) /\ UNCHANGED <<tablesDesMachines, tablesDesInscriptions>>
    <3>1. /\ \A q \in Racine : MemesMachines(q) /\ MemesInscriptions(q)
      BY <2>2 DEF tablesDesMachines, tablesDesInscriptions, MemesInscriptions, MemesMachines
    <3>2. CASE op.quoi = "ouvert" /\ AppliquerCompteOuvert(r, op)
      <4>1. /\ ouverts'[r] = ouverts[r] \cup {[par |-> op.par, compte |-> op.compte]}
            /\ \A q \in Racine : q # r => ouverts'[q] = ouverts[q]
        BY <3>2 DEF AppliquerCompteOuvert, IInv, Racines
      <4>2. Reception(r, op) BY <3>1, <3>2, <4>1, OuvertRecu
      <4> QED BY <4>1, <4>2, <3>1 DEF FaitsAilleurs
    <3>3. CASE op.quoi \in {"invitation", "consommee", "premier"} /\ UNCHANGED ouverts
      <4>1. \A g, k, v : ~Dit(op, g, k, v) BY <3>3 DEF Dit
      <4>2. Reception(r, op) BY <4>1, <3>1, <3>3, RienNeChange
      <4> QED BY <4>2, <3>1, <3>3 DEF FaitsAilleurs
    <3> QED BY <2>2, <3>2, <3>3 DEF AppliquerAuxInvitations, AppliquerInvitation,
               AppliquerInvitationConsommee, tablesDesInvitations
  <2>3. CASE AppliquerAuxInscriptions(r, op) /\ UNCHANGED <<tablesDesMachines, tablesDesInvitations>>
    <3>1. /\ \A q \in Racine : MemesMachines(q) /\ ouverts'[q] = ouverts[q]
      BY <2>3 DEF tablesDesMachines, tablesDesInvitations, MemesMachines
    <3>2. op.quoi \in {"inscription", "presentation", "marque", "hebergeur", "locateurs"}
      BY <2>3 DEF AppliquerAuxInscriptions
    <3>3. op \in AuxInscriptions(Emise) /\ Emise \subseteq Estampille
      BY <1>2, <3>2, ChampsInvitations, ChampsMachines DEF OperationDe, Emise
    <3>4. Reception(r, op) BY <2>3, <3>1, <3>3, InscriptionsRecues
    <3>5. \A q \in Racine : q # r => MemesInscriptions(q)
      BY <2>3 DEF AppliquerAuxInscriptions, AppliquerInscription, AppliquerPresentation,
         AppliquerMarque, AppliquerHebergement, AppliquerLocateurs, MemesInscriptions,
         IInv, Racines
    <3> QED BY <3>1, <3>4, <3>5 DEF FaitsAilleurs
  <2>4. CASE op.quoi = "fin" /\ UNCHANGED tables
    <3>1. \A q \in Racine : MemesMachines(q) /\ ouverts'[q] = ouverts[q] /\ MemesInscriptions(q)
      BY <2>4 DEF tables, tablesDesMachines, tablesDesInvitations, tablesDesInscriptions,
         MemesMachines, MemesInscriptions
    <3>2. \A g, k, v : ~Dit(op, g, k, v) BY <2>4 DEF Dit
    <3>3. Reception(r, op) BY <3>1, <3>2, RienNeChange
    <3> QED BY <3>1, <3>3 DEF FaitsAilleurs
  <2> QED BY <1>1, <2>1, <2>2, <2>3, <2>4 DEF Appliquer
<1> QED BY <1>2, <1>4, <1>6, AccordRecu

-----------------------------------------------------------------------------
(* What a root writes.                                                     *)

\* An operation that root r journals under the stamp e: what it creates bears e.
Neuve(op, e) ==
  /\ op.estampille = e
  /\ op.quoi = "machine" =>
       /\ op.machine = e /\ op.enregistrement.nom = e /\ op.enregistrement.capacites = e
  /\ op.quoi = "inscription" => op.code = e
  /\ op.quoi = "presentation" => op.enregistrement.estampille = e
  /\ op.quoi = "modifiee" => op.champs \subseteq {"nom", "capacites"}

LEMMA FileAllongee ==
  ASSUME IInv, NEW r \in Racine, NEW ops, NEW n \in Nat, ops \in [1..n -> {ops[i] : i \in 1..n}],
         JournaliserTout(r, ops)
  PROVE  Allonge(r, ops)
<1> DEFINE s == enRoute[Pair[r]]
           U == OperationDe(Emise)
           T == U \cup {ops[i] : i \in 1..n}
<1>1. Pair[r] \in Racine BY DeuxRacines
<1>2. s \in Seq(U) BY <1>1, EnRouteType
<1>3. enRoute'[Pair[r]] = s \o ops /\ \A q \in Racine : q # Pair[r] => enRoute'[q] = enRoute[q]
  BY <1>1 DEF JournaliserTout, IInv, Voies
<1> HIDE DEF s, U
<1>4. s \in Seq(T) BY <1>2
<1>5. ops \in Seq(T)
  <2>1. ops \in [1..n -> T] OBVIOUS
  <2> HIDE DEF T
  <2> QED BY <2>1
<1> HIDE DEF T
<1>6. Jointe(enRoute'[Pair[r]], s, ops) BY <1>3, <1>4, <1>5, SuiteJointe
<1> QED BY <1>3, <1>6 DEF Allonge, s

\* One operation, that does here what it will do on the other root.
LEMMA AccordEcritUne ==
  ASSUME IInv, IInv', Accord, NEW r \in Racine, NEW op, Journaliser(r, op),
         \A p \in Racine : ouverts[p] \subseteq ouverts'[p],
         Neuve(op, Suivante(r)), OperationSaine(op), FaitsAilleurs(r), Reception(r, op),
         \A m : Suppose(op, m) => Attachee(r, m)
  PROVE  Accord' /\ Ancien
<1> DEFINE ops == <<op>>
           e == Suivante(r)
<1>1. Emise \subseteq Emise' /\ e \notin Emise BY AvanceeDUne DEF Avance
<1>2. DOMAIN ops = {1} /\ ops[1] = op OBVIOUS
<1>3. Allonge(r, ops)
  <2>1. JournaliserTout(r, ops) BY DEF Journaliser
  <2>2. ops \in [1..1 -> {ops[i] : i \in 1..1}] OBVIOUS
  <2> HIDE DEF ops
  <2> QED BY <2>1, <2>2, FileAllongee
<1> HIDE DEF ops, e
<1>4. \A g, k, v : /\ Porte(op, g, k, v) <=> Dit(op, g, k, v)
                   /\ g \in Uniques /\ Dit(op, g, k, v) => Origine(g, k, v) = e
  <2>0. Neuve(op, e) BY DEF e
  <2>1. \A g, k, v : Porte(op, g, k, v) <=> Dit(op, g, k, v) BY <2>0 DEF Porte, Dit, Neuve
  <2>2. ASSUME NEW g \in Uniques, NEW k, NEW v, Dit(op, g, k, v) PROVE Origine(g, k, v) = e
    BY <2>0, <2>2 DEF Dit, Neuve, Uniques, Origine
  <2> QED BY <2>1, <2>2
<1>5. \A g, k, v : /\ DitPar(ops, g, k, v) <=> Dit(op, g, k, v)
                   /\ PortePar(ops, g, k, v) <=> Porte(op, g, k, v)
  BY <1>2 DEF DitPar, PortePar
<1>6. /\ Progres(r)
      /\ \A g, k, v : Tenu(r, g, k, v)' => Tenu(r, g, k, v) \/ Porte(op, g, k, v)
      /\ Ancien => \A g, k, v : Dit(op, g, k, v) => Su(r, g, k, v)'
      /\ \A m \in DOMAIN machines'[r] : Saine(m, machines'[r][m])
  BY DEF Reception
<1>7. \A g, k, v : Tenu(r, g, k, v)' => Tenu(r, g, k, v) \/ DitPar(ops, g, k, v)
  BY <1>4, <1>5, <1>6
<1>8. \A g \in Uniques : \A k, v : PortePar(ops, g, k, v) => Origine(g, k, v) \notin Emise
  BY <1>1, <1>4, <1>5
<1>9. \A g \in Uniques : \A k, v, w :
        PortePar(ops, g, k, v) /\ PortePar(ops, g, k, w) => v = w
  BY <1>5, UneSeuleValeur DEF Neuve
<1>10. Ancien => \A g, k, v : PortePar(ops, g, k, v) => Su(r, g, k, v)'
  BY <1>4, <1>5, <1>6
<1>11. Ecriture(r, ops) BY <1>2, <1>6, <1>7, <1>8, <1>9, <1>10 DEF Ecriture
<1> QED BY <1>1, <1>3, <1>11, AccordEcrit

\* The tables of machines, on the roots that do not write.
LEMMA MachinesAilleurs ==
  ASSUME IInv, NEW r \in Racine, NEW f, NEW g, NEW h,
         effaces' = effaces \/ effaces' = [effaces EXCEPT ![r] = f],
         machines' = machines \/ machines' = [machines EXCEPT ![r] = g],
         services' = services \/ services' = [services EXCEPT ![r] = h],
         UNCHANGED <<tablesDesInvitations, tablesDesInscriptions>>
  PROVE  /\ FaitsAilleurs(r) /\ ouverts'[r] = ouverts[r] /\ MemesInscriptions(r)
         /\ \A p \in Racine : ouverts[p] \subseteq ouverts'[p]
<1>1. \A q \in Racine : MemesInscriptions(q) /\ ouverts'[q] = ouverts[q]
  BY DEF tablesDesInvitations, tablesDesInscriptions, MemesInscriptions
<1>2. \A q \in Racine \ {r} : MemesMachines(q) BY DEF MemesMachines, IInv, Racines
<1> QED BY <1>1, <1>2 DEF FaitsAilleurs

LEMMA AccordDeCreerMachine ==
  ASSUME IInv, IInv', Accord, NEW r \in Racine, NEW c \in Titulaires, CreerMachine(r, c),
         UNCHANGED <<tablesDesInvitations, tablesDesInscriptions>>
  PROVE  Accord' /\ Ancien
<1> DEFINE m == Suivante(r)
           v == Machine(c, m)
           op == [quoi |-> "machine", estampille |-> m, machine |-> m, enregistrement |-> v]
           g == Poser(machines[r], m, v)
<1>1. /\ machines' = [machines EXCEPT ![r] = g]
      /\ Journaliser(r, op) /\ UNCHANGED <<effaces, services>>
  BY DEF CreerMachine
<1>2. machines'[r] = g BY <1>1 DEF IInv, Racines
<1>3. op.quoi = "machine" /\ op.machine = m /\ op.enregistrement = v /\ op.estampille = m
  OBVIOUS
<1>4. v.nom = m /\ v.capacites = m /\ v.estampille = m BY DEF Machine
<1> HIDE DEF op, v, g
<1>5. /\ FaitsAilleurs(r) /\ ouverts'[r] = ouverts[r] /\ MemesInscriptions(r)
      /\ \A p \in Racine : ouverts[p] \subseteq ouverts'[p]
  BY <1>1, MachinesAilleurs
<1>6. m \notin Emise /\ m \in Emise' BY <1>1, <1>5, AvanceeDUne
<1> HIDE DEF m
<1>7. m \notin DOMAIN machines[r] BY <1>6, MachineTypee
<1>8. m \in Estampille BY <1>6 DEF Emise
<1>9. Saine(m, v) BY <1>4, <1>8, OrdreTotal DEF Saine, PlusTard
<1>10. effaces'[r] = effaces[r] /\ services'[r] = services[r] BY <1>1
<1>11. Reception(r, op) BY <1>2, <1>3, <1>5, <1>7, <1>9, <1>10, MachinePosee DEF g
<1>12. Neuve(op, Suivante(r)) /\ OperationSaine(op) /\ \A x : ~Suppose(op, x)
  BY <1>3, <1>4, <1>9 DEF Neuve, OperationSaine, Suppose, m
<1> QED BY <1>1, <1>5, <1>11, <1>12, AccordEcritUne

LEMMA AccordDeModifierMachine ==
  ASSUME IInv, IInv', Accord, NEW r \in Racine, NEW m \in DOMAIN machines[r],
         ModifierMachine(r, m), UNCHANGED <<tablesDesInvitations, tablesDesInscriptions>>
  PROVE  Accord' /\ Ancien
<1> DEFINE e == Suivante(r)
           f == machines[r]
           u == f[m]
<1>1. PICK champs \in (SUBSET {"nom", "capacites"}) \ {{}} :
        /\ machines' = [machines EXCEPT ![r][m] = Modifiee(@, champs, e)]
        /\ Journaliser(r, [quoi |-> "modifiee", estampille |-> e, machine |-> m,
                           champs |-> champs])
        /\ UNCHANGED <<effaces, services>>
  BY DEF ModifierMachine
<1> DEFINE op == [quoi |-> "modifiee", estampille |-> e, machine |-> m, champs |-> champs]
           v == Modifiee(u, champs, e)
           g == [f EXCEPT ![m] = v]
<1>2. /\ op.quoi = "modifiee" /\ op.machine = m /\ op.champs = champs /\ op.estampille = e
      /\ Journaliser(r, op)
  BY <1>1
<1>3. machines' = [machines EXCEPT ![r] = g] /\ machines'[r] = g BY <1>1 DEF IInv, Racines
<1>4. /\ u \in [proprietaire : Titulaires, estampille : Emise, nom : Emise,
                capacites : Emise]
      /\ u.nom \in Estampille /\ u.capacites \in Estampille
      /\ u.nom.compteur <= compteur[r] /\ u.capacites.compteur <= compteur[r]
  BY MachineTypee
<1> HIDE DEF op
<1>5. /\ FaitsAilleurs(r) /\ ouverts'[r] = ouverts[r] /\ MemesInscriptions(r)
      /\ \A p \in Racine : ouverts[p] \subseteq ouverts'[p]
  <2> HIDE DEF g
  <2> QED BY <1>1, <1>3, MachinesAilleurs
<1>6. e \in Estampille /\ e.compteur = compteur[r] + 1 /\ compteur[r] \in Nat
  BY <1>2, <1>5, AvanceeDUne DEF Emise
<1>7. Avant(u.nom, e) /\ Avant(u.capacites, e)
  <2>1. u.nom.compteur \in Nat /\ u.capacites.compteur \in Nat BY <1>4 DEF Estampille
  <2> HIDE DEF e, u
  <2> QED BY <2>1, <1>4, <1>6 DEF Avant
<1> HIDE DEF e, u
<1>8. /\ v.proprietaire = u.proprietaire /\ v.estampille = e
      /\ v.nom = IF "nom" \in champs THEN e ELSE u.nom
      /\ v.capacites = IF "capacites" \in champs THEN e ELSE u.capacites
  BY <1>4 DEF Modifiee
<1> HIDE DEF v
<1>9. ~Avant(e, e) /\ ~Avant(e, u.nom) /\ ~Avant(e, u.capacites) /\ ~Avant(u.nom, u.nom)
      /\ ~Avant(u.capacites, u.capacites)
  BY <1>4, <1>6, <1>7, OrdreTotal
<1>10. "nom" \in champs \/ "capacites" \in champs OBVIOUS
<1>11. v.estampille = PlusTard(v.nom, v.capacites) BY <1>7, <1>8, <1>9, <1>10 DEF PlusTard
<1>12. effaces'[r] = effaces[r] /\ services'[r] = services[r] BY <1>1
<1>13. Reception(r, op)
  <2>1. u = machines[r][m] /\ machines'[r] = [machines[r] EXCEPT ![m] = v] BY <1>3 DEF u
  <2>2. /\ v.nom = u.nom \/ ("nom" \in op.champs /\ v.nom = e)
        /\ v.capacites = u.capacites \/ ("capacites" \in op.champs /\ v.capacites = e)
    BY <1>2, <1>8
  <2>3. /\ ~Avant(v.nom, u.nom) /\ ~Avant(v.capacites, u.capacites)
        /\ "nom" \in op.champs => ~Avant(v.nom, e)
        /\ "capacites" \in op.champs => ~Avant(v.capacites, e)
    BY <1>2, <1>8, <1>9
  <2>4. op.champs \subseteq {"nom", "capacites"} BY <1>2
  <2>5. op.quoi = "modifiee" /\ m = op.machine /\ e = op.estampille BY <1>2
  <2>6. e \in Estampille /\ ouverts'[r] = ouverts[r] /\ MemesInscriptions(r) BY <1>5, <1>6
  <2>7. v.proprietaire = u.proprietaire BY <1>8
  <2> HIDE DEF f, g
  <2> QED BY <2>1, <2>2, <2>3, <2>4, <2>5, <2>6, <2>7, <1>11, <1>12, MachineChangee
<1>14. Neuve(op, Suivante(r)) /\ OperationSaine(op) /\ \A x : Suppose(op, x) => Attachee(r, x)
  BY <1>2 DEF Neuve, OperationSaine, Suppose, e, Attachee
<1> QED BY <1>2, <1>5, <1>13, <1>14, AccordEcritUne

LEMMA AccordDeDeclarerService ==
  ASSUME IInv, IInv', Accord, NEW r \in Racine, NEW m, Attachee(r, m),
         NEW nom \in Noms, DeclarerService(r, m, nom),
         UNCHANGED <<tablesDesInvitations, tablesDesInscriptions>>
  PROVE  Accord' /\ Ancien
<1> DEFINE e == Suivante(r)
           c == [machine |-> m, nom |-> nom]
           f == services[r]
           h == Poser(f, c, e)
           op == [quoi |-> "service", estampille |-> e, service |-> c]
<1>1. /\ c \notin DOMAIN f /\ services' = [services EXCEPT ![r] = h]
      /\ Journaliser(r, op) /\ UNCHANGED <<effaces, machines>>
  BY DEF DeclarerService
<1>2. op.quoi = "service" /\ op.service = c /\ op.estampille = e /\ c.machine = m OBVIOUS
<1>3. services'[r] = h BY <1>1 DEF IInv, Racines
<1> HIDE DEF op, c, h
<1>4. /\ FaitsAilleurs(r) /\ ouverts'[r] = ouverts[r] /\ MemesInscriptions(r)
      /\ \A p \in Racine : ouverts[p] \subseteq ouverts'[p]
  BY <1>1, MachinesAilleurs
<1>5. e \in Estampille BY <1>1, <1>4, AvanceeDUne DEF Emise
<1> HIDE DEF e
<1>6. services'[r] = Poser(f, c, IF c \in DOMAIN f THEN PlusTot(f[c], e) ELSE e)
  BY <1>1, <1>3 DEF h
<1>7. Reception(r, op) BY <1>1, <1>2, <1>4, <1>5, <1>6, ServicePose
<1>8. Neuve(op, Suivante(r)) /\ OperationSaine(op) /\ \A x : Suppose(op, x) => Attachee(r, x)
  BY <1>2 DEF Neuve, OperationSaine, Suppose, e
<1> QED BY <1>1, <1>4, <1>7, <1>8, AccordEcritUne

LEMMA AccordDeEffacerCompte ==
  ASSUME IInv, IInv', Accord, NEW r \in Racine, NEW c \in Titulaires, EffacerCompte(r, c),
         UNCHANGED <<tablesDesInvitations, tablesDesInscriptions>>
  PROVE  Accord' /\ Ancien
<1> DEFINE e == Suivante(r)
           op == [quoi |-> "efface", estampille |-> e, compte |-> c]
<1>1. EffacerLesMachines(r, c) /\ Journaliser(r, op) BY DEF EffacerCompte
<1>2. op.quoi = "efface" /\ op.compte = c /\ op.estampille = e OBVIOUS
<1> HIDE DEF op
<1>3. /\ FaitsAilleurs(r) /\ ouverts'[r] = ouverts[r] /\ MemesInscriptions(r)
      /\ \A p \in Racine : ouverts[p] \subseteq ouverts'[p]
  BY <1>1, MachinesAilleurs DEF EffacerLesMachines
<1>4. Reception(r, op) BY <1>1, <1>2, <1>3, EffaceRecu
<1>5. Neuve(op, Suivante(r)) /\ OperationSaine(op) /\ \A x : ~Suppose(op, x)
  BY <1>2 DEF Neuve, OperationSaine, Suppose, e
<1> QED BY <1>1, <1>3, <1>4, <1>5, AccordEcritUne

-----------------------------------------------------------------------------
\* A write of the inscriptions: its own operation, under a stamp of its own.
LEMMA AccordDEcrire ==
  ASSUME IInv, IInv', Accord, NEW r \in Racine, UNCHANGED tablesDesInvitations,
         NEW op \in AuxInscriptions(Emise'), Ecrire(r, op), Neuve(op, Suivante(r))
  PROVE  Accord' /\ Ancien
<1>1. /\ AppliquerAuxInscriptions(r, op) /\ Journaliser(r, op) /\ UNCHANGED tablesDesMachines
  BY DEF Ecrire
<1>2. op.quoi \in {"inscription", "presentation", "marque", "hebergeur", "locateurs"}
  BY ChampsInscriptions
<1>3. /\ \A q \in Racine : MemesMachines(q) /\ ouverts'[q] = ouverts[q]
      /\ \A q \in Racine : q # r => MemesInscriptions(q)
  <2>1. \A q \in Racine : MemesMachines(q) /\ ouverts'[q] = ouverts[q]
    BY <1>1 DEF tablesDesMachines, tablesDesInvitations, MemesMachines
  <2>2. \A q \in Racine : q # r => MemesInscriptions(q)
    BY <1>1 DEF AppliquerAuxInscriptions, AppliquerInscription, AppliquerPresentation,
       AppliquerMarque, AppliquerHebergement, AppliquerLocateurs, MemesInscriptions, IInv,
       Racines
  <2> QED BY <2>1, <2>2
<1>4. FaitsAilleurs(r) BY <1>3 DEF FaitsAilleurs
<1>5. \A p \in Racine : ouverts[p] \subseteq ouverts'[p] BY <1>3
<1>6. Emise' \subseteq Estampille BY DEF Emise
<1>7. Reception(r, op) BY <1>1, <1>3, <1>6, InscriptionsRecues
<1>8. OperationSaine(op) /\ \A m : ~Suppose(op, m)
  BY <1>2 DEF OperationSaine, Suppose
<1> QED BY <1>1, <1>4, <1>5, <1>7, <1>8, AccordEcritUne

LEMMA AccordDeConfierDomaine ==
  ASSUME IInv, IInv', Accord, NEW r \in Racine, NEW d \in DOMAIN DomaineDe,
         NEW a \in Membres \cup {SansAnnuaire}, ConfierDomaine(r, d, a),
         UNCHANGED tablesDesInvitations
  PROVE  Accord' /\ Ancien
<1> DEFINE e == Suivante(r)
           o == [quoi |-> "hebergeur", estampille |-> e, domaine |-> d, annuaire |-> a]
<1>1. Ecrire(r, o) BY DEF ConfierDomaine
<1>2. e \in Emise'
  <2>1. Journaliser(r, o) BY <1>1 DEF Ecrire
  <2>2. \A p \in Racine : ouverts[p] \subseteq ouverts'[p] BY DEF tablesDesInvitations
  <2> QED BY <2>1, <2>2, AvanceeDUne DEF Avance
<1>3. Neuve(o, e) BY DEF Neuve
<1> HIDE DEF e
<1>4. o \in AuxInscriptions(Emise') BY <1>2 DEF AuxInscriptions
<1> HIDE DEF o
<1> QED BY <1>1, <1>3, <1>4, AccordDEcrire DEF e

LEMMA AccordDEcrireUneInscription ==
  ASSUME IInv, IInv', Accord, NEW r \in Racine, EcrireUneInscription(r),
         UNCHANGED tablesDesInvitations
  PROVE  Accord' /\ Ancien
<1> DEFINE e == Suivante(r)
<1>1. ASSUME NEW operation, Ecrire(r, operation)
      PROVE  e \in Emise' /\ Emise \subseteq Emise'
  <2>1. Journaliser(r, operation) BY <1>1 DEF Ecrire
  <2>2. \A p \in Racine : ouverts[p] \subseteq ouverts'[p] BY DEF tablesDesInvitations
  <2> QED BY <2>1, <2>2, AvanceeDUne DEF Avance
<1>2. ASSUME NEW c \in Titulaires, NEW a \in Membres \cup {SansAnnuaire},
             DeclarerAnnuaire(r, c, a)
      PROVE  Accord' /\ Ancien
  <2> DEFINE o == [quoi |-> "inscription", estampille |-> e, code |-> e,
                   enregistrement |-> [proprietaire |-> c, annuaire |-> a]]
  <2>1. Ecrire(r, o) BY <1>2 DEF DeclarerAnnuaire
  <2>2. e \in Emise' BY <1>1, <2>1
  <2>3. Neuve(o, e) BY DEF Neuve
  <2> HIDE DEF e
  <2>4. o \in AuxInscriptions(Emise') BY <2>2 DEF AuxInscriptions, Declaration
  <2> HIDE DEF o
  <2> QED BY <2>1, <2>3, <2>4, AccordDEcrire DEF e
<1>3. ASSUME NEW code \in DOMAIN declarations[r], NEW m \in Membres,
             PresenterUnCode(r, code, m)
      PROVE  Accord' /\ Ancien
  <2> DEFINE o == [quoi |-> "presentation", estampille |-> e, code |-> code,
                   enregistrement |-> [membre |-> m, estampille |-> e]]
  <2>1. Ecrire(r, o) BY <1>3 DEF PresenterUnCode
  <2>2. e \in Emise' /\ Emise \subseteq Emise' BY <1>1, <2>1
  <2>3. code \in Emise' BY <2>2 DEF IInv, Locale, InscriptionsDe, TableDe
  <2>4. Neuve(o, e) BY DEF Neuve
  <2> HIDE DEF e
  <2>5. o \in AuxInscriptions(Emise') BY <2>2, <2>3 DEF AuxInscriptions, PresentationDe
  <2> HIDE DEF o
  <2> QED BY <2>1, <2>4, <2>5, AccordDEcrire DEF e
<1>4. ASSUME NEW m \in Membres, NEW genre \in Genre, Decider(r, m, genre)
      PROVE  Accord' /\ Ancien
  <2> DEFINE o == [quoi |-> "marque", estampille |-> e, marque |-> Marque(genre, m)]
  <2>1. Ecrire(r, o) BY <1>4 DEF Decider
  <2>2. e \in Emise' BY <1>1, <2>1
  <2>3. Neuve(o, e) BY DEF Neuve
  <2> HIDE DEF e
  <2>4. Marque(genre, m) \in MarqueDe BY DEF Marque, MarqueDe
  <2>5. o \in AuxInscriptions(Emise') BY <2>2, <2>4 DEF AuxInscriptions
  <2> HIDE DEF o
  <2> QED BY <2>1, <2>3, <2>5, AccordDEcrire DEF e
<1>5. ASSUME NEW m \in Membres, PublierLocateurs(r, m)
      PROVE  Accord' /\ Ancien
  <2> DEFINE o == [quoi |-> "locateurs", estampille |-> e, membre |-> m]
  <2>1. Ecrire(r, o) BY <1>5 DEF PublierLocateurs
  <2>2. e \in Emise' BY <1>1, <2>1
  <2>3. Neuve(o, e) BY DEF Neuve
  <2> HIDE DEF e
  <2>4. o \in AuxInscriptions(Emise') BY <2>2 DEF AuxInscriptions
  <2> HIDE DEF o
  <2> QED BY <2>1, <2>3, <2>4, AccordDEcrire DEF e
<1> QED BY <1>2, <1>3, <1>4, <1>5 DEF EcrireUneInscription

\* Only the facts and the queues count.
LEMMA AccordIntact ==
  ASSUME Accord, enRoute' = enRoute,
         \A g, k, v : /\ \A q \in Racine : Tenu(q, g, k, v)' <=> Tenu(q, g, k, v)
                      /\ \A q \in Racine : Su(q, g, k, v)' <=> Su(q, g, k, v),
         machines' = machines, effaces' = effaces
  PROVE  Accord' /\ Ancien
<1>1. \A g, k, v : Vu(g, k, v)' <=> Vu(g, k, v) BY DEF Vu
<1>2. \A q \in Racine : Pair[q] \in Racine BY DeuxRacines
<1>3. Unicite' BY <1>1 DEF Accord, Unicite
<1>4. ASSUME NEW q \in Racine PROVE Verite(q)' /\ Couverture(q)' /\ Saines(q)'
  BY <1>2 DEF Accord, Verite, Couverture, Saines
<1>5. \A q \in Racine : \A m : Delaisse(q, m)' <=> Delaisse(q, m) BY <1>1 DEF Delaisse
<1>6. \A q \in Racine : \A i \in DOMAIN enRoute[q] : Precedee(q, i)'
  BY <1>5 DEF Accord, Precedee, Connu
<1>7. Ancien BY <1>1 DEF Ancien
<1> QED BY <1>3, <1>4, <1>6, <1>7 DEF Accord

LEMMA AccordSansFait ==
  ASSUME Accord, enRoute' = enRoute, UNCHANGED <<tablesDesMachines, tablesDesInscriptions>>,
         ouverts' = ouverts
  PROVE  Accord' /\ Ancien
<1>1. /\ machines' = machines /\ effaces' = effaces /\ services' = services
      /\ declarations' = declarations /\ presentations' = presentations
      /\ marques' = marques /\ hebergements' = hebergements /\ locateurs' = locateurs
  BY DEF tablesDesMachines, tablesDesInscriptions
<1>2. \A q, g : Faits(q, g)' = Faits(q, g) BY <1>1 DEF Faits
<1>3. \A g, k, v : \A q \in Racine : Tenu(q, g, k, v)' <=> Tenu(q, g, k, v)
  BY <1>2 DEF Tenu
<1>4. \A g, k, v : Vu(g, k, v)' <=> Vu(g, k, v) BY <1>3 DEF Vu
<1>5. \A q \in Racine : \A m : Delaisse(q, m)' <=> Delaisse(q, m) BY <1>1, <1>4 DEF Delaisse
<1>6. \A g, k, v : \A q \in Racine : Su(q, g, k, v)' <=> Su(q, g, k, v)
  BY <1>2, <1>5 DEF Su
<1> QED BY <1>1, <1>3, <1>6, AccordIntact

-----------------------------------------------------------------------------
(* Invitations.                                                            *)

LEMMA AccordDEmettre ==
  ASSUME IInv, IInv', Accord, NEW r \in Racine, EmettreInvitation(r),
         UNCHANGED <<tablesDesMachines, tablesDesInscriptions>>
  PROVE  Accord' /\ Ancien
<1> DEFINE e == Suivante(r)
           op == [quoi |-> "invitation", estampille |-> e, invitation |-> e,
                  etat |-> "vivante"]
<1>1. Journaliser(r, op) /\ ouverts' = ouverts BY DEF EmettreInvitation
<1>2. op.quoi = "invitation" /\ op.estampille = e OBVIOUS
<1> HIDE DEF op
<1>3. \A q \in Racine : MemesMachines(q) /\ ouverts'[q] = ouverts[q] /\ MemesInscriptions(q)
  BY <1>1 DEF tablesDesMachines, tablesDesInscriptions, MemesMachines, MemesInscriptions
<1>4. FaitsAilleurs(r) /\ \A p \in Racine : ouverts[p] \subseteq ouverts'[p]
  BY <1>3 DEF FaitsAilleurs
<1>5. \A g, k, v : ~Dit(op, g, k, v) BY <1>2 DEF Dit
<1>6. Reception(r, op) BY <1>3, <1>5, RienNeChange
<1>7. Neuve(op, Suivante(r)) /\ OperationSaine(op) /\ \A m : ~Suppose(op, m)
  BY <1>2 DEF Neuve, OperationSaine, Suppose, e
<1> QED BY <1>1, <1>4, <1>6, <1>7, AccordEcritUne

LEMMA AccordDeCreerCompte ==
  ASSUME IInv, IInv', Accord, NEW r \in Racine, NEW i \in DOMAIN invitations[r],
         CreerCompteSurInvitation(r, i), UNCHANGED <<tablesDesMachines, tablesDesInscriptions>>
  PROVE  Accord' /\ Ancien
<1> DEFINE e1 == Prochaine(r, 1)
           e2 == Prochaine(r, 2)
           e3 == Prochaine(r, 3)
           o1 == [quoi |-> "consommee", estampille |-> e1, invitation |-> i]
           o2 == [quoi |-> "ouvert", estampille |-> e2, par |-> i, compte |-> e2]
           o3 == [quoi |-> "premier", estampille |-> e3, compte |-> e2]
           ops == <<o1, o2, o3>>
           a == [par |-> i, compte |-> e2]
<1>1. /\ ouverts' = [ouverts EXCEPT ![r] = @ \cup {a}] /\ JournaliserTout(r, ops)
  BY DEF CreerCompteSurInvitation, Suivante
<1>2. /\ o1.quoi = "consommee" /\ o2.quoi = "ouvert" /\ o3.quoi = "premier"
      /\ a = [par |-> o2.par, compte |-> o2.compte]
  OBVIOUS
<1>3. /\ ouverts'[r] = ouverts[r] \cup {a}
      /\ \A q \in Racine \ {r} : ouverts'[q] = ouverts[q]
  BY <1>1 DEF IInv, Racines
<1>4. \A p \in Racine : ouverts[p] \subseteq ouverts'[p] BY <1>3
<1>5. \A q \in Racine : MemesMachines(q) /\ MemesInscriptions(q)
  BY DEF tablesDesMachines, tablesDesInscriptions, MemesMachines, MemesInscriptions
<1>6. FaitsAilleurs(r) BY <1>3, <1>5 DEF FaitsAilleurs
<1>7. Len(ops) = 3 /\ DOMAIN ops = {1, 2, 3} /\ ops[1] = o1 /\ ops[2] = o2 /\ ops[3] = o3
  OBVIOUS
<1>8. ops \in [1..3 -> {ops[j] : j \in 1..3}]
  <2>1. ops \in [{1, 2, 3} -> {ops[j] : j \in {1, 2, 3}}] OBVIOUS
  <2>2. 1..3 = {1, 2, 3} OBVIOUS
  <2> HIDE DEF ops
  <2> QED BY <2>1, <2>2
<1> HIDE DEF ops, o1, o2, o3, a, e1, e2, e3
<1>9. Emise \subseteq Emise'
  <2>1. Len(ops) \in Nat BY <1>7
  <2> QED BY <2>1, <1>1, <1>4, Avancee DEF Avance
<1>10. Allonge(r, ops) BY <1>1, <1>8, FileAllongee
<1>11. \A j \in DOMAIN ops : \A g, k, v :
         Porte(ops[j], g, k, v) <=> j = 2 /\ g = "ouvert" /\ k = a /\ v = a
  BY <1>2, <1>7 DEF Porte, Dit
<1>12. \A g, k, v : /\ PortePar(ops, g, k, v) => g = "ouvert" /\ k = a /\ v = a
                    /\ DitPar(ops, g, k, v) <=> g = "ouvert" /\ k = a /\ v = a
  <2>1. Dit(ops[2], "ouvert", a, a) BY <1>2, <1>7 DEF Dit
  <2> QED BY <2>1, <1>7, <1>11 DEF PortePar, DitPar, Porte
<1>13. /\ Progres(r)
       /\ \A g, k, v : Tenu(r, g, k, v)' => Tenu(r, g, k, v) \/ Porte(o2, g, k, v)
       /\ Ancien => \A g, k, v : Dit(o2, g, k, v) => Su(r, g, k, v)'
       /\ \A m \in DOMAIN machines'[r] : Saine(m, machines'[r][m])
  <2>1. ouverts'[r] = ouverts[r] \cup {[par |-> o2.par, compte |-> o2.compte]} BY <1>2, <1>3
  <2>2. Reception(r, o2) BY <2>1, <1>2, <1>5, OuvertRecu
  <2> QED BY <2>2 DEF Reception
<1>14. \A g, k, v : PortePar(ops, g, k, v) => Dit(o2, g, k, v)
  BY <1>2, <1>12 DEF Dit
<1>16. \A g, k, v : Tenu(r, g, k, v)' => Tenu(r, g, k, v) \/ DitPar(ops, g, k, v)
  <2>1. \A g, k, v : Porte(o2, g, k, v) => DitPar(ops, g, k, v) BY <1>7, <1>11, <1>12
  <2> QED BY <2>1, <1>13
<1>17. \A g \in Uniques : g # "ouvert" BY DEF Uniques
<1>18. \A j \in DOMAIN ops : OperationSaine(ops[j]) /\ \A m : ~Suppose(ops[j], m)
  BY <1>2, <1>7 DEF OperationSaine, Suppose
<1>19. /\ \A g \in Uniques : \A k, v : ~PortePar(ops, g, k, v)
       /\ Ancien => \A g, k, v : PortePar(ops, g, k, v) => Su(r, g, k, v)'
  BY <1>12, <1>13, <1>14, <1>17
<1>20. Ecriture(r, ops) BY <1>13, <1>16, <1>18, <1>19 DEF Ecriture
<1> QED BY <1>6, <1>9, <1>10, <1>20, AccordEcrit

-----------------------------------------------------------------------------
\* The request that is served: its machine is there, or was that of an account erased
\* on both roots.
LEMMA DemandeAttachee ==
  ASSUME IInv, Requetes, Attaches, NEW r \in Racine, NEW q \in Demandes(r), q.quoi = "declarer"
  PROVE  q.machine \in DOMAIN machines[r] \/ Abandonnee(r, q.machine)
<1>1. CASE demande[r] = Repos BY <1>1, LuesTypees DEF Demandes, Fondee
<1>2. CASE demande[r] # Repos BY <1>2 DEF Demandes, Attaches, Attachees, Nommees
<1> QED BY <1>1, <1>2

LEMMA AccordDeDemander ==
  ASSUME IInv, IInv', Requetes, Accord, Attaches, NEW r \in Racine, Demander(r)
  PROVE  Accord' /\ Ancien
<1>1. PICK q \in Demandes(r) : Servir(r, q) BY DEF Demander
<1>2. q \in RequeteDe(Emise) BY DemandeTypee
<1>3. CASE q.quoi = "creer" /\ CreerMachine(r, q.compte)
  <2>1. q.compte \in Titulaires BY <1>2, <1>3, RequeteTypee
  <2>2. UNCHANGED <<tablesDesInvitations, tablesDesInscriptions>> BY <1>1, <1>3 DEF Servir
  <2> QED BY <2>1, <2>2, <1>3, AccordDeCreerMachine
<1>4. CASE q.quoi = "declarer" /\ DeclarerService(r, q.machine, q.nom)
  <2>1. q.machine \in Emise /\ q.nom \in Noms BY <1>2, <1>4, RequeteTypee
  <2>2. UNCHANGED <<tablesDesInvitations, tablesDesInscriptions>> BY <1>1, <1>4 DEF Servir
  <2>3. Attachee(r, q.machine)
    BY <2>1, <1>4, DemandeAttachee, DeuxRacines DEF Attachee, Abandonnee
  <2> QED BY <2>1, <2>2, <2>3, <1>4, AccordDeDeclarerService
<1>5. CASE q.quoi = "confier" /\ ConfierDomaine(r, q.domaine, q.annuaire)
  <2>1. q.domaine \in DOMAIN DomaineDe /\ q.annuaire \in Membres \cup {SansAnnuaire}
    BY <1>2, <1>5, RequeteTypee
  <2>2. UNCHANGED tablesDesInvitations BY <1>1, <1>5 DEF Servir
  <2> QED BY <2>1, <2>2, <1>5, AccordDeConfierDomaine
<1> QED BY <1>1, <1>3, <1>4, <1>5 DEF Servir

LEMMA AccordDEcrit ==
  ASSUME IInv, IInv', Accord, NEW r \in Racine, Ecrit(r)
  PROVE  Accord' /\ Ancien
<1>1. CASE EcrireDesMachines(r)
  <2>1. /\ UNCHANGED <<tablesDesInvitations, tablesDesInscriptions>>
        /\ \E m \in DOMAIN machines[r] : ModifierMachine(r, m)
    BY <1>1 DEF EcrireDesMachines, Vivantes
  <2> QED BY <2>1, AccordDeModifierMachine
<1>2. CASE EcrireDesInvitations(r)
  <2>1. UNCHANGED <<tablesDesMachines, tablesDesInscriptions>>
    BY <1>2 DEF EcrireDesInvitations
  <2>2. CASE ExpirerLesInvitations(r) \/ \E i : Perimer(i)
    <3>1. enRoute' = enRoute /\ ouverts' = ouverts
      BY <2>2 DEF ExpirerLesInvitations, Perimer, voie
    <3> QED BY <2>1, <3>1, AccordSansFait
  <2>3. CASE EmettreInvitation(r) BY <2>1, <2>3, AccordDEmettre
  <2>4. CASE \E i \in DOMAIN invitations[r] : CreerCompteSurInvitation(r, i)
    BY <2>1, <2>4, AccordDeCreerCompte
  <2> QED BY <1>2, <2>2, <2>3, <2>4 DEF EcrireDesInvitations
<1>3. CASE EcrireDesInscriptions(r)
  BY <1>3, AccordDEcrireUneInscription DEF EcrireDesInscriptions
<1>4. CASE EffacerUnCompte(r) BY <1>4, AccordDeEffacerCompte DEF EffacerUnCompte
<1> QED BY <1>1, <1>2, <1>3, <1>4 DEF Ecrit

LEMMA AccordSuivant ==
  IInv /\ IInv' /\ Requetes /\ Accord /\ Attaches /\ [Next]_vars => Accord' /\ Ancien
<1> SUFFICES ASSUME IInv, IInv', Requetes, Accord, Attaches, [Next]_vars
             PROVE  Accord' /\ Ancien
  OBVIOUS
<1>1. CASE UNCHANGED vars
  <2>1. /\ enRoute' = enRoute /\ UNCHANGED <<tablesDesMachines, tablesDesInscriptions>>
        /\ ouverts' = ouverts
    BY <1>1 DEF vars, voie, tables, tablesDesInvitations
  <2> QED BY <2>1, AccordSansFait
<1>2. ASSUME NEW r \in Racine, Tarder(r) \/ Rendre(r) PROVE Accord' /\ Ancien
  <2>1. /\ enRoute' = enRoute /\ UNCHANGED <<tablesDesMachines, tablesDesInscriptions>>
        /\ ouverts' = ouverts
    BY <1>2 DEF Tarder, Rendre, voie, tables, tablesDesInvitations
  <2> QED BY <2>1, AccordSansFait
<1>3. ASSUME NEW r \in Racine, Demander(r) PROVE Accord' /\ Ancien
  BY <1>3, AccordDeDemander
<1>4. ASSUME NEW r \in Racine, Ecrit(r) PROVE Accord' /\ Ancien BY <1>4, AccordDEcrit
<1>5. ASSUME NEW r \in Racine, Recevoir(r) PROVE Accord' /\ Ancien
  BY <1>5, AccordDeRecevoir
<1>6. ASSUME NEW r \in Racine, Amorcer(r) PROVE Accord' /\ Ancien BY <1>6, AccordAmorce
<1> QED BY <1>1, <1>2, <1>3, <1>4, <1>5, <1>6 DEF Next

LEMMA AccordInit == Init => Accord
<1> SUFFICES ASSUME Init PROVE Accord OBVIOUS
<1>1. IInv BY PasInit
<1>2. InitVoie(Depart) /\ InitTables BY DEF Init
<1>3. \A r \in Racine : enRoute[r] = <<>> BY <1>2 DEF InitVoie
<1>4. \A q, r \in Racine :
        /\ effaces[q] = effaces[r] /\ machines[q] = machines[r] /\ services[q] = services[r]
        /\ ouverts[q] = ouverts[r] /\ declarations[q] = declarations[r]
        /\ presentations[q] = presentations[r] /\ marques[q] = marques[r]
        /\ hebergements[q] = hebergements[r] /\ locateurs[q] = locateurs[r]
  BY <1>2 DEF InitTables
<1>5. \A q, r \in Racine : \A g, k, v : Tenu(q, g, k, v) <=> Tenu(r, g, k, v)
  <2>1. ASSUME NEW q \in Racine, NEW r \in Racine, NEW g PROVE Faits(q, g) = Faits(r, g)
    BY <1>4 DEF Faits
  <2> QED BY <2>1 DEF Tenu
<1>6. \A r \in Racine : \A g, k, v :
        ~PortePar(enRoute[r], g, k, v) /\ ~DitPar(enRoute[r], g, k, v)
  BY <1>3 DEF PortePar, DitPar
<1>7. \A r \in Racine : \A g, k, v : Vu(g, k, v) <=> Tenu(r, g, k, v)
  BY <1>5, <1>6 DEF Vu
<1>8. Unicite
  <2>1. ASSUME NEW g, NEW k, NEW v, NEW w, Vu(g, k, v), Vu(g, k, w) PROVE v = w
    <3>1. PICK r \in Racine : TRUE BY <2>1 DEF Vu
    <3> QED BY <2>1, <3>1, <1>7 DEF Tenu
  <2> QED BY <2>1 DEF Unicite
<1>9. ASSUME NEW r \in Racine PROVE Verite(r) /\ Couverture(r)
  <2>1. Pair[r] \in Racine BY DeuxRacines
  <2>2. TousSus BY <1>1, TenusSus
  <2> QED BY <2>1, <2>2, <1>5, <1>6 DEF Verite, Couverture, TousSus
<1>10. ASSUME NEW r \in Racine PROVE Saines(r)
  <2> DEFINE c == E1(2)
  <2>1. machines[r] = (IF part = "machines" THEN Seul(c, Machine(Titulaire1, c)) ELSE <<>>)
    BY <1>2 DEF InitTables
  <2>2. Machine(Titulaire1, c).nom = c /\ Machine(Titulaire1, c).capacites = c
        /\ Machine(Titulaire1, c).estampille = c
    BY DEF Machine
  <2>3. c \in Estampille
    <3>1. Titulaire1 \in Titulaires /\ Titulaire1 \in Estampille
      BY TitulairesAssumption, RegistreAssumption, PremiereDe DEF Titulaire1, Premiere
    <3> QED BY <3>1 DEF E1, Estampille
  <2> HIDE DEF c
  <2>4. Saine(c, Machine(Titulaire1, c))
    BY <2>2, <2>3, OrdreTotal DEF Saine, PlusTard
  <2>5. ASSUME NEW m \in DOMAIN machines[r] PROVE Saine(m, machines[r][m])
    <3>1. CASE part = "machines"
      <4>1. DOMAIN machines[r] = {c} /\ machines[r][c] = Machine(Titulaire1, c)
        BY <2>1, <3>1, Seule
      <4> QED BY <4>1, <2>4
    <3>2. CASE part # "machines"
      <4>1. machines[r] = <<>> BY <2>1, <3>2
      <4> QED BY <4>1
    <3> QED BY <3>1, <3>2
  <2> QED BY <2>5, <1>3 DEF Saines
<1>11. \A r \in Racine : \A i \in DOMAIN enRoute[r] : Precedee(r, i) BY <1>3
<1> QED BY <1>8, <1>9, <1>10, <1>11 DEF Accord

-----------------------------------------------------------------------------
(* The machines that are named and are not there stay those of accounts that *)
(* both roots know as erased.                                              *)

LEMMA NommeesTypees ==
  ASSUME IInv, Requetes, NEW r \in Racine
  PROVE  Nommees(r) \subseteq Emise
<1>1. \A s \in DOMAIN services[r] : s.machine \in Emise BY DEF IInv, Locale, MachinesDe, TableDe
<1>2. demande[r].quoi = "declarer" => demande[r].machine \in Emise
  BY RequeteTypee DEF Requetes
<1> QED BY <1>1, <1>2 DEF Nommees

LEMMA AttacheesRestent ==
  ASSUME IInv, Requetes, Attaches, Ancien, \A q \in Racine : effaces[q] \subseteq effaces'[q],
         NEW r \in Racine,
         \A m : m \in Nommees(r)' => \/ m \in DOMAIN machines'[r] \/ Abandonnee(r, m)'
                                     \/ m \in Nommees(r) /\ m \notin DOMAIN machines[r]
  PROVE  Attachees(r)'
<1>1. ASSUME NEW m \in Nommees(r), m \notin DOMAIN machines[r] PROVE Abandonnee(r, m)'
  <2>1. m \in Emise /\ Abandonnee(r, m) BY <1>1, NommeesTypees DEF Attaches, Attachees
  <2>2. Delaisse(r, m)' /\ Delaisse(Pair[r], m)'
    BY <2>1, DelaisseReste, DeuxRacines DEF Abandonnee
  <2> QED BY <2>2 DEF Abandonnee
<1> QED BY <1>1 DEF Attachees

\* The roots whose tables a step leaves alone, and their requests.
LEMMA AttacheesAilleurs ==
  ASSUME IInv, Requetes, Attaches, Ancien, \A q \in Racine : effaces[q] \subseteq effaces'[q],
         NEW r \in Racine, MemesMachines(r),
         demande'[r] \in {demande[r], Repos} \cup Lues(r)
  PROVE  Attachees(r)'
<1>1. ASSUME NEW m, m \in Nommees(r)'
      PROVE  m \in Nommees(r) \/ m \in DOMAIN machines[r]
  <2>1. CASE \E s \in DOMAIN services'[r] : m = s.machine
    BY <2>1 DEF Nommees, MemesMachines
  <2>2. CASE demande'[r].quoi = "declarer" /\ m = demande'[r].machine
    <3>1. CASE demande'[r] = demande[r] BY <2>2, <3>1 DEF Nommees
    <3>2. CASE demande'[r] \in Lues(r) BY <2>2, <3>2, LuesTypees DEF Fondee
    <3>3. CASE demande'[r] = Repos BY <2>2, <3>3 DEF Repos
    <3> QED BY <3>1, <3>2, <3>3
  <2> QED BY <1>1, <2>1, <2>2 DEF Nommees
<1>2. machines'[r] = machines[r] BY DEF MemesMachines
<1> QED BY <1>1, <1>2, AttacheesRestent

\* What leaves with an account.
LEMMA CeQuiPart ==
  ASSUME Racines, NEW r \in Racine, NEW c, EffacerLesMachines(r, c)
  PROVE  /\ c \in effaces'[r] /\ effaces[r] \subseteq effaces'[r]
         /\ \A q \in Racine \ {r} : MemesMachines(q)
         /\ \A s \in DOMAIN services'[r] :
              /\ s \in DOMAIN services[r]
              /\ s.machine \in DOMAIN machines'[r] \/ s.machine \notin DOMAIN machines[r]
         /\ \A m \in DOMAIN machines[r] \ DOMAIN machines'[r] :
              machines[r][m].proprietaire = c
<1> DEFINE siennes == {m \in DOMAIN machines[r] : machines[r][m].proprietaire = c}
<1>1. /\ effaces'[r] = effaces[r] \cup {c} /\ machines'[r] = Sans(machines[r], siennes)
      /\ services'[r] = Sans(services[r], {s \in DOMAIN services[r] : s.machine \in siennes})
  BY DEF EffacerLesMachines, Racines
<1>2. /\ DOMAIN machines'[r] = DOMAIN machines[r] \ siennes
      /\ DOMAIN services'[r] = {s \in DOMAIN services[r] : s.machine \notin siennes}
  BY <1>1 DEF Sans
<1>3. \A q \in Racine \ {r} : MemesMachines(q)
  BY DEF EffacerLesMachines, Racines, MemesMachines
<1> QED BY <1>1, <1>2, <1>3

LEMMA AttacheesDemandees ==
  ASSUME IInv, Requetes, Attaches, Ancien, NEW r \in Racine, Demander(r)
  PROVE  /\ effaces' = effaces
         /\ Attachees(r)'
<1>1. PICK q \in Demandes(r) : Servir(r, q) BY DEF Demander
<1>2. Racines /\ q \in RequeteDe(Emise) BY <1>1, DemandeTypee DEF IInv
<1>3. demande'[r] = Repos BY DEF Demander, Rendue, Requetes
<1>4. Nommees(r)' = {s.machine : s \in DOMAIN services'[r]} BY <1>3 DEF Nommees, Repos
<1>5. CASE q.quoi = "creer" /\ CreerMachine(r, q.compte)
  <2> DEFINE e == Suivante(r)
             v == Machine(q.compte, e)
  <2>1. /\ machines'[r] = Poser(machines[r], e, v)
        /\ effaces' = effaces /\ services' = services
    BY <1>2, <1>5 DEF CreerMachine, Racines
  <2> HIDE DEF e, v
  <2>2. DOMAIN machines[r] \subseteq DOMAIN machines'[r] BY <2>1 DEF Poser
  <2>3. Nommees(r)' \subseteq Nommees(r) BY <1>4, <2>1 DEF Nommees
  <2> QED BY <2>1, <2>2, <2>3, AttacheesRestent
<1>6. CASE q.quoi = "declarer" /\ DeclarerService(r, q.machine, q.nom)
  <2> DEFINE s == [machine |-> q.machine, nom |-> q.nom]
             e == Suivante(r)
  <2>1. /\ services'[r] = Poser(services[r], s, e)
        /\ effaces' = effaces /\ machines' = machines
    BY <1>2, <1>6 DEF DeclarerService, Racines
  <2>2. s.machine = q.machine OBVIOUS
  <2>3. q.machine \in Emise BY <1>2, <1>6, RequeteTypee
  <2> HIDE DEF s, e
  <2>4. Nommees(r)' \subseteq Nommees(r) \cup {q.machine} BY <1>4, <2>1, <2>2 DEF Nommees, Poser
  <2>5. q.machine \in DOMAIN machines[r] \/ Abandonnee(r, q.machine)
    BY <1>1, <1>6, DemandeAttachee
  <2>6. ASSUME Abandonnee(r, q.machine) PROVE \A m : m = q.machine => Abandonnee(r, m)'
    <3> SUFFICES ASSUME NEW m, m = q.machine PROVE Abandonnee(r, m)' OBVIOUS
    <3>1. m \in Emise /\ Abandonnee(r, m) BY <2>3, <2>6
    <3>2. Delaisse(r, m)' /\ Delaisse(Pair[r], m)'
      BY <2>1, <3>1, DelaisseReste, DeuxRacines DEF Abandonnee
    <3> QED BY <3>2 DEF Abandonnee
  <2> QED BY <2>1, <2>4, <2>5, <2>6, AttacheesRestent
<1>7. CASE q.quoi = "confier" /\ ConfierDomaine(r, q.domaine, q.annuaire)
  <2>1. UNCHANGED tablesDesMachines BY <1>7 DEF ConfierDomaine, Ecrire
  <2>2. MemesMachines(r) /\ effaces' = effaces BY <2>1 DEF tablesDesMachines, MemesMachines
  <2> QED BY <1>3, <2>2, AttacheesAilleurs
<1> QED BY <1>1, <1>5, <1>6, <1>7 DEF Servir

\* An erasure of the peer takes the machine of the request as well: the peer knows it.
LEMMA AttacheesRecues ==
  ASSUME IInv, Requetes, Accord, Attaches, Ancien, NEW r \in Racine, Recevoir(r),
         NEW op, op = Head(enRoute[r]), AppliquerAuxMachines(r, op)
  PROVE  /\ \A q \in Racine : effaces[q] \subseteq effaces'[q]
         /\ \A q \in Racine \ {r} : MemesMachines(q)
         /\ Attachees(r)'
<1>1. Racines BY DEF IInv
<1>2. demande' = demande BY DEF Recevoir
<1>3. Nommees(r)' = {s.machine : s \in DOMAIN services'[r]}
                      \cup (IF demande[r].quoi = "declarer" THEN {demande[r].machine} ELSE {})
  BY <1>2 DEF Nommees
<1>4. ASSUME effaces' = effaces, DOMAIN machines[r] \subseteq DOMAIN machines'[r],
             \A s \in DOMAIN services'[r] :
               s \in DOMAIN services[r] \/ s.machine \in DOMAIN machines[r]
      PROVE  Attachees(r)'
  <2>1. \A m \in Nommees(r)' : m \in Nommees(r) \/ m \in DOMAIN machines[r]
    BY <1>3, <1>4 DEF Nommees
  <2> QED BY <1>4, <2>1, AttacheesRestent
<1>5. CASE op.quoi = "machine" /\ AppliquerMachine(r, op)
  <2>1. /\ effaces' = effaces /\ services' = services
        /\ \A q \in Racine \ {r} : MemesMachines(q)
        /\ machines'[r] = machines[r]
             \/ machines'[r] = Garder(machines[r], op.machine, op.enregistrement)
    BY <1>1, <1>5 DEF AppliquerMachine, Racines, MemesMachines
  <2>2. DOMAIN machines[r] \subseteq DOMAIN machines'[r] BY <2>1 DEF Garder, Poser
  <2> QED BY <1>4, <2>1, <2>2
<1>6. CASE op.quoi = "modifiee" /\ AppliquerMachineModifiee(r, op)
  <2>1. effaces' = effaces /\ services' = services /\ \A q \in Racine \ {r} : MemesMachines(q)
    BY <1>1, <1>6 DEF AppliquerMachineModifiee, Racines, MemesMachines
  <2>2. DOMAIN machines'[r] = DOMAIN machines[r]
    BY <1>1, <1>6 DEF AppliquerMachineModifiee, Racines
  <2> QED BY <1>4, <2>1, <2>2
<1>7. CASE op.quoi = "service" /\ AppliquerService(r, op)
  <2>1. effaces' = effaces /\ machines' = machines /\ \A q \in Racine \ {r} : MemesMachines(q)
    BY <1>1, <1>7 DEF AppliquerService, Racines, MemesMachines
  <2>2. \A s \in DOMAIN services'[r] :
          s \in DOMAIN services[r] \/ s.machine \in DOMAIN machines[r]
    BY <1>1, <1>7 DEF AppliquerService, Rattache, Racines, Poser
  <2> QED BY <1>4, <2>1, <2>2
<1>8. CASE op.quoi = "efface" /\ AppliquerCompteEfface(r, op)
  <2>1. CASE UNCHANGED tablesDesMachines
    <3>1. /\ \A q \in Racine : MemesMachines(q)
          /\ effaces' = effaces /\ machines' = machines /\ services' = services
      BY <2>1 DEF tablesDesMachines, MemesMachines
    <3> QED BY <1>4, <3>1
  <2>2. CASE EffacerLesMachines(r, op.compte)
    <3> DEFINE c == op.compte
               p == Pair[r]
    <3>1. /\ c \in effaces'[r] /\ effaces[r] \subseteq effaces'[r]
          /\ \A q \in Racine \ {r} : MemesMachines(q)
          /\ \A s \in DOMAIN services'[r] :
               /\ s \in DOMAIN services[r]
               /\ s.machine \in DOMAIN machines'[r] \/ s.machine \notin DOMAIN machines[r]
          /\ \A m \in DOMAIN machines[r] \ DOMAIN machines'[r] :
               machines[r][m].proprietaire = c
      BY <1>1, <2>2, CeQuiPart
    <3>2. p \in Racine /\ p # r BY DeuxRacines
    <3>3. c \in effaces[p]
      <4>1. Entame(r, op) BY FileEntamee DEF Recevoir
      <4>2. PortePar(enRoute[r], "efface", c, c)
        BY <1>8, <4>1 DEF Entame, PortePar, Porte, Dit
      <4>3. Su(p, "efface", c, c) BY <4>2 DEF Accord, Verite
      <4>4. c \in DOMAIN Faits(p, "efface") BY <4>3 DEF Su, DUneMachine
      <4> QED BY <3>2, <4>4, FaitsDe
    <3>4. /\ \A q \in Racine : effaces[q] \subseteq effaces'[q]
          /\ c \in effaces'[r] /\ c \in effaces'[p]
      BY <3>1, <3>2, <3>3 DEF MemesMachines
    <3>5. ASSUME NEW m \in DOMAIN machines[r] \ DOMAIN machines'[r] PROVE Abandonnee(r, m)'
      <4>1. \A a : Vu("machine", m, a)' => a = c
        BY <3>1, SonProprietaire DEF Accord, Ancien
      <4> QED BY <3>4, <4>1 DEF Abandonnee, Delaisse
    <3> HIDE DEF c, p
    <3>6. ASSUME NEW m, m \in Nommees(r)'
          PROVE  \/ m \in DOMAIN machines'[r] \/ Abandonnee(r, m)'
                 \/ m \in Nommees(r) /\ m \notin DOMAIN machines[r]
      <4>1. m \in Nommees(r) BY <1>3, <3>1, <3>6 DEF Nommees
      <4> QED BY <3>5, <4>1
    <3>7. Attachees(r)' BY <3>4, <3>6, AttacheesRestent
    <3> QED BY <3>1, <3>4, <3>7
  <2> QED BY <1>8, <2>1, <2>2 DEF AppliquerCompteEfface
<1> QED BY <1>5, <1>6, <1>7, <1>8 DEF AppliquerAuxMachines

LEMMA AttachesSuivant ==
  IInv /\ Requetes /\ Accord /\ Attaches /\ Ancien /\ [Next]_vars => Attaches'
<1> SUFFICES ASSUME IInv, Requetes, Accord, Attaches, Ancien, [Next]_vars PROVE Attaches'
  OBVIOUS
<1>1. Racines /\ DOMAIN demande = Racine BY DEF IInv, Requetes
\* The tables of machines and the requests of all the roots but r.
<1>2. ASSUME NEW r \in Racine, \A q \in Racine : effaces[q] \subseteq effaces'[q],
             \A q \in Racine \ {r} : MemesMachines(q) /\ demande'[q] = demande[q],
             Attachees(r)'
      PROVE  Attaches'
  <2>1. \A q \in Racine \ {r} : Attachees(q)' BY <1>2, AttacheesAilleurs
  <2> QED BY <1>2, <2>1 DEF Attaches
\* The steps that leave the tables of machines alone.
<1>3. ASSUME NEW r \in Racine, UNCHANGED tablesDesMachines,
             \A q \in Racine \ {r} : demande'[q] = demande[q],
             demande'[r] \in {demande[r], Repos} \cup Lues(r)
      PROVE  Attaches'
  <2>1. /\ \A q \in Racine : MemesMachines(q)
        /\ \A q \in Racine : effaces[q] \subseteq effaces'[q]
    BY <1>3 DEF tablesDesMachines, MemesMachines
  <2>2. Attachees(r)' BY <1>3, <2>1, AttacheesAilleurs
  <2> QED BY <1>2, <1>3, <2>1, <2>2
<1>4. CASE UNCHANGED vars
  <2>1. UNCHANGED tablesDesMachines /\ demande' = demande BY <1>4 DEF vars, tables, requete
  <2>2. \A q \in Racine : MemesMachines(q) /\ effaces[q] \subseteq effaces'[q]
    BY <2>1 DEF tablesDesMachines, MemesMachines
  <2>3. \A q \in Racine : Attachees(q)' BY <2>1, <2>2, AttacheesAilleurs
  <2> QED BY <2>3 DEF Attaches
<1>5. ASSUME NEW r \in Racine, Tarder(r) PROVE Attaches'
  <2>1. PICK q \in Lues(r) : demande' = [demande EXCEPT ![r] = q] BY <1>5 DEF Tarder
  <2>2. UNCHANGED tablesDesMachines BY <1>5 DEF Tarder, tables
  <2>3. demande'[r] = q /\ \A p \in Racine \ {r} : demande'[p] = demande[p] BY <1>1, <2>1
  <2> QED BY <1>3, <2>2, <2>3
<1>6. ASSUME NEW r \in Racine, Rendre(r) PROVE Attaches'
  <2>1. UNCHANGED tablesDesMachines BY <1>6 DEF Rendre, tables
  <2>2. demande'[r] = Repos /\ \A p \in Racine \ {r} : demande'[p] = demande[p]
    BY <1>1, <1>6 DEF Rendre, Rendue
  <2> QED BY <1>3, <2>1, <2>2
<1>7. ASSUME NEW r \in Racine, Demander(r) PROVE Attaches'
  <2>1. effaces' = effaces /\ Attachees(r)' BY <1>7, AttacheesDemandees
  <2>2. \A p \in Racine \ {r} : demande'[p] = demande[p] BY <1>1, <1>7 DEF Demander, Rendue
  <2>3. \A p \in Racine \ {r} : MemesMachines(p) BY <1>7, TenuesDemandees
  <2> QED BY <1>2, <2>1, <2>2, <2>3
<1>8. ASSUME NEW r \in Racine, Ecrit(r) PROVE Attaches'
  <2>1. demande' = demande /\ demande[r] = Repos BY <1>8 DEF Ecrit, requete
  <2>2. Nommees(r)' = {s.machine : s \in DOMAIN services'[r]} BY <2>1 DEF Nommees, Repos
  <2>3. CASE EcrireDesMachines(r)
    <3>1. PICK m \in DOMAIN machines[r] : ModifierMachine(r, m)
      BY <2>3 DEF EcrireDesMachines, Vivantes
    <3>2. /\ effaces' = effaces /\ services' = services
          /\ \A q \in Racine \ {r} : MemesMachines(q)
          /\ DOMAIN machines'[r] = DOMAIN machines[r]
      BY <1>1, <3>1 DEF ModifierMachine, Racines, MemesMachines
    <3>3. Nommees(r)' \subseteq Nommees(r) BY <2>2, <3>2 DEF Nommees
    <3>4. Attachees(r)' BY <3>2, <3>3, AttacheesRestent
    <3> QED BY <1>2, <2>1, <3>2, <3>4
  <2>4. CASE EcrireDesInvitations(r) \/ EcrireDesInscriptions(r)
    <3>1. UNCHANGED tablesDesMachines
      BY <2>4 DEF EcrireDesInvitations, EcrireDesInscriptions, EcrireUneInscription,
         DeclarerAnnuaire, PresenterUnCode, Decider, PublierLocateurs, Ecrire
    <3> QED BY <1>3, <2>1, <3>1
  <2>5. CASE EffacerUnCompte(r)
    <3>1. PICK c : EffacerLesMachines(r, c) BY <2>5 DEF EffacerUnCompte, EffacerCompte
    <3>2. /\ effaces[r] \subseteq effaces'[r] /\ \A q \in Racine \ {r} : MemesMachines(q)
          /\ \A s \in DOMAIN services'[r] :
               /\ s \in DOMAIN services[r]
               /\ s.machine \in DOMAIN machines'[r] \/ s.machine \notin DOMAIN machines[r]
      BY <1>1, <3>1, CeQuiPart
    <3>3. \A q \in Racine : effaces[q] \subseteq effaces'[q] BY <3>2 DEF MemesMachines
    <3>4. \A m \in Nommees(r)' :
            m \in DOMAIN machines'[r] \/ (m \in Nommees(r) /\ m \notin DOMAIN machines[r])
      BY <2>2, <3>2 DEF Nommees
    <3>5. Attachees(r)' BY <3>3, <3>4, AttacheesRestent
    <3> QED BY <1>2, <2>1, <3>2, <3>3, <3>5
  <2> QED BY <1>8, <2>3, <2>4, <2>5 DEF Ecrit
<1>9. ASSUME NEW r \in Racine, Recevoir(r) PROVE Attaches'
  <2>1. PICK op : op = Head(enRoute[r]) OBVIOUS
  <2>2. Appliquer(r, op) /\ demande' = demande BY <1>9, <2>1 DEF Recevoir
  <2>3. CASE AppliquerAuxMachines(r, op)
    <3>1. /\ \A q \in Racine : effaces[q] \subseteq effaces'[q]
          /\ \A q \in Racine \ {r} : MemesMachines(q)
          /\ Attachees(r)'
      BY <1>9, <2>1, <2>3, AttacheesRecues
    <3> QED BY <1>2, <2>2, <3>1
  <2>4. CASE UNCHANGED tablesDesMachines BY <1>3, <2>2, <2>4
  <2> QED BY <2>2, <2>3, <2>4 DEF Appliquer, tables
<1>10. ASSUME NEW r \in Racine, Amorcer(r) PROVE Attaches'
  <2>1. UNCHANGED tablesDesMachines /\ demande' = demande
    BY <1>10 DEF Amorcer, tables, requete
  <2> QED BY <1>3, <1>10, <2>1
<1> QED BY <1>4, <1>5, <1>6, <1>7, <1>8, <1>9, <1>10 DEF Next

LEMMA AttachesInit == Init => Attaches
<1> SUFFICES ASSUME Init, NEW r \in Racine PROVE Nommees(r) = {}
  BY DEF Attaches, Attachees
<1>1. services[r] = <<>> /\ demande[r] = Repos BY DEF Init, InitTables
<1> QED BY <1>1 DEF Nommees, Repos

-----------------------------------------------------------------------------
(* The codes, as long as no snapshot was read: one that may open an account *)
(* on a root may on the other one, or is about to, or was consumed there.    *)

LEMMA CodesEmis ==
  ASSUME IInv, NEW r \in Racine, NEW i
  PROVE  /\ AEmettre(r, i) \/ AConsommer(r, i) => i \in Emise
         /\ \A j \in DOMAIN enRoute[r] : Nomme(enRoute[r][j], i) => i \in Emise
         /\ i \in DOMAIN invitations[r] => i \in Emise
<1>1. ASSUME NEW j \in DOMAIN enRoute[r], Nomme(enRoute[r][j], i) PROVE i \in Emise
  <2>1. PICK op : op = enRoute[r][j] OBVIOUS
  <2>2. op \in OperationDe(Emise) BY <2>1, EnRouteType
  <2>3. op.quoi \in {"invitation", "consommee"} /\ op.invitation = i
    BY <1>1, <2>1 DEF Nomme
  <2>4. op \in AuxInvitations(Emise)
    BY <2>2, <2>3, ChampsMachines, ChampsInscriptions DEF OperationDe
  <2> QED BY <2>3, <2>4, ChampsInvitations
<1>2. i \in DOMAIN invitations[r] => i \in Emise
  BY DEF IInv, Locale, InvitationsDe, TableDe
<1> QED BY <1>1, <1>2 DEF AEmettre, AConsommer, Nomme, Emet, Consomme

\* What the queues say once root r has written.
LEMMA CodesAllonges ==
  ASSUME NEW r \in Racine, NEW ops, Allonge(r, ops), NEW q \in Racine
  PROVE  /\ \A i : AEmettre(q, i)' <=>
              AEmettre(q, i) \/ (q = Pair[r] /\ \E j \in DOMAIN ops : Emet(ops[j], i))
         /\ \A i : AConsommer(q, i)' <=>
              AConsommer(q, i) \/ (q = Pair[r] /\ \E j \in DOMAIN ops : Consomme(ops[j], i))
<1> DEFINE p == Pair[r]
           s == enRoute[p]
           t == enRoute'[p]
<1>1. /\ \A j \in DOMAIN s : j \in DOMAIN t /\ t[j] = s[j]
      /\ \A j \in DOMAIN ops : \E n \in DOMAIN t : t[n] = ops[j]
      /\ \A n \in DOMAIN t : \/ n \in DOMAIN s /\ t[n] = s[n]
                             \/ \E j \in DOMAIN ops : t[n] = ops[j]
  BY DEF Allonge, Jointe
<1>2. q # p => enRoute'[q] = enRoute[q] BY DEF Allonge
<1>3. CASE q # p BY <1>2, <1>3 DEF AEmettre, AConsommer
<1>4. CASE q = p
  <2>1. enRoute[q] = s /\ enRoute'[q] = t BY <1>4
  <2> HIDE DEF s, t
  <2>2. ASSUME NEW i
        PROVE  /\ (\E n \in DOMAIN t : Emet(t[n], i)) <=>
                    (\E n \in DOMAIN s : Emet(s[n], i)) \/ \E j \in DOMAIN ops : Emet(ops[j], i)
               /\ (\E n \in DOMAIN t : Consomme(t[n], i)) <=>
                    (\E n \in DOMAIN s : Consomme(s[n], i))
                      \/ \E j \in DOMAIN ops : Consomme(ops[j], i)
    BY <1>1
  <2> QED BY <2>1, <2>2, <1>4 DEF AEmettre, AConsommer
<1> QED BY <1>3, <1>4

\* An emission that was on its way.
LEMMA IneditesRestent ==
  ASSUME IInv, Codes, NEW r \in Racine, NEW ops, Allonge(r, ops), NEW q \in Racine,
         DOMAIN invitations'[q] \subseteq DOMAIN invitations[q],
         q = Pair[r] => \A j \in DOMAIN ops : \A i : ~Emet(ops[j], i)
  PROVE  \A j \in DOMAIN enRoute'[q] : Inedite(q, j)'
<1>1. CASE q # Pair[r]
  <2>1. enRoute'[q] = enRoute[q] BY <1>1 DEF Allonge
  <2> QED BY <2>1 DEF Codes, Inedite
<1>2. CASE q = Pair[r]
  <2> DEFINE s == enRoute[q]
             t == enRoute'[q]
  <2>1. Jointe(t, s, ops) BY <1>2 DEF Allonge
  <2>2. \A j \in DOMAIN s : Inedite(q, j) BY DEF Codes
  <2>3. SUFFICES ASSUME NEW j \in DOMAIN t, NEW i, Emet(t[j], i)
                 PROVE  /\ t[j].etat = "vivante" /\ i \notin DOMAIN invitations'[q]
                        /\ \A n \in DOMAIN t : n < j => ~Nomme(t[n], i)
    BY DEF Inedite
  <2>4. j \in DOMAIN s /\ t[j] = s[j]
    BY <1>2, <2>1, <2>3 DEF Jointe
  <2>5. /\ s[j].etat = "vivante" /\ i \notin DOMAIN invitations[q]
        /\ \A n \in DOMAIN s : n < j => ~Nomme(s[n], i)
    BY <2>2, <2>3, <2>4 DEF Inedite
  <2> HIDE DEF s, t
  <2>6. ASSUME NEW n \in DOMAIN t, n < j PROVE n \in DOMAIN s /\ t[n] = s[n]
    <3>1. n \in DOMAIN s \/ \E k \in DOMAIN ops : n = Len(s) + k BY <2>1 DEF Jointe
    <3>2. /\ Len(s) \in Nat /\ DOMAIN s = 1..Len(s) /\ Len(ops) \in Nat
          /\ DOMAIN ops = 1..Len(ops)
      BY <2>1 DEF Jointe
    <3>3. n \in DOMAIN s BY <3>1, <3>2, <2>4, <2>6
    <3> QED BY <3>3, <2>1 DEF Jointe
  <2> QED BY <2>4, <2>5, <2>6
<1> QED BY <1>1, <1>2

\* A step that names no code, and lets live those that are not expired.
LEMMA CodesIntacts ==
  ASSUME IInv, Codes, NEW r \in Racine, NEW ops, Allonge(r, ops),
         \A j \in DOMAIN ops : \A i : ~Nomme(ops[j], i),
         \A q \in Racine : DOMAIN invitations'[q] \subseteq DOMAIN invitations[q],
         \A q \in Racine : \A i : Vivante(q, i)' => Vivante(q, i),
         perimees \subseteq perimees',
         \A q \in Racine : \A i : i \notin perimees' /\ Vivante(q, i) => Vivante(q, i)'
  PROVE  Codes'
<1>1. \A j \in DOMAIN ops : \A i : ~Emet(ops[j], i) /\ ~Consomme(ops[j], i)
  BY DEF Nomme, Emet, Consomme
<1>2. \A q \in Racine : \A i : /\ AEmettre(q, i)' <=> AEmettre(q, i)
                               /\ AConsommer(q, i)' <=> AConsommer(q, i)
  BY <1>1, CodesAllonges
<1>3. \A q \in Racine : \A j \in DOMAIN enRoute'[q] : Inedite(q, j)'
  BY <1>1, IneditesRestent
<1>4. ASSUME NEW q \in Racine, NEW i PROVE Suivi(q, i)'
  <2>1. Pair[q] \in Racine BY DeuxRacines
  <2>2. Suivi(q, i) BY DEF Codes
  <2> QED BY <2>1, <2>2, <1>2 DEF Suivi
<1> QED BY <1>3, <1>4 DEF Codes

LEMMA CodesDEmettre ==
  ASSUME IInv, Codes, NEW r \in Racine, EmettreInvitation(r)
  PROVE  Codes'
<1> DEFINE e == Suivante(r)
           p == Pair[r]
           op == [quoi |-> "invitation", estampille |-> e, invitation |-> e,
                  etat |-> "vivante"]
           ops == <<op>>
<1>1. /\ invitations' = [invitations EXCEPT ![r] = Poser(@, e, "vivante")]
      /\ Journaliser(r, op) /\ ouverts' = ouverts /\ perimees' = perimees
  BY DEF EmettreInvitation
<1>2. op.quoi = "invitation" /\ op.invitation = e /\ op.etat = "vivante" OBVIOUS
<1> HIDE DEF op
<1>3. e \notin Emise BY <1>1, AvanceeDUne
<1>4. DOMAIN ops = {1} /\ ops[1] = op OBVIOUS
<1>5. Allonge(r, ops)
  <2>1. JournaliserTout(r, ops) BY <1>1 DEF Journaliser
  <2>2. ops \in [1..1 -> {ops[i] : i \in 1..1}] OBVIOUS
  <2> HIDE DEF ops
  <2> QED BY <2>1, <2>2, FileAllongee
<1> HIDE DEF ops, e
<1>6. p \in Racine /\ p # r /\ Pair[p] = r /\ \A q \in Racine : Pair[q] = r <=> q = p
  BY DeuxRacines
<1>7. /\ \A q \in Racine : q # r => invitations'[q] = invitations[q]
      /\ invitations'[r] = Poser(invitations[r], e, "vivante")
  BY <1>1 DEF IInv, Racines
<1>8. /\ DOMAIN invitations'[r] = DOMAIN invitations[r] \cup {e}
      /\ \A i : Vivante(r, i)' <=> Vivante(r, i) \/ i = e
  <2>1. e \notin DOMAIN invitations[r] BY <1>3, CodesEmis
  <2>2. PICK h : h = invitations'[r] OBVIOUS
  <2>3. PICK f : f = invitations[r] OBVIOUS
  <2>4. /\ DOMAIN h = DOMAIN f \cup {e} /\ h[e] = "vivante"
        /\ \A i \in DOMAIN f : i # e => h[i] = f[i]
    BY <1>7, <2>2, <2>3 DEF Poser
  <2>5. \A i : Vivante(r, i)' <=> i \in DOMAIN h /\ h[i] = "vivante"
    BY <2>2 DEF Vivante
  <2>6. \A i : Vivante(r, i) <=> i \in DOMAIN f /\ f[i] = "vivante"
    BY <2>3 DEF Vivante
  <2> QED BY <2>1, <2>2, <2>3, <2>4, <2>5, <2>6
<1>9. \A q \in Racine : q # r => \A i : Vivante(q, i)' <=> Vivante(q, i)
  BY <1>7 DEF Vivante
<1>10. \A q \in Racine : \A i : /\ AEmettre(q, i)' <=> AEmettre(q, i) \/ (q = p /\ i = e)
                                /\ AConsommer(q, i)' <=> AConsommer(q, i)
  <2>1. \A j \in DOMAIN ops : \A i : (Emet(ops[j], i) <=> i = e) /\ ~Consomme(ops[j], i)
    BY <1>2, <1>4 DEF Emet, Consomme
  <2>2. \E j \in DOMAIN ops : TRUE BY <1>4
  <2> QED BY <2>1, <2>2, <1>5, CodesAllonges
<1>11. \A q \in Racine : ~AEmettre(q, e) /\ ~AConsommer(q, e) /\ ~Vivante(q, e)
  BY <1>3, CodesEmis DEF Vivante
<1>12. ASSUME NEW q \in Racine, NEW j \in DOMAIN enRoute'[q] PROVE Inedite(q, j)'
  <2>1. CASE q # p
    <3>1. enRoute'[q] = enRoute[q] BY <1>5, <2>1 DEF Allonge
    <3>2. j \in DOMAIN enRoute[q] /\ Inedite(q, j) BY <3>1, <1>12 DEF Codes
    <3>3. \A i : Emet(enRoute[q][j], i) => i # e
      BY <3>2, <1>11 DEF AEmettre
    <3>4. DOMAIN invitations'[q] \subseteq DOMAIN invitations[q] \cup {e} BY <1>7, <1>8
    <3> QED BY <3>1, <3>2, <3>3, <3>4 DEF Inedite
  <2>2. CASE q = p
    <3> DEFINE s == enRoute[p]
               t == enRoute'[p]
    <3>1. Jointe(t, s, ops) /\ j \in DOMAIN t BY <1>5, <1>12, <2>2 DEF Allonge
    <3>2. \A n \in DOMAIN s : Inedite(p, n) BY <1>6 DEF Codes
    <3>3. DOMAIN invitations'[p] = DOMAIN invitations[p] BY <1>6, <1>7
    <3>4. \A n \in DOMAIN s : ~Nomme(s[n], e) BY <1>3, <1>6, CodesEmis
    <3>5. e \notin DOMAIN invitations[p] BY <1>3, <1>6, CodesEmis
    <3>6. SUFFICES ASSUME NEW i, Emet(t[j], i)
                   PROVE  /\ t[j].etat = "vivante" /\ i \notin DOMAIN invitations'[p]
                          /\ \A n \in DOMAIN t : n < j => ~Nomme(t[n], i)
      BY <2>2 DEF Inedite
    <3>7. \A n \in DOMAIN s : \A x : Emet(s[n], x) =>
            /\ s[n].etat = "vivante" /\ x \notin DOMAIN invitations[p]
            /\ \A k \in DOMAIN s : k < n => ~Nomme(s[k], x)
      BY <3>2 DEF Inedite
    <3> HIDE DEF s, t
    <3>8. /\ Len(s) \in Nat /\ DOMAIN s = 1..Len(s)
          /\ \A n \in DOMAIN t : \/ n \in DOMAIN s /\ t[n] = s[n]
                                 \/ n = Len(s) + 1 /\ t[n] = op
      BY <3>1, <1>4 DEF Jointe
    <3>9. CASE j \in DOMAIN s /\ t[j] = s[j]
      <4>1. \A n \in DOMAIN t : n < j => n \in DOMAIN s /\ t[n] = s[n] BY <3>8, <3>9
      <4> QED BY <4>1, <3>3, <3>6, <3>7, <3>9
    <3>10. CASE j = Len(s) + 1 /\ t[j] = op
      <4>1. i = e BY <3>6, <3>10, <1>2 DEF Emet
      <4>2. \A n \in DOMAIN t : n < j => n \in DOMAIN s /\ t[n] = s[n] BY <3>8, <3>10
      <4> QED BY <4>1, <4>2, <3>3, <3>4, <3>5, <3>10, <1>2
    <3> QED BY <3>1, <3>8, <3>9, <3>10
  <2> QED BY <2>1, <2>2
<1>13. ASSUME NEW q \in Racine, NEW i PROVE Suivi(q, i)'
  <2>1. Pair[q] \in Racine /\ Suivi(q, i) BY DeuxRacines DEF Codes
  <2>2. CASE i # e
    <3>1. /\ \A x \in Racine : /\ AEmettre(x, i)' <=> AEmettre(x, i)
                               /\ AConsommer(x, i)' <=> AConsommer(x, i)
                               /\ Vivante(x, i)' <=> Vivante(x, i)
      BY <2>2, <1>8, <1>9, <1>10
    <3> QED BY <2>1, <3>1, <1>1 DEF Suivi
  <2>3. CASE i = e
    <3>1. \A x \in Racine : /\ (AEmettre(x, i)' <=> x = p) /\ ~AConsommer(x, i)'
                            /\ (Vivante(x, i)' <=> x = r)
      <4>1. \A x \in Racine : (AEmettre(x, i)' <=> x = p) /\ ~AConsommer(x, i)'
        BY <2>3, <1>10, <1>11
      <4>2. \A x \in Racine : Vivante(x, i)' <=> x = r BY <2>3, <1>8, <1>9, <1>11
      <4> QED BY <4>1, <4>2
    <3>2. Pair[q] = r <=> q = p BY <1>6
    <3>3. Pair[q] = p <=> q = r BY <1>6, DeuxRacines
    <3> QED BY <2>1, <2>3, <3>1, <3>2, <3>3 DEF Suivi
  <2> QED BY <2>2, <2>3
<1> QED BY <1>12, <1>13 DEF Codes

LEMMA CodesDeCreerCompte ==
  ASSUME IInv, Codes, NEW r \in Racine, NEW c \in DOMAIN invitations[r],
         CreerCompteSurInvitation(r, c)
  PROVE  Codes'
<1> DEFINE p == Pair[r]
           e2 == Prochaine(r, 2)
           o1 == [quoi |-> "consommee", estampille |-> Suivante(r), invitation |-> c]
           o2 == [quoi |-> "ouvert", estampille |-> e2, par |-> c, compte |-> e2]
           o3 == [quoi |-> "premier", estampille |-> Prochaine(r, 3), compte |-> e2]
           ops == <<o1, o2, o3>>
<1>1. /\ c \notin Expirees(r) /\ invitations' = [invitations EXCEPT ![r][c] = "morte"]
      /\ JournaliserTout(r, ops) /\ perimees' = perimees
  BY DEF CreerCompteSurInvitation
<1>2. /\ o1.quoi = "consommee" /\ o2.quoi = "ouvert" /\ o3.quoi = "premier"
      /\ o1.invitation = c
  OBVIOUS
<1>3. DOMAIN ops = {1, 2, 3} /\ ops[1] = o1 /\ ops[2] = o2 /\ ops[3] = o3 OBVIOUS
<1>4. ops \in [1..3 -> {ops[j] : j \in 1..3}]
  <2>1. ops \in [{1, 2, 3} -> {ops[j] : j \in {1, 2, 3}}] OBVIOUS
  <2>2. 1..3 = {1, 2, 3} OBVIOUS
  <2> HIDE DEF ops
  <2> QED BY <2>1, <2>2
<1> HIDE DEF ops, o1, o2, o3, e2
<1>5. Allonge(r, ops) BY <1>1, <1>4, FileAllongee
<1>6. p \in Racine /\ p # r /\ Pair[p] = r /\ \A q \in Racine : Pair[q] = r <=> q = p
  BY DeuxRacines
<1>7. /\ \A q \in Racine : q # r => invitations'[q] = invitations[q]
      /\ invitations'[r] = [invitations[r] EXCEPT ![c] = "morte"]
  BY <1>1 DEF IInv, Racines
<1>8. /\ \A q \in Racine : DOMAIN invitations'[q] = DOMAIN invitations[q]
      /\ \A i : Vivante(r, i)' <=> Vivante(r, i) /\ i # c
  <2>1. \A i \in DOMAIN invitations[r] : i # c => invitations'[r][i] = invitations[r][i]
    BY <1>7
  <2>2. invitations'[r][c] = "morte" BY <1>7
  <2>3. \A q \in Racine : DOMAIN invitations'[q] = DOMAIN invitations[q] BY <1>7
  <2> QED BY <2>1, <2>2, <2>3 DEF Vivante
<1>9. \A q \in Racine : q # r => \A i : Vivante(q, i)' <=> Vivante(q, i)
  BY <1>7 DEF Vivante
<1>10. \A q \in Racine : \A i : /\ AEmettre(q, i)' <=> AEmettre(q, i)
                                /\ AConsommer(q, i)' <=> AConsommer(q, i) \/ (q = p /\ i = c)
  <2>1. \A j \in DOMAIN ops : \A i :
          ~Emet(ops[j], i) /\ (Consomme(ops[j], i) <=> j = 1 /\ i = c)
    BY <1>2, <1>3 DEF Emet, Consomme
  <2>2. 1 \in DOMAIN ops BY <1>3
  <2> QED BY <2>1, <2>2, <1>5, CodesAllonges
<1>11. \A q \in Racine : \A j \in DOMAIN enRoute'[q] : Inedite(q, j)'
  <2>1. \A j \in DOMAIN ops : \A i : ~Emet(ops[j], i) BY <1>2, <1>3 DEF Emet
  <2> QED BY <2>1, <1>5, <1>8, IneditesRestent
<1>12. ~AEmettre(r, c) BY DEF Codes, Inedite, AEmettre
<1>13. Vivante(r, c) /\ c \notin perimees
  BY <1>1 DEF Expirees, IInv, Locale, InvitationsDe, TableDe, Etats, Vivante
<1>14. ASSUME NEW q \in Racine, NEW i PROVE Suivi(q, i)'
  <2>1. Pair[q] \in Racine /\ Suivi(q, i) BY DeuxRacines DEF Codes
  <2>2. CASE i # c
    <3>1. \A x \in Racine : /\ AEmettre(x, i)' <=> AEmettre(x, i)
                            /\ AConsommer(x, i)' <=> AConsommer(x, i)
                            /\ Vivante(x, i)' <=> Vivante(x, i)
      BY <2>2, <1>8, <1>9, <1>10
    <3> QED BY <2>1, <3>1, <1>1 DEF Suivi
  <2>3. CASE i = c
    <3>1. \A x \in Racine : AEmettre(x, c)' <=> AEmettre(x, c) BY <1>10
    <3>2. AConsommer(p, c)' /\ (AConsommer(r, c)' <=> AConsommer(r, c)) BY <1>6, <1>10
    <3>3. ~Vivante(r, c)' BY <1>8
    <3>4. CASE q = r
      <4>1. Vivante(p, c)' <=> Vivante(p, c) BY <1>6, <1>9
      <4> QED BY <2>3, <3>1, <3>2, <3>3, <3>4, <4>1, <1>12 DEF Suivi
    <3>5. CASE q # r /\ Pair[q] = r
      <4>1. q = p BY <3>5, <1>6
      <4>2. Vivante(p, c)' <=> Vivante(p, c) BY <1>6, <1>9
      <4> QED BY <2>1, <2>3, <3>1, <3>2, <3>3, <4>1, <4>2, <1>1, <1>6, <1>12 DEF Suivi
    <3>6. CASE q # r /\ Pair[q] # r
      <4>1. q # p /\ Pair[q] # p /\ Pair[q] # r BY <3>6, <1>6, DeuxRacines
      <4>2. \A x \in {q, Pair[q]} :
              (AConsommer(x, c)' <=> AConsommer(x, c)) /\ (Vivante(x, c)' <=> Vivante(x, c))
        BY <2>1, <3>6, <4>1, <1>9, <1>10
      <4> QED BY <2>1, <2>3, <3>1, <4>2, <1>1 DEF Suivi
    <3> QED BY <3>4, <3>5, <3>6
  <2> QED BY <2>2, <2>3
<1> QED BY <1>11, <1>14 DEF Codes

\* What root q and its queue say of the codes is as it was.
MemesCodes(q) ==
  \A i : /\ AEmettre(q, i)' <=> AEmettre(q, i)
         /\ AConsommer(q, i)' <=> AConsommer(q, i)
         /\ Vivante(q, i)' <=> Vivante(q, i)

\* The head of the queue leaves.
LEMMA CodesEntames ==
  ASSUME IInv, IInv', Codes, NEW r \in Racine, NEW op, Entame(r, op),
         \A q \in Racine : q # r => invitations'[q] = invitations[q],
         \A i \in DOMAIN invitations'[r] : i \in DOMAIN invitations[r] \/ Nomme(op, i)
  PROVE  /\ \A i : /\ AEmettre(r, i) <=> AEmettre(r, i)' \/ Emet(op, i)
                   /\ AConsommer(r, i) <=> AConsommer(r, i)' \/ Consomme(op, i)
         /\ \A i : AEmettre(r, i)' => ~Nomme(op, i)
         /\ \A i : Emet(op, i) => op.etat = "vivante" /\ i \notin DOMAIN invitations[r]
         /\ \A q \in Racine : q # r => MemesCodes(q)
         /\ \A q \in Racine : \A j \in DOMAIN enRoute'[q] : Inedite(q, j)'
<1> DEFINE s == enRoute[r]
           t == enRoute'[r]
<1>1. /\ 1 \in DOMAIN s /\ op = s[1] /\ \A i \in DOMAIN s : i \in Nat
      /\ \A i \in DOMAIN t : i \in Nat /\ i + 1 \in DOMAIN s /\ t[i] = s[i + 1]
      /\ \A i \in DOMAIN s : i # 1 => i - 1 \in DOMAIN t /\ t[i - 1] = s[i]
      /\ \A q \in Racine : q # r => enRoute'[q] = enRoute[q]
  BY DEF Entame
<1>0. 0 \notin DOMAIN t
  <2> DEFINE T == OperationDe(Emise')
  <2>1. t \in Seq(T) BY DEF IInv, Voies, t
  <2> HIDE DEF T
  <2> QED BY <2>1
<1>2. \A j \in DOMAIN s : \A i : Emet(s[j], i) =>
        /\ s[j].etat = "vivante" /\ i \notin DOMAIN invitations[r]
        /\ \A n \in DOMAIN s : n < j => ~Nomme(s[n], i)
  BY DEF Codes, Inedite
<1>3. /\ \A i : AEmettre(r, i) <=> \E j \in DOMAIN s : Emet(s[j], i)
      /\ \A i : AEmettre(r, i)' <=> \E j \in DOMAIN t : Emet(t[j], i)
      /\ \A i : AConsommer(r, i) <=> \E j \in DOMAIN s : Consomme(s[j], i)
      /\ \A i : AConsommer(r, i)' <=> \E j \in DOMAIN t : Consomme(t[j], i)
  BY DEF AEmettre, AConsommer
<1>4. \A q \in Racine : q # r => \A j \in DOMAIN enRoute'[q] : Inedite(q, j)'
  BY <1>1 DEF Codes, Inedite
<1>5. \A q \in Racine : q # r => MemesCodes(q)
  BY <1>1 DEF AEmettre, AConsommer, Vivante, MemesCodes
<1>6. \A j \in DOMAIN t : Inedite(r, j)' <=>
        \A i : Emet(t[j], i) =>
          /\ t[j].etat = "vivante" /\ i \notin DOMAIN invitations'[r]
          /\ \A n \in DOMAIN t : n < j => ~Nomme(t[n], i)
  BY DEF Inedite
<1> HIDE DEF s, t
<1>7. \A i : /\ (\E j \in DOMAIN s : Emet(s[j], i)) <=>
                  (\E j \in DOMAIN t : Emet(t[j], i)) \/ Emet(op, i)
             /\ (\E j \in DOMAIN s : Consomme(s[j], i)) <=>
                  (\E j \in DOMAIN t : Consomme(t[j], i)) \/ Consomme(op, i)
  BY <1>1
<1>8. ASSUME NEW j \in DOMAIN t, NEW i, Emet(t[j], i)
      PROVE  /\ t[j].etat = "vivante" /\ i \notin DOMAIN invitations[r] /\ ~Nomme(op, i)
             /\ \A n \in DOMAIN t : n < j => ~Nomme(t[n], i)
  <2>1. /\ j + 1 \in DOMAIN s /\ t[j] = s[j + 1] /\ j \in Nat /\ Emet(s[j + 1], i)
    BY <1>1, <1>8
  <2>2. /\ t[j].etat = "vivante" /\ i \notin DOMAIN invitations[r]
        /\ \A n \in DOMAIN s : n < j + 1 => ~Nomme(s[n], i)
    BY <1>2, <2>1
  <2>3. 1 < j + 1
    <3>1. j # 0 BY <1>0
    <3> QED BY <3>1, <2>1
  <2>4. ~Nomme(op, i) BY <1>1, <2>2, <2>3
  <2>5. ASSUME NEW n \in DOMAIN t, n < j PROVE ~Nomme(t[n], i)
    <3>1. n + 1 < j + 1 /\ n + 1 \in DOMAIN s /\ t[n] = s[n + 1] BY <1>1, <2>1, <2>5
    <3> QED BY <3>1, <2>2
  <2> QED BY <2>2, <2>4, <2>5
<1>9. \A i : Emet(op, i) => op.etat = "vivante" /\ i \notin DOMAIN invitations[r]
  BY <1>1, <1>2
<1>10. \A j \in DOMAIN t : Inedite(r, j)' BY <1>6, <1>8
<1>11. \A q \in Racine : \A j \in DOMAIN enRoute'[q] : Inedite(q, j)'
  BY <1>4, <1>10 DEF t
<1>12. \A i : AEmettre(r, i)' => ~Nomme(op, i) BY <1>3, <1>8
<1>13. \A i : /\ AEmettre(r, i) <=> AEmettre(r, i)' \/ Emet(op, i)
              /\ AConsommer(r, i) <=> AConsommer(r, i)' \/ Consomme(op, i)
  BY <1>3, <1>7
<1> QED BY <1>5, <1>9, <1>11, <1>12, <1>13

LEMMA CodesDeRecevoir ==
  ASSUME IInv, IInv', Codes, NEW r \in Racine, Recevoir(r)
  PROVE  Codes'
<1> DEFINE p == Pair[r]
           op == Head(enRoute[r])
<1>1. Retirer(r) /\ Appliquer(r, op) BY DEF Recevoir
<1>2. Entame(r, op) BY <1>1, FileEntamee
<1> HIDE DEF op
<1>3. p \in Racine /\ p # r /\ Pair[p] = r /\ \A q \in Racine : Pair[q] = r <=> q = p
  BY DeuxRacines
\* What the operation does to the rows.
<1>4. /\ perimees' = perimees /\ \A q \in Racine : q # r => invitations'[q] = invitations[q]
      /\ \/ /\ op.quoi = "invitation"
            /\ invitations'[r] = Garder(invitations[r], op.invitation, op.etat)
         \/ /\ op.quoi = "consommee"
            /\ invitations'[r] = Poser(invitations[r], op.invitation, "morte")
         \/ op.quoi \notin {"invitation", "consommee"} /\ invitations'[r] = invitations[r]
  <2>1. CASE \/ AppliquerAuxMachines(r, op) /\ UNCHANGED <<tablesDesInvitations, tablesDesInscriptions>>
             \/ /\ AppliquerAuxInscriptions(r, op)
                /\ UNCHANGED <<tablesDesMachines, tablesDesInvitations>>
             \/ op.quoi = "fin" /\ UNCHANGED tables
    <3>1. op.quoi \notin {"invitation", "consommee"}
      BY <2>1 DEF AppliquerAuxMachines, AppliquerAuxInscriptions
    <3>2. UNCHANGED tablesDesInvitations BY <2>1 DEF tables
    <3> QED BY <3>1, <3>2 DEF tablesDesInvitations
  <2>2. CASE AppliquerAuxInvitations(r, op)
    BY <2>2 DEF AppliquerAuxInvitations, AppliquerInvitation, AppliquerInvitationConsommee,
       AppliquerCompteOuvert, tablesDesInvitations, IInv, Racines
  <2> QED BY <1>1, <2>1, <2>2 DEF Appliquer
<1>5. /\ \A i : Emet(op, i) <=> op.quoi = "invitation" /\ i = op.invitation
      /\ \A i : Consomme(op, i) <=> op.quoi = "consommee" /\ i = op.invitation
      /\ \A i : Nomme(op, i) <=> Emet(op, i) \/ Consomme(op, i)
  BY DEF Emet, Consomme, Nomme
<1> DEFINE f == invitations[r]
           h == invitations'[r]
<1>6. \/ op.quoi = "invitation" /\ h = Garder(f, op.invitation, op.etat)
      \/ op.quoi = "consommee" /\ h = Poser(f, op.invitation, "morte")
      \/ op.quoi \notin {"invitation", "consommee"} /\ h = f
  BY <1>4
<1>7. /\ \A i : Vivante(r, i)' <=> i \in DOMAIN h /\ h[i] = "vivante"
      /\ \A i : Vivante(r, i) <=> i \in DOMAIN f /\ f[i] = "vivante"
  BY DEF Vivante
<1> HIDE DEF f, h
<1>8. \A i \in DOMAIN h : i \in DOMAIN f \/ Nomme(op, i)
  BY <1>5, <1>6 DEF Garder, Poser
<1>9. /\ \A i : /\ AEmettre(r, i) <=> AEmettre(r, i)' \/ Emet(op, i)
                /\ AConsommer(r, i) <=> AConsommer(r, i)' \/ Consomme(op, i)
      /\ \A i : AEmettre(r, i)' => ~Nomme(op, i)
      /\ \A i : Emet(op, i) => op.etat = "vivante" /\ i \notin DOMAIN f
      /\ \A q \in Racine : q # r => MemesCodes(q)
      /\ \A q \in Racine : \A j \in DOMAIN enRoute'[q] : Inedite(q, j)'
  BY <1>2, <1>4, <1>8, CodesEntames DEF f, h
<1>10. \A i : Vivante(r, i)' <=> (Vivante(r, i) \/ Emet(op, i)) /\ ~Consomme(op, i)
  <2>1. CASE op.quoi = "invitation" /\ h = Garder(f, op.invitation, op.etat)
    <3>1. op.invitation \notin DOMAIN f /\ op.etat = "vivante" BY <1>5, <1>9, <2>1
    <3>2. h = Poser(f, op.invitation, "vivante") BY <2>1, <3>1 DEF Garder
    <3>3. /\ DOMAIN h = DOMAIN f \cup {op.invitation} /\ h[op.invitation] = "vivante"
          /\ \A i \in DOMAIN f : h[i] = f[i]
      BY <3>1, <3>2 DEF Poser
    <3> QED BY <2>1, <3>3, <1>5, <1>7
  <2>2. CASE op.quoi = "consommee" /\ h = Poser(f, op.invitation, "morte")
    <3>1. /\ DOMAIN h = DOMAIN f \cup {op.invitation} /\ h[op.invitation] = "morte"
          /\ \A i \in DOMAIN f : i # op.invitation => h[i] = f[i]
      BY <2>2 DEF Poser
    <3> QED BY <2>2, <3>1, <1>5, <1>7
  <2>3. CASE op.quoi \notin {"invitation", "consommee"} /\ h = f BY <2>3, <1>5, <1>7
  <2> QED BY <1>6, <2>1, <2>2, <2>3
\* What is emitted here was not consumed here, and the reverse.
<1>11. \A i : Emet(op, i) => ~Consomme(op, i) BY <1>5
<1>12. ASSUME NEW q \in Racine, NEW i PROVE Suivi(q, i)'
  <2>1. Pair[q] \in Racine /\ Suivi(q, i) /\ Suivi(r, i) /\ Suivi(p, i)
    BY <1>3, DeuxRacines DEF Codes
  <2>2. CASE q = r
    <3>1. /\ AConsommer(p, i)' <=> AConsommer(p, i)
          /\ AEmettre(p, i)' <=> AEmettre(p, i)
          /\ Vivante(p, i)' <=> Vivante(p, i)
      BY <1>3, <1>9 DEF MemesCodes
    <3>2. /\ AConsommer(p, i) => ~AEmettre(r, i) /\ ~Vivante(r, i)
          /\ AConsommer(r, i) => ~AEmettre(p, i) /\ ~Vivante(p, i)
          /\ i \notin perimees /\ Vivante(p, i) =>
               Vivante(r, i) \/ AEmettre(r, i) \/ AConsommer(p, i)
          /\ i \notin perimees /\ AEmettre(p, i) => Vivante(r, i) \/ AConsommer(p, i)
      BY <2>1, <1>3 DEF Suivi
    <3>3. /\ AEmettre(r, i) <=> AEmettre(r, i)' \/ Emet(op, i)
          /\ AConsommer(r, i) <=> AConsommer(r, i)' \/ Consomme(op, i)
          /\ Vivante(r, i)' <=> (Vivante(r, i) \/ Emet(op, i)) /\ ~Consomme(op, i)
      BY <1>9, <1>10
    <3>4. /\ AConsommer(p, i)' => ~AEmettre(r, i)' /\ ~Vivante(r, i)'
          /\ i \notin perimees /\ Vivante(p, i)' =>
               Vivante(r, i)' \/ AEmettre(r, i)' \/ AConsommer(p, i)'
          /\ i \notin perimees /\ AEmettre(p, i)' => Vivante(r, i)' \/ AConsommer(p, i)'
      BY <3>1, <3>2, <3>3, <1>11
    <3> QED BY <2>2, <3>4, <1>4 DEF Suivi
  <2>3. CASE q = p
    <3>1. /\ AConsommer(p, i)' <=> AConsommer(p, i)
          /\ AEmettre(p, i)' <=> AEmettre(p, i)
          /\ Vivante(p, i)' <=> Vivante(p, i)
      BY <1>3, <1>9 DEF MemesCodes
    <3>2. /\ AConsommer(r, i) => ~AEmettre(p, i) /\ ~Vivante(p, i)
          /\ i \notin perimees /\ Vivante(r, i) =>
               Vivante(p, i) \/ AEmettre(p, i) \/ AConsommer(r, i)
          /\ i \notin perimees /\ AEmettre(r, i) => Vivante(p, i) \/ AConsommer(r, i)
      BY <2>1, <1>3 DEF Suivi
    <3>3. /\ AEmettre(r, i) <=> AEmettre(r, i)' \/ Emet(op, i)
          /\ AConsommer(r, i) <=> AConsommer(r, i)' \/ Consomme(op, i)
          /\ Vivante(r, i)' <=> (Vivante(r, i) \/ Emet(op, i)) /\ ~Consomme(op, i)
          /\ AEmettre(r, i)' => ~Emet(op, i) /\ ~Consomme(op, i)
      BY <1>5, <1>9, <1>10
    <3>4. /\ AConsommer(r, i)' => ~AEmettre(p, i)' /\ ~Vivante(p, i)'
          /\ i \notin perimees /\ Vivante(r, i)' =>
               Vivante(p, i)' \/ AEmettre(p, i)' \/ AConsommer(r, i)'
          /\ i \notin perimees /\ AEmettre(r, i)' => Vivante(p, i)' \/ AConsommer(r, i)'
      BY <3>1, <3>2, <3>3, <1>11
    <3> QED BY <2>3, <3>4, <1>3, <1>4 DEF Suivi
  <2>4. CASE q # r /\ q # p
    <3>1. Pair[q] # r BY <2>4, <1>3
    <3>2. \A x \in {q, Pair[q]} : /\ AEmettre(x, i)' <=> AEmettre(x, i)
                                  /\ AConsommer(x, i)' <=> AConsommer(x, i)
                                  /\ Vivante(x, i)' <=> Vivante(x, i)
      BY <2>1, <2>4, <3>1, <1>9 DEF MemesCodes
    <3> QED BY <2>1, <3>2, <1>4 DEF Suivi
  <2> QED BY <2>2, <2>3, <2>4
<1> QED BY <1>9, <1>12 DEF Codes

-----------------------------------------------------------------------------
\* The operations that name a code are those of the invitations.
LEMMA CodesDUneAutreEcriture ==
  ASSUME IInv, Codes, NEW r \in Racine, NEW op, Journaliser(r, op),
         op.quoi \notin {"invitation", "consommee"}, UNCHANGED tablesDesInvitations
  PROVE  Codes'
<1> DEFINE ops == <<op>>
<1>1. DOMAIN ops = {1} /\ ops[1] = op OBVIOUS
<1>2. Allonge(r, ops)
  <2>1. JournaliserTout(r, ops) BY DEF Journaliser
  <2>2. ops \in [1..1 -> {ops[i] : i \in 1..1}] OBVIOUS
  <2> HIDE DEF ops
  <2> QED BY <2>1, <2>2, FileAllongee
<1> HIDE DEF ops
<1>3. \A j \in DOMAIN ops : \A i : ~Nomme(ops[j], i) BY <1>1 DEF Nomme
<1>4. invitations' = invitations /\ perimees' = perimees BY DEF tablesDesInvitations
<1>5. \A q \in Racine : \A i : Vivante(q, i)' <=> Vivante(q, i) BY <1>4 DEF Vivante
<1> QED BY <1>2, <1>3, <1>4, <1>5, CodesIntacts

LEMMA CodesSansEcriture ==
  ASSUME IInv, Codes, enRoute' = enRoute,
         \A q \in Racine : DOMAIN invitations'[q] \subseteq DOMAIN invitations[q],
         \A q \in Racine : \A i : Vivante(q, i)' => Vivante(q, i),
         perimees \subseteq perimees',
         \A q \in Racine : \A i : i \notin perimees' /\ Vivante(q, i) => Vivante(q, i)'
  PROVE  Codes'
<1>1. \A q \in Racine : \A i : /\ AEmettre(q, i)' <=> AEmettre(q, i)
                               /\ AConsommer(q, i)' <=> AConsommer(q, i)
  BY DEF AEmettre, AConsommer
<1>2. \A q \in Racine : \A j \in DOMAIN enRoute'[q] : Inedite(q, j)'
  BY DEF Codes, Inedite
<1>3. ASSUME NEW q \in Racine, NEW i PROVE Suivi(q, i)'
  <2>1. Pair[q] \in Racine BY DeuxRacines
  <2>2. Suivi(q, i) BY DEF Codes
  <2> QED BY <2>1, <2>2, <1>1 DEF Suivi
<1> QED BY <1>2, <1>3 DEF Codes

LEMMA CodesSuivisSuivant == IInv /\ IInv' /\ CodesSuivis /\ [Next]_vars => CodesSuivis'
<1> SUFFICES ASSUME IInv, IInv', CodesSuivis, [Next]_vars, amorcages' = 0 PROVE Codes'
  BY DEF CodesSuivis
<1>1. CASE UNCHANGED vars
  <2>1. /\ enRoute' = enRoute /\ amorcages' = amorcages /\ invitations' = invitations
        /\ perimees' = perimees
    BY <1>1 DEF vars, voie, tables, tablesDesInvitations
  <2>2. \A q \in Racine : \A i : Vivante(q, i)' <=> Vivante(q, i) BY <2>1 DEF Vivante
  <2> QED BY <2>1, <2>2, CodesSansEcriture DEF CodesSuivis
<1>2. ASSUME NEW r \in Racine, Ecrit(r) PROVE Codes'
  <2>1. CASE EcrireDesMachines(r)
    <3>1. UNCHANGED tablesDesInvitations BY <2>1 DEF EcrireDesMachines
    <3>2. PICK op : Journaliser(r, op) /\ op.quoi = "modifiee"
      BY <2>1 DEF EcrireDesMachines, ModifierMachine
    <3>3. amorcages' = amorcages BY <3>2 DEF Journaliser, JournaliserTout
    <3> QED BY <3>1, <3>2, <3>3, CodesDUneAutreEcriture DEF CodesSuivis
  <2>2. CASE EcrireDesInvitations(r)
    <3>1. CASE EmettreInvitation(r)
      <4>1. amorcages' = amorcages
        BY <3>1 DEF EmettreInvitation, Journaliser, JournaliserTout
      <4> QED BY <3>1, <4>1, CodesDEmettre DEF CodesSuivis
    <3>2. ASSUME NEW i \in DOMAIN invitations[r], CreerCompteSurInvitation(r, i) PROVE Codes'
      <4>1. amorcages' = amorcages BY <3>2 DEF CreerCompteSurInvitation, JournaliserTout
      <4> QED BY <3>2, <4>1, CodesDeCreerCompte DEF CodesSuivis
    <3>3. ASSUME NEW i, Perimer(i) PROVE Codes'
      <4>1. /\ enRoute' = enRoute /\ amorcages' = amorcages /\ invitations' = invitations
            /\ perimees \subseteq perimees'
        BY <3>3 DEF Perimer, voie
      <4>2. \A q \in Racine : \A x : Vivante(q, x)' <=> Vivante(q, x) BY <4>1 DEF Vivante
      <4> QED BY <4>1, <4>2, CodesSansEcriture DEF CodesSuivis
    <3>4. CASE ExpirerLesInvitations(r)
      <4>1. /\ enRoute' = enRoute /\ amorcages' = amorcages /\ perimees' = perimees
            /\ \A q \in Racine : q # r => invitations'[q] = invitations[q]
            /\ invitations'[r] = Sans(invitations[r], Expirees(r))
        BY <3>4 DEF ExpirerLesInvitations, voie, IInv, Racines
      <4>2. /\ DOMAIN invitations'[r] \subseteq DOMAIN invitations[r]
            /\ \A i \in DOMAIN invitations'[r] : invitations'[r][i] = invitations[r][i]
            /\ \A i \in DOMAIN invitations[r] : i \in DOMAIN invitations'[r] \/ i \in Expirees(r)
        BY <4>1 DEF Sans
      <4>3. \A i : i \notin perimees /\ Vivante(r, i) => i \notin Expirees(r)
        BY DEF Vivante, Expirees
      <4>4. /\ \A i : Vivante(r, i)' => Vivante(r, i)
            /\ \A i : i \notin perimees /\ Vivante(r, i) => Vivante(r, i)'
        BY <4>2, <4>3 DEF Vivante
      <4>5. \A q \in Racine : q # r => \A i : Vivante(q, i)' <=> Vivante(q, i)
        BY <4>1 DEF Vivante
      <4> QED BY <4>1, <4>2, <4>4, <4>5, CodesSansEcriture DEF CodesSuivis
    <3> QED BY <2>2, <3>1, <3>2, <3>3, <3>4 DEF EcrireDesInvitations
  <2>3. CASE EcrireDesInscriptions(r)
    <3>1. ASSUME NEW op, Ecrire(r, op),
                 op.quoi \in {"inscription", "presentation", "marque", "locateurs"}
          PROVE  Codes'
      <4>1. Journaliser(r, op) /\ UNCHANGED tablesDesInvitations
        BY <2>3, <3>1 DEF Ecrire, EcrireDesInscriptions
      <4>2. amorcages' = amorcages BY <4>1 DEF Journaliser, JournaliserTout
      <4> QED BY <3>1, <4>1, <4>2, CodesDUneAutreEcriture DEF CodesSuivis
    <3>2. \E op : /\ Ecrire(r, op)
                  /\ op.quoi \in {"inscription", "presentation", "marque", "locateurs"}
      <4>1. ASSUME NEW c, NEW a, DeclarerAnnuaire(r, c, a)
            PROVE  \E op : Ecrire(r, op) /\ op.quoi = "inscription"
        BY <4>1 DEF DeclarerAnnuaire
      <4>2. ASSUME NEW code, NEW m, PresenterUnCode(r, code, m)
            PROVE  \E op : Ecrire(r, op) /\ op.quoi = "presentation"
        BY <4>2 DEF PresenterUnCode
      <4>3. ASSUME NEW m, NEW genre, Decider(r, m, genre)
            PROVE  \E op : Ecrire(r, op) /\ op.quoi = "marque"
        BY <4>3 DEF Decider
      <4>4. ASSUME NEW m, PublierLocateurs(r, m)
            PROVE  \E op : Ecrire(r, op) /\ op.quoi = "locateurs"
        BY <4>4 DEF PublierLocateurs
      <4>5. EcrireUneInscription(r) BY <2>3 DEF EcrireDesInscriptions
      <4> QED BY <4>1, <4>2, <4>3, <4>4, <4>5 DEF EcrireUneInscription
    <3> QED BY <3>1, <3>2
  <2>4. CASE EffacerUnCompte(r)
    <3>1. PICK c \in Titulaires : EffacerCompte(r, c) BY <2>4 DEF EffacerUnCompte
    <3>2. PICK op : Journaliser(r, op) /\ op.quoi = "efface" BY <3>1 DEF EffacerCompte
    <3>3. UNCHANGED tablesDesInvitations BY <2>4 DEF EffacerUnCompte
    <3>4. amorcages' = amorcages BY <3>2 DEF Journaliser, JournaliserTout
    <3> QED BY <3>2, <3>3, <3>4, CodesDUneAutreEcriture DEF CodesSuivis
  <2> QED BY <1>2, <2>1, <2>2, <2>3, <2>4 DEF Ecrit
<1>3. ASSUME NEW r \in Racine, Recevoir(r) PROVE Codes'
  <2>1. amorcages' = amorcages BY <1>3 DEF Recevoir, Retirer
  <2> QED BY <1>3, <2>1, CodesDeRecevoir DEF CodesSuivis
<1>4. ASSUME NEW r \in Racine, Amorcer(r) PROVE Codes'
  <2>1. amorcages' = amorcages + 1 /\ amorcages \in Nat
    BY <1>4 DEF Amorcer, AmorcerPar, IInv, Voies
  <2> QED BY <2>1
<1>5. ASSUME NEW r \in Racine, Demander(r) PROVE Codes'
  <2>1. PICK q : Servir(r, q) BY <1>5 DEF Demander
  <2>2. UNCHANGED tablesDesInvitations BY <2>1 DEF Servir
  <2>3. PICK op : Journaliser(r, op) /\ op.quoi \in {"machine", "service", "hebergeur"}
    <3>1. ASSUME CreerMachine(r, q.compte)
          PROVE  \E op : Journaliser(r, op) /\ op.quoi = "machine"
      BY <3>1 DEF CreerMachine
    <3>2. ASSUME DeclarerService(r, q.machine, q.nom)
          PROVE  \E op : Journaliser(r, op) /\ op.quoi = "service"
      BY <3>2 DEF DeclarerService
    <3>3. ASSUME ConfierDomaine(r, q.domaine, q.annuaire)
          PROVE  \E op : Journaliser(r, op) /\ op.quoi = "hebergeur"
      BY <3>3 DEF ConfierDomaine, Ecrire
    <3> QED BY <2>1, <3>1, <3>2, <3>3 DEF Servir
  <2>4. amorcages' = amorcages BY <2>3 DEF Journaliser, JournaliserTout
  <2> QED BY <2>2, <2>3, <2>4, CodesDUneAutreEcriture DEF CodesSuivis
<1>6. ASSUME NEW r \in Racine, Tarder(r) \/ Rendre(r) PROVE Codes'
  <2>1. /\ enRoute' = enRoute /\ amorcages' = amorcages /\ invitations' = invitations
        /\ perimees' = perimees
    BY <1>6 DEF Tarder, Rendre, voie, tables, tablesDesInvitations
  <2>2. \A q \in Racine : \A i : Vivante(q, i)' <=> Vivante(q, i) BY <2>1 DEF Vivante
  <2> QED BY <2>1, <2>2, CodesSansEcriture DEF CodesSuivis
<1> QED BY <1>1, <1>2, <1>3, <1>4, <1>5, <1>6 DEF Next

LEMMA CodesSuivisInit == Init => CodesSuivis
<1> SUFFICES ASSUME Init PROVE Codes BY DEF CodesSuivis
<1>1. \A r \in Racine : enRoute[r] = <<>> BY DEF Init, InitVoie
<1>2. \A q, r \in Racine : invitations[q] = invitations[r] BY DEF Init, InitTables
<1>3. \A r \in Racine : Pair[r] \in Racine BY DeuxRacines
<1>4. \A r \in Racine : \A i : ~AEmettre(r, i) /\ ~AConsommer(r, i)
  BY <1>1 DEF AEmettre, AConsommer
<1>5. \A q, r \in Racine : \A i : Vivante(q, i) <=> Vivante(r, i) BY <1>2 DEF Vivante
<1> QED BY <1>1, <1>3, <1>4, <1>5 DEF Codes, Suivi

-----------------------------------------------------------------------------
(* Nothing on its way: the two roots agree.                                *)

\* What the pair of r holds is known here, and an account that is erased on one root is
\* on the other.
LEMMA ToutRecu ==
  ASSUME Accord, RienEnRoute, NEW r \in Racine, NEW g, NEW k, NEW v, Tenu(Pair[r], g, k, v)
  PROVE  Su(r, g, k, v)
<1>1. enRoute[r] = <<>> BY DEF RienEnRoute
<1>2. ~DitPar(enRoute[r], g, k, v) BY <1>1 DEF DitPar
<1> QED BY <1>2 DEF Accord, Couverture

LEMMA EffacesDAccord ==
  ASSUME Accord, RienEnRoute, NEW r \in Racine
  PROVE  effaces[r] = effaces[Pair[r]]
<1>1. ASSUME NEW q \in Racine, NEW c \in effaces[Pair[q]] PROVE c \in effaces[q]
  <2>1. Tenu(Pair[q], "efface", c, c) BY FaitsDe DEF Tenu, Sortes
  <2>2. Su(q, "efface", c, c) BY <2>1, ToutRecu
  <2> QED BY <2>2, FaitsDe DEF Su, DUneMachine
<1>2. Pair[r] \in Racine /\ Pair[Pair[r]] = r BY DeuxRacines
<1> QED BY <1>1, <1>2

\* A row of one root is a row of the other, that stays against it; for the facts of a
\* machine, when its account is there.
LEMMA RangeesDAccord ==
  ASSUME IInv, Accord, RienEnRoute, NEW r \in Racine, NEW g \in Sortes,
         NEW k \in DOMAIN Faits(Pair[r], g),
         g \in DUneMachine => MachineDuFait(g, k) \in Vivantes(Pair[r])
  PROVE  /\ k \in DOMAIN Faits(r, g)
         /\ Vaut(g, Faits(r, g)[k], Faits(Pair[r], g)[k])
<1> DEFINE p == Pair[r]
<1>1. PICK v : v = Faits(p, g)[k] OBVIOUS
<1>2. Tenu(p, g, k, v) BY <1>1 DEF Tenu
<1>3. Su(r, g, k, v) BY <1>2, ToutRecu
<1>4. p \in Racine /\ effaces[p] = effaces[r] BY DeuxRacines, EffacesDAccord
<1>5. ASSUME NEW m \in Vivantes(p) PROVE ~Delaisse(r, m)
  <2>1. m \in DOMAIN machines[p] /\ machines[p][m].proprietaire \notin effaces[p]
    BY DEF Vivantes
  <2>2. Vu("machine", m, machines[p][m].proprietaire)
    BY <1>4, <2>1, SonProprietaire DEF Accord
  <2> QED BY <2>1, <2>2, <1>4 DEF Delaisse
<1> QED BY <1>1, <1>3, <1>5 DEF Su

\* Two values of one fact that stay against each other are one.
LEMMA UneValeur ==
  ASSUME IInv, Accord, NEW q \in Racine, NEW r \in Racine, NEW g \in Sortes,
         NEW k, NEW v, NEW w, Tenu(q, g, k, v), Tenu(r, g, k, w), Vaut(g, v, w), Vaut(g, w, v)
  PROVE  v = w
<1>1. Date(g, k, v) /\ Date(g, k, w) BY TenusDates
<1>2. Vu(g, k, v) /\ Vu(g, k, w) BY DEF Vu
<1>3. g \in Uniques /\ Origine(g, k, v) = Origine(g, k, w) => v = w
  BY <1>2 DEF Accord, Unicite
<1>4. CASE g \in Premiers \cup Derniers
  <2>1. Rang(g, v) \in Estampille /\ Rang(g, w) \in Estampille BY <1>1, <1>4 DEF Date, Emise
  <2>2. PICK a, b : a = Rang(g, v) /\ b = Rang(g, w) OBVIOUS
  <2>3. ~Avant(a, b) /\ ~Avant(b, a) BY <2>2, <1>4 DEF Vaut
  <2>4. a = b BY <2>1, <2>2, <2>3, OrdreTotal
  <2>5. CASE g \in {"presentation", "hebergeur"}
    BY <2>2, <2>4, <2>5, <1>3 DEF Rang, Origine, Uniques
  <2>6. CASE g \notin {"presentation", "hebergeur"} BY <2>2, <2>4, <2>6 DEF Rang
  <2> QED BY <2>5, <2>6
<1>5. CASE g \in {"declaration", "machine"} BY <1>3, <1>5 DEF Origine, Uniques
<1>6. CASE g \in {"efface", "ouvert"}
  <2>1. PICK X, Y : Faits(q, g) = [x \in X |-> x] /\ Faits(r, g) = [x \in Y |-> x]
    <3>1. CASE g = "efface"
      <4>1. Faits(q, g) = [x \in effaces[q] |-> x] /\ Faits(r, g) = [x \in effaces[r] |-> x]
        BY <3>1, FaitsDe
      <4> QED BY <4>1
    <3>2. CASE g = "ouvert"
      <4>1. Faits(q, g) = [x \in ouverts[q] |-> x] /\ Faits(r, g) = [x \in ouverts[r] |-> x]
        BY <3>2, FaitsDe
      <4> QED BY <4>1
    <3> QED BY <1>6, <3>1, <3>2
  <2>2. k \in X /\ v = k BY <2>1 DEF Tenu
  <2>3. k \in Y /\ w = k BY <2>1 DEF Tenu
  <2> QED BY <2>2, <2>3
<1> QED BY <1>4, <1>5, <1>6 DEF Sortes

\* Each table of facts is the one of the other root.
LEMMA FaitsDAccord ==
  ASSUME IInv, Accord, RienEnRoute, NEW r \in Racine, NEW g \in Sortes \ DUneMachine
  PROVE  /\ DOMAIN Faits(r, g) = DOMAIN Faits(Pair[r], g)
         /\ \A k \in DOMAIN Faits(r, g) : Faits(r, g)[k] = Faits(Pair[r], g)[k]
<1>1. Pair[r] \in Racine /\ Pair[Pair[r]] = r BY DeuxRacines
<1>2. DOMAIN Faits(r, g) = DOMAIN Faits(Pair[r], g)
  <2>1. \A q \in Racine : \A k \in DOMAIN Faits(Pair[q], g) : k \in DOMAIN Faits(q, g)
    BY RangeesDAccord
  <2> QED BY <1>1, <2>1
<1>3. ASSUME NEW k \in DOMAIN Faits(r, g) PROVE Faits(r, g)[k] = Faits(Pair[r], g)[k]
  <2>1. PICK v, w : v = Faits(r, g)[k] /\ w = Faits(Pair[r], g)[k] OBVIOUS
  <2>2. Tenu(r, g, k, v) /\ Tenu(Pair[r], g, k, w) BY <1>2, <2>1 DEF Tenu
  <2>3. Vaut(g, v, w) BY <1>2, <2>1, RangeesDAccord
  <2>4. Vaut(g, w, v) BY <1>1, <1>2, <2>1, RangeesDAccord
  <2> QED BY <1>1, <2>1, <2>2, <2>3, <2>4, UneValeur
<1> QED BY <1>2, <1>3

\* The machines of the accounts that are there are the same on both roots.
LEMMA VivantesDAccord ==
  ASSUME IInv, Accord, RienEnRoute, NEW r \in Racine
  PROVE  Vivantes(r) = Vivantes(Pair[r])
<1>1. ASSUME NEW q \in Racine, NEW m \in Vivantes(Pair[q]) PROVE m \in Vivantes(q)
  <2> DEFINE p == Pair[q]
  <2>1. p \in Racine /\ effaces[q] = effaces[p] BY DeuxRacines, EffacesDAccord
  <2>2. m \in DOMAIN machines[p] /\ machines[p][m].proprietaire \notin effaces[p]
    BY DEF Vivantes
  <2>3. m \in DOMAIN Faits(p, "machine") /\ MachineDuFait("machine", m) = m
    BY <2>2, FaitsDe DEF MachineDuFait
  <2>4. m \in DOMAIN Faits(q, "machine") BY <2>3, RangeesDAccord DEF Sortes
  <2>5. m \in DOMAIN machines[q] BY <2>4, FaitsDe
  <2>6. machines[q][m].proprietaire = machines[p][m].proprietaire
    BY <2>1, <2>2, <2>5, SonProprietaire DEF Accord
  <2> QED BY <2>1, <2>2, <2>5, <2>6 DEF Vivantes
<1>2. Pair[r] \in Racine /\ Pair[Pair[r]] = r BY DeuxRacines
<1>3. Vivantes(Pair[r]) \subseteq Vivantes(r) BY <1>1
<1>4. Vivantes(r) \subseteq Vivantes(Pair[r])
  <2>1. \A m \in Vivantes(Pair[Pair[r]]) : m \in Vivantes(Pair[r]) BY <1>1, <1>2
  <2> QED BY <1>2, <2>1
<1> QED BY <1>3, <1>4

\* And so is what is known of them.
LEMMA FaitsVivants ==
  ASSUME IInv, Accord, RienEnRoute, NEW r \in Racine, NEW g \in Sortes \cap DUneMachine,
         NEW k \in DOMAIN Faits(r, g), MachineDuFait(g, k) \in Vivantes(r)
  PROVE  k \in DOMAIN Faits(Pair[r], g) /\ Faits(r, g)[k] = Faits(Pair[r], g)[k]
<1> DEFINE p == Pair[r]
<1>1. p \in Racine /\ Pair[p] = r BY DeuxRacines
<1>2. MachineDuFait(g, k) \in Vivantes(p) BY VivantesDAccord
<1> HIDE DEF p
<1>3. k \in DOMAIN Faits(Pair[p], g) /\ MachineDuFait(g, k) \in Vivantes(Pair[p]) BY <1>1
<1>4. k \in DOMAIN Faits(p, g) /\ Vaut(g, Faits(p, g)[k], Faits(Pair[p], g)[k])
  BY <1>1, <1>3, RangeesDAccord
<1>5. PICK v, w : v = Faits(r, g)[k] /\ w = Faits(p, g)[k] OBVIOUS
<1>6. Tenu(r, g, k, v) /\ Tenu(p, g, k, w) BY <1>4, <1>5 DEF Tenu
<1>7. Vaut(g, w, v) BY <1>1, <1>4, <1>5
<1>8. Vaut(g, v, w)
  <2>1. k \in DOMAIN Faits(Pair[r], g) /\ MachineDuFait(g, k) \in Vivantes(Pair[r])
    BY <1>2, <1>4 DEF p
  <2>2. Vaut(g, Faits(r, g)[k], Faits(Pair[r], g)[k]) BY <2>1, RangeesDAccord
  <2> QED BY <1>5, <2>2 DEF p
<1>9. v = w BY <1>1, <1>6, <1>7, <1>8, UneValeur
<1> QED BY <1>4, <1>5, <1>9 DEF p

LEMMA MemeTable ==
  ASSUME NEW f, NEW h, NEW S, NEW T, NEW U, NEW V, TableDe(f, S, T), TableDe(h, U, V),
         DOMAIN f = DOMAIN h, \A k \in DOMAIN f : f[k] = h[k]
  PROVE  f = h
<1>1. f \in [DOMAIN f -> T] /\ h \in [DOMAIN f -> V] BY DEF TableDe
<1>2. f = [k \in DOMAIN f |-> f[k]] /\ h = [k \in DOMAIN f |-> h[k]] BY <1>1
<1> QED BY <1>2

LEMMA MachinesDAccord ==
  ASSUME IInv, Accord, RienEnRoute, NEW r \in Racine
  PROVE  MachinesVivantes(r) = MachinesVivantes(Pair[r])
<1> DEFINE f == machines[r]
           h == machines[Pair[r]]
           L == Vivantes(r)
<1>1. Pair[r] \in Racine BY DeuxRacines
<1>2. TableDe(f, Emise, MachineDe(Emise)) /\ TableDe(h, Emise, MachineDe(Emise))
  BY <1>1 DEF IInv, Locale, MachinesDe
<1>3. L = Vivantes(Pair[r]) BY VivantesDAccord
<1>4. ASSUME NEW m \in L PROVE f[m] = h[m]
  <2>1. m \in DOMAIN f /\ m \in DOMAIN h BY <1>3, <1>4 DEF Vivantes
  <2>2. ASSUME NEW g \in {"machine", "nom", "capacites"}
        PROVE  Faits(r, g)[m] = Faits(Pair[r], g)[m]
    <3>1. g \in Sortes \cap DUneMachine BY DEF Sortes, DUneMachine, Derniers
    <3>2. m \in DOMAIN Faits(r, g) /\ MachineDuFait(g, m) = m
      BY <2>1, FaitsDe DEF MachineDuFait
    <3> QED BY <1>4, <3>1, <3>2, FaitsVivants
  <2>3. /\ Faits(r, "machine")[m] = f[m].proprietaire /\ Faits(r, "nom")[m] = f[m].nom
        /\ Faits(r, "capacites")[m] = f[m].capacites
        /\ Faits(Pair[r], "machine")[m] = h[m].proprietaire
        /\ Faits(Pair[r], "nom")[m] = h[m].nom
        /\ Faits(Pair[r], "capacites")[m] = h[m].capacites
    BY <2>1, FaitsDe
  <2>4. /\ f[m].proprietaire = h[m].proprietaire /\ f[m].nom = h[m].nom
        /\ f[m].capacites = h[m].capacites
    BY <2>2, <2>3
  <2>5. Saine(m, f[m]) /\ Saine(m, h[m]) BY <1>1, <2>1 DEF Accord, Saines
  <2>6. f[m].estampille = h[m].estampille BY <2>4, <2>5 DEF Saine
  <2>7. f[m] \in MachineDe(Emise) /\ h[m] \in MachineDe(Emise)
    BY <1>2, <2>1 DEF TableDe
  <2>8. \A a, b \in MachineDe(Emise) :
          /\ a.proprietaire = b.proprietaire /\ a.estampille = b.estampille
          /\ a.nom = b.nom /\ a.capacites = b.capacites
          => a = b
    BY DEF MachineDe
  <2> QED BY <2>4, <2>6, <2>7, <2>8
<1>5. MachinesVivantes(r) = [m \in L |-> f[m]] BY DEF MachinesVivantes, Restrict
<1>6. MachinesVivantes(Pair[r]) = [m \in L |-> h[m]]
  BY <1>3 DEF MachinesVivantes, Restrict
<1> HIDE DEF f, h, L
<1> QED BY <1>4, <1>5, <1>6

LEMMA ServicesDAccord ==
  ASSUME IInv, Accord, RienEnRoute, NEW r \in Racine
  PROVE  ServicesVivants(r) = ServicesVivants(Pair[r])
<1> DEFINE De(q) == {s \in DOMAIN services[q] : s.machine \in Vivantes(q)}
<1>1. ASSUME NEW q \in Racine, NEW s \in De(q)
      PROVE  s \in De(Pair[q]) /\ services[q][s] = services[Pair[q]][s]
  <2>1. /\ Faits(q, "service") = services[q] /\ Faits(Pair[q], "service") = services[Pair[q]]
        /\ MachineDuFait("service", s) = s.machine
        /\ "service" \in Sortes \cap DUneMachine
    BY FaitsDe DEF MachineDuFait, Sortes, Premiers, DUneMachine
  <2>2. s \in DOMAIN services[Pair[q]] /\ services[q][s] = services[Pair[q]][s]
    BY <2>1, FaitsVivants
  <2> QED BY <2>2, VivantesDAccord
<1>2. Pair[r] \in Racine /\ Pair[Pair[r]] = r BY DeuxRacines
<1>3. De(r) = De(Pair[r])
  <2>1. De(r) \subseteq De(Pair[r]) BY <1>1
  <2>2. De(Pair[r]) \subseteq De(Pair[Pair[r]]) BY <1>1, <1>2
  <2> QED BY <1>2, <2>1, <2>2
<1>4. \A s \in De(r) : services[r][s] = services[Pair[r]][s] BY <1>1
<1>5. /\ ServicesVivants(r) = [s \in De(r) |-> services[r][s]]
      /\ ServicesVivants(Pair[r]) = [s \in De(Pair[r]) |-> services[Pair[r]][s]]
  BY DEF ServicesVivants, Restrict
<1> HIDE DEF De
<1> QED BY <1>3, <1>4, <1>5

LEMMA InscriptionsDAccord ==
  ASSUME IInv, Accord, RienEnRoute, NEW r \in Racine
  PROVE  /\ declarations[r] = declarations[Pair[r]]
         /\ presentations[r] = presentations[Pair[r]] /\ marques[r] = marques[Pair[r]]
         /\ hebergements[r] = hebergements[Pair[r]] /\ locateurs[r] = locateurs[Pair[r]]
<1> DEFINE p == Pair[r]
<1>1. p \in Racine BY DeuxRacines
<1>2. InscriptionsDe(r) /\ InscriptionsDe(p) BY <1>1 DEF IInv, Locale
<1>3. {"declaration", "presentation", "marque", "hebergeur", "locateurs"}
        \subseteq Sortes \ DUneMachine
  BY DEF Sortes, Premiers, Derniers, DUneMachine
<1>4. ASSUME NEW g \in {"declaration", "presentation", "marque", "hebergeur", "locateurs"},
             NEW f, NEW h, f = Faits(r, g), h = Faits(p, g)
      PROVE  DOMAIN f = DOMAIN h /\ \A k \in DOMAIN f : f[k] = h[k]
  BY <1>3, <1>4, FaitsDAccord
<1>5. declarations[r] = declarations[p]
  BY <1>2, <1>4, FaitsDe, MemeTable DEF InscriptionsDe
<1>6. presentations[r] = presentations[p]
  BY <1>2, <1>4, FaitsDe, MemeTable DEF InscriptionsDe
<1>7. marques[r] = marques[p]
  BY <1>2, <1>4, FaitsDe, MemeTable DEF InscriptionsDe
<1>8. hebergements[r] = hebergements[p]
  BY <1>2, <1>4, FaitsDe, MemeTable DEF InscriptionsDe
<1>9. locateurs[r] = locateurs[p]
  BY <1>2, <1>4, FaitsDe, MemeTable DEF InscriptionsDe
<1> QED BY <1>5, <1>6, <1>7, <1>8, <1>9

LEMMA OuvertsDAccord ==
  ASSUME IInv, Accord, RienEnRoute, NEW r \in Racine
  PROVE  ouverts[r] = ouverts[Pair[r]]
<1>1. DOMAIN Faits(r, "ouvert") = DOMAIN Faits(Pair[r], "ouvert")
  BY FaitsDAccord DEF Sortes, DUneMachine
<1>2. /\ Faits(r, "ouvert") = [a \in ouverts[r] |-> a]
      /\ Faits(Pair[r], "ouvert") = [a \in ouverts[Pair[r]] |-> a]
  BY FaitsDe
<1> QED BY <1>1, <1>2

LEMMA CodesDAccord ==
  ASSUME IInv, Codes, RienEnRoute, NEW r \in Racine
  PROVE  Utilisables(r) = Utilisables(Pair[r])
<1>1. Pair[r] \in Racine /\ Pair[Pair[r]] = r BY DeuxRacines
<1>2. \A q \in Racine : \A i : ~AEmettre(q, i) /\ ~AConsommer(q, i)
  BY DEF RienEnRoute, AEmettre, AConsommer
<1>3. \A q \in Racine : \A i : i \in Utilisables(q) <=> i \notin perimees /\ Vivante(q, i)
  BY DEF Utilisables, Expirees, Vivante, IInv, Locale, InvitationsDe, TableDe, Etats
<1>4. ASSUME NEW q \in Racine, Pair[q] \in Racine, NEW i, i \notin perimees,
             Vivante(Pair[q], i)
      PROVE  Vivante(q, i)
  BY <1>2, <1>4 DEF Codes, Suivi
<1>5. \A i : i \in Utilisables(r) <=> i \in Utilisables(Pair[r]) BY <1>1, <1>3, <1>4
<1> QED BY <1>5 DEF Utilisables

LEMMA AccordDesRacines == IInv /\ Accord /\ CodesSuivis => RacinesDAccord
<1> SUFFICES ASSUME IInv, Accord, CodesSuivis, RienEnRoute, NEW r \in Racine
             PROVE  /\ effaces[r] = effaces[Pair[r]]
                    /\ MachinesVivantes(r) = MachinesVivantes(Pair[r])
                    /\ ServicesVivants(r) = ServicesVivants(Pair[r])
                    /\ ouverts[r] = ouverts[Pair[r]]
                    /\ amorcages = 0 => Utilisables(r) = Utilisables(Pair[r])
                    /\ <<declarations[r], presentations[r], marques[r], hebergements[r],
                         locateurs[r]>>
                         = <<declarations[Pair[r]], presentations[Pair[r]],
                             marques[Pair[r]], hebergements[Pair[r]], locateurs[Pair[r]]>>
  BY DEF RacinesDAccord
<1>1. amorcages = 0 => Utilisables(r) = Utilisables(Pair[r])
  BY CodesDAccord DEF CodesSuivis
<1> QED BY <1>1, EffacesDAccord, MachinesDAccord, ServicesDAccord, OuvertsDAccord,
           InscriptionsDAccord

\* Once everything is received both roots hold the same facts, of the machines and the
\* services those of the accounts that are there, whatever crossed on the way, whatever
\* erasure came between the two transactions of a request (lib.rs 1746, 2855) and whatever
\* snapshots took the place of the journal; and the same codes open an account, when no
\* snapshot was read.
THEOREM RegistreRacinesDAccord == Spec => []RacinesDAccord
BY PasInit, PasSuivant, RequetesInit, RequetesSuivantes, AccordInit, AccordSuivant,
   AttachesInit, AttachesSuivant, CodesSuivisInit, CodesSuivisSuivant, AccordDesRacines,
   PTL DEF Spec
=============================================================================
