------------------------- MODULE RegistreInvariant -------------------------
(***************************************************************************)
(* What RegistrePreuves.tla proves that every step of Registre.tla keeps.  *)
(*                                                                         *)
(* IInv bounds every stamp by the clock of the root that gave it (Emise),  *)
(* and speaks of what is on its way (CheminDe): an account that is         *)
(* announced is open on the root that opened it, and the declaration of a  *)
(* code goes before its presentation, also in a snapshot, so that a        *)
(* presentation always finds its declaration.  Requetes follows the        *)
(* request that is between its two transactions.                           *)
(*                                                                         *)
(* Accord is over the facts that the tables and the queues tell: a fact of *)
(* one root is known to the other, by a value that stays against it, or is *)
(* on its way to it (Couverture), and what is on its way is known to its   *)
(* sender (Verite).  Attaches says whose are the services without machine; *)
(* Codes says of the codes what Accord says of the facts, as long as no    *)
(* snapshot was read.                                                      *)
(***************************************************************************)
EXTENDS Registre, RepliquePreuves

-----------------------------------------------------------------------------
(* The rows and the operations, over the stamps that are given.            *)

\* The rows of an invitation.
Etats == {"vivante", "morte"}

\* The fields of a machine are not younger than its row.
MachineDe(E) ==
  {machine \in [proprietaire : Titulaires, estampille : E, nom : E, capacites : E] :
     /\ machine.nom.compteur <= machine.estampille.compteur
     /\ machine.capacites.compteur <= machine.estampille.compteur}

CompteOuvert(E) == [par : E, compte : E]

Declaration == [proprietaire : Titulaires, annuaire : Membres \cup {SansAnnuaire}]
PresentationDe(E) == [membre : Membres, estampille : E]
MarqueDe == [genre : Genre, membre : Membres]
HebergementDe(E) == [annuaire : Membres \cup {SansAnnuaire}, estampille : E]

AuxMachines(E) ==
  {operation \in [quoi : {"machine"}, estampille : E, machine : E,
                  enregistrement : MachineDe(E)] :
     operation.enregistrement.estampille = operation.estampille}
    \cup [quoi : {"modifiee"}, estampille : E, machine : E,
          champs : SUBSET {"nom", "capacites"}]
    \cup [quoi : {"service"}, estampille : E, service : [machine : E, nom : Noms]]
    \cup [quoi : {"efface"}, estampille : E \cup {Aucune}, compte : Titulaires]
    \cup [quoi : {"fin"}, estampille : E]

AuxInvitations(E) ==
  [quoi : {"invitation"}, estampille : E \cup {Aucune}, invitation : E, etat : Etats]
    \cup [quoi : {"consommee"}, estampille : E, invitation : E]
    \cup [quoi : {"ouvert"}, estampille : E, par : E, compte : E]
    \cup [quoi : {"premier"}, estampille : E, compte : E]

AuxInscriptions(E) ==
  [quoi : {"inscription"}, estampille : E, code : E, enregistrement : Declaration]
    \cup [quoi : {"presentation"}, estampille : E, code : E,
          enregistrement : PresentationDe(E)]
    \cup [quoi : {"marque"}, estampille : E, marque : MarqueDe]
    \cup [quoi : {"hebergeur"}, estampille : E, domaine : DOMAIN DomaineDe,
          annuaire : Membres \cup {SansAnnuaire}]
    \cup [quoi : {"locateurs"}, estampille : E, membre : Membres]

OperationDe(E) == AuxMachines(E) \cup AuxInvitations(E) \cup AuxInscriptions(E)

\* The clocks and the paths.
Voies ==
  /\ compteur \in [Racine -> Nat] /\ amorcages \in Nat
  /\ enRoute \in [Racine -> Seq(OperationDe(Emise))]

Racines ==
  /\ DOMAIN effaces = Racine /\ DOMAIN machines = Racine /\ DOMAIN services = Racine
  /\ DOMAIN invitations = Racine /\ DOMAIN ouverts = Racine /\ DOMAIN balayees = Racine
  /\ DOMAIN declarations = Racine /\ DOMAIN presentations = Racine
  /\ DOMAIN marques = Racine /\ DOMAIN hebergements = Racine /\ DOMAIN locateurs = Racine

\* No row of a machine is younger than the clock.
MachinesDe(r) ==
  /\ TableDe(machines[r], Emise, MachineDe(Emise))
  /\ TableDe(services[r], [machine : Emise, nom : Noms], Emise)
  /\ effaces[r] \subseteq Titulaires /\ IsFiniteSet(effaces[r])
  /\ \A m \in DOMAIN machines[r] : machines[r][m].estampille.compteur <= compteur[r]

\* The code of an account opened here bears its mark, until it is swept; the root that
\* opened an account knows it.
InvitationsDe(r) ==
  /\ TableDe(invitations[r], Emise, Etats)
  /\ ouverts[r] \subseteq CompteOuvert(Emise) /\ IsFiniteSet(ouverts[r])
  /\ \A a \in ouverts[r] : a \in ouverts[a.compte.racine]
  /\ \A a \in ouverts[r] : a.compte.racine = r =>
       \/ a.par \in DOMAIN invitations[r] /\ invitations[r][a.par] = "morte"
       \/ a.par \in balayees[r]
  /\ \A a, b \in ouverts[r] :
       a.par = b.par /\ a.compte.racine = r /\ b.compte.racine = r =>
         a = b \/ a.par \in balayees[r]

InscriptionsDe(r) ==
  /\ TableDe(declarations[r], Emise, Declaration)
  /\ TableDe(presentations[r], Emise, PresentationDe(Emise))
  /\ TableDe(marques[r], MarqueDe, Emise)
  /\ TableDe(hebergements[r], DOMAIN DomaineDe, HebergementDe(Emise))
  /\ TableDe(locateurs[r], Membres, Emise)
  /\ DOMAIN presentations[r] \subseteq DOMAIN declarations[r]

\* The codes that a queue declares.
Inscrits(s) == {s[i].code : i \in {i \in DOMAIN s : s[i].quoi = "inscription"}}

\* A presentation comes after the declaration of its code, among D or earlier in the queue.
Ordonnee(s, D) ==
  \A i \in DOMAIN s : s[i].quoi = "presentation" =>
    \/ s[i].code \in D
    \/ \E j \in DOMAIN s : j < i /\ s[j].quoi = "inscription" /\ s[j].code = s[i].code

\* What is on its way to a root.
CheminDe(r) ==
  /\ \A i \in DOMAIN enRoute[r] : enRoute[r][i].quoi = "ouvert" =>
       [par |-> enRoute[r][i].par, compte |-> enRoute[r][i].compte]
         \in ouverts[enRoute[r][i].compte.racine]
  /\ Inscrits(enRoute[r]) \subseteq DOMAIN declarations[Pair[r]]
  /\ DOMAIN declarations[Pair[r]] \subseteq DOMAIN declarations[r] \cup Inscrits(enRoute[r])
  /\ Ordonnee(enRoute[r], DOMAIN declarations[r])

\* What a root holds.
Locale(r) == MachinesDe(r) /\ InvitationsDe(r) /\ InscriptionsDe(r)

IInv == Voies /\ Racines /\ \A r \in Racine : Locale(r) /\ CheminDe(r)

-----------------------------------------------------------------------------
(* The request in hand, and what an erasure may come between.              *)

\* The requests, over the stamps that are given.
RequeteDe(E) ==
  {Repos} \cup {Creer(c) : c \in Titulaires}
    \cup {Declarer(m, nom) : m \in E, nom \in Noms}
    \cup {Confier(d, a) : d \in DOMAIN DomaineDe, a \in Membres \cup {SansAnnuaire}}

\* A machine of an account that is erased, a service without its machine are those of a
\* request whose ground left.
Tenues(r) ==
  /\ \A m \in DOMAIN machines[r] \ Vivantes(r) :
       Creer(machines[r][m].proprietaire) \in surpris[r]
  /\ \A s \in DOMAIN services[r] :
       s.machine \in DOMAIN machines[r] \/ Declarer(s.machine, s.nom) \in surpris[r]

Requetes ==
  /\ DOMAIN demande = Racine /\ DOMAIN surpris = Racine
  /\ \A r \in Racine :
       /\ demande[r] \in RequeteDe(Emise)
       /\ Fondee(r, demande[r]) \/ demande[r] \in surpris[r]
       /\ Tenues(r)

-----------------------------------------------------------------------------
(* Convergence.  A root knows facts: a kind g, a key k, a value v.          *)

\* The facts that need a machine, those that bear a stamp: the first one stays, or the
\* last one.
DUneMachine == {"machine", "nom", "capacites", "service"}
Premiers == {"presentation", "marque", "service"}
Derniers == {"hebergeur", "locateurs", "nom", "capacites"}
Sortes == {"efface", "ouvert", "declaration", "machine"} \cup Premiers \cup Derniers

\* The facts of one kind that a root holds, by key.
Faits(q, g) ==
  CASE g = "efface"       -> [c \in effaces[q] |-> c]
    [] g = "ouvert"       -> [a \in ouverts[q] |-> a]
    [] g = "declaration"  -> declarations[q]
    [] g = "presentation" -> presentations[q]
    [] g = "marque"       -> marques[q]
    [] g = "hebergeur"    -> hebergements[q]
    [] g = "locateurs"    -> locateurs[q]
    [] g = "machine"      -> [m \in DOMAIN machines[q] |-> machines[q][m].proprietaire]
    [] g = "nom"          -> [m \in DOMAIN machines[q] |-> machines[q][m].nom]
    [] g = "capacites"    -> [m \in DOMAIN machines[q] |-> machines[q][m].capacites]
    [] g = "service"      -> services[q]

Tenu(q, g, k, v) == g \in Sortes /\ k \in DOMAIN Faits(q, g) /\ v = Faits(q, g)[k]

\* What an operation makes known to whoever applies it.
Dit(op, g, k, v) ==
  \/ op.quoi = "efface" /\ g = "efface" /\ k = op.compte /\ v = k
  \/ op.quoi = "ouvert" /\ g = "ouvert" /\ k = [par |-> op.par, compte |-> op.compte] /\ v = k
  \/ op.quoi = "inscription" /\ g = "declaration" /\ k = op.code /\ v = op.enregistrement
  \/ op.quoi = "presentation" /\ g = "presentation" /\ k = op.code /\ v = op.enregistrement
  \/ op.quoi = "marque" /\ g = "marque" /\ k = op.marque /\ v = op.estampille
  \/ /\ op.quoi = "hebergeur" /\ g = "hebergeur" /\ k = op.domaine
     /\ v = [annuaire |-> op.annuaire, estampille |-> op.estampille]
  \/ op.quoi = "locateurs" /\ g = "locateurs" /\ k = op.membre /\ v = op.estampille
  \/ /\ op.quoi = "machine" /\ k = op.machine
     /\ \/ g = "machine" /\ v = op.enregistrement.proprietaire
        \/ g \in {"nom", "capacites"} /\ v = k
  \/ op.quoi = "modifiee" /\ g \in op.champs /\ k = op.machine /\ v = op.estampille
  \/ op.quoi = "service" /\ g = "service" /\ k = op.service /\ v = op.estampille

\* And what the record it carries says, where the row was not there.
Porte(op, g, k, v) ==
  \/ Dit(op, g, k, v)
  \/ /\ op.quoi = "machine" /\ k = op.machine
     /\ \/ g = "nom" /\ v = op.enregistrement.nom
        \/ g = "capacites" /\ v = op.enregistrement.capacites

\* The same, for the operations of a queue.
DitPar(s, g, k, v)   == \E i \in DOMAIN s : Dit(s[i], g, k, v)
PortePar(s, g, k, v) == \E i \in DOMAIN s : Porte(s[i], g, k, v)

\* A fact that is somewhere: in a table or on its way.
Vu(g, k, v) == \E q \in Racine : Tenu(q, g, k, v) \/ PortePar(enRoute[q], g, k, v)

\* The stamp of a value; the one of the operation that first said a fact.
Rang(g, v) == IF g \in {"presentation", "hebergeur"} THEN v.estampille ELSE v
Origine(g, k, v) == IF g \in {"machine", "declaration"} THEN k ELSE v.estampille

\* A stamp was given to one operation.
Uniques == {"machine", "declaration", "presentation", "hebergeur"}
Unicite ==
  \A g \in Uniques : \A k, v, w :
    Vu(g, k, v) /\ Vu(g, k, w) /\ Origine(g, k, v) = Origine(g, k, w) => v = w

\* The value a stays against b, by the rule of its kind.
Vaut(g, a, b) ==
  /\ g \in Premiers => ~Avant(Rang(g, b), Rang(g, a))
  /\ g \in Derniers => ~Avant(Rang(g, a), Rang(g, b))

\* The account of the machine is erased, as far as this root knows.
Delaisse(q, m) == \A c : Vu("machine", m, c) => c \in effaces[q]

MachineDuFait(g, k) == IF g = "service" THEN k.machine ELSE k

\* The root knows at least this.
Su(q, g, k, v) ==
  \/ g \in DUneMachine /\ Delaisse(q, MachineDuFait(g, k))
  \/ k \in DOMAIN Faits(q, g) /\ Vaut(g, Faits(q, g)[k], v)

\* What r has still to apply is known to the root that sent it.
Verite(r) == \A g, k, v : PortePar(enRoute[r], g, k, v) => Su(Pair[r], g, k, v)

\* What a root holds is known to the other one, or on its way to it.
Couverture(r) ==
  \A g, k, v : Tenu(Pair[r], g, k, v) => Su(r, g, k, v) \/ DitPar(enRoute[r], g, k, v)

\* Neither root keeps anything for it any more.
Abandonnee(r, m) == Delaisse(r, m) /\ Delaisse(Pair[r], m)

\* A service whose machine is gone, like the request that will declare one, is that of
\* an account that both roots know as erased.
Nommees(r) ==
  {s.machine : s \in DOMAIN services[r]}
    \cup (IF demande[r].quoi = "declarer" THEN {demande[r].machine} ELSE {})

Attachees(r) == \A m \in Nommees(r) : m \in DOMAIN machines[r] \/ Abandonnee(r, m)

Attaches == \A r \in Racine : Attachees(r)

\* The machine that an operation is about, once it is created.
Suppose(op, m) ==
  \/ op.quoi = "modifiee" /\ m = op.machine
  \/ op.quoi = "service" /\ m = op.service.machine

Connu(q, m) == m \in DOMAIN machines[q] \/ Delaisse(q, m)

\* What is said of a machine comes after it.
Precedee(r, i) ==
  \A m : Suppose(enRoute[r][i], m) =>
    Connu(r, m) \/ \E j \in 1..(i-1) : \E c : Dit(enRoute[r][j], "machine", m, c)

\* No field is older than its machine, the row bears the stamp of the last one, and a
\* change changes something.
Saine(m, machine) ==
  /\ ~Avant(machine.nom, m) /\ ~Avant(machine.capacites, m)
  /\ machine.estampille = PlusTard(machine.nom, machine.capacites)

OperationSaine(op) ==
  /\ op.quoi = "machine" => Saine(op.machine, op.enregistrement)
  /\ op.quoi = "modifiee" => op.champs # {}

Saines(r) ==
  /\ \A m \in DOMAIN machines[r] : Saine(m, machines[r][m])
  /\ \A i \in DOMAIN enRoute[r] : OperationSaine(enRoute[r][i])

Accord ==
  /\ Unicite
  /\ \A r \in Racine :
       /\ Verite(r) /\ Couverture(r) /\ Saines(r)
       /\ \A i \in DOMAIN enRoute[r] : Precedee(r, i)

-----------------------------------------------------------------------------
(* The codes, as long as no snapshot was read: one that may open an account *)
(* on a root may on the other one, or is about to, or was consumed there.    *)

Vivante(r, i) == i \in DOMAIN invitations[r] /\ invitations[r][i] = "vivante"

\* The operation emits the code, or consumes it.
Nomme(op, i) == op.quoi \in {"invitation", "consommee"} /\ op.invitation = i
Emet(op, i) == op.quoi = "invitation" /\ op.invitation = i
Consomme(op, i) == op.quoi = "consommee" /\ op.invitation = i

AEmettre(r, i) == \E j \in DOMAIN enRoute[r] : Emet(enRoute[r][j], i)
AConsommer(r, i) == \E j \in DOMAIN enRoute[r] : Consomme(enRoute[r][j], i)

\* An emission comes first, alive, on a root that has never seen its code.
Inedite(r, j) ==
  \A i : Emet(enRoute[r][j], i) =>
    /\ enRoute[r][j].etat = "vivante" /\ i \notin DOMAIN invitations[r]
    /\ \A n \in DOMAIN enRoute[r] : n < j => ~Nomme(enRoute[r][n], i)

Suivi(r, i) ==
  /\ AConsommer(Pair[r], i) => ~AEmettre(r, i) /\ ~Vivante(r, i)
  /\ i \notin perimees /\ Vivante(Pair[r], i) =>
       Vivante(r, i) \/ AEmettre(r, i) \/ AConsommer(Pair[r], i)
  /\ i \notin perimees /\ AEmettre(Pair[r], i) => Vivante(r, i) \/ AConsommer(Pair[r], i)

Codes ==
  \A r \in Racine :
    /\ \A j \in DOMAIN enRoute[r] : Inedite(r, j)
    /\ \A i : Suivi(r, i)

CodesSuivis == amorcages = 0 => Codes
=============================================================================
