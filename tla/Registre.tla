------------------------------ MODULE Registre ------------------------------
(***************************************************************************)
(* Machines and services, invitations, inscriptions of directories: one      *)
(* store, one clock and one path for all of them (asl-store/lib.rs).         *)
(*                                                                         *)
(* A behaviour writes in one of the three parts, the one it starts with:     *)
(* they share the clock, the path, the snapshot and the erasure of an        *)
(* account, and no table.                                                    *)
(*                                                                         *)
(* The requests that create a machine, declare a service or entrust a domain *)
(* read what allows them in one transaction and write in a later one, which  *)
(* does not read it again; the task of the puller may commit between the     *)
(* two.  The other writes read what they depend on in their own transaction. *)
(***************************************************************************)
EXTENDS Inscriptions, Invitations

CONSTANTS
  Parts,          \* the parts of the store a behaviour may write in
  Lentes,         \* the roots between whose two transactions the peer may come
  EcartsMax,      \* bound: snapshots read, and requests the peer comes between, together
  EcrituresMax    \* bound, by part: how many writes

ASSUME RegistreAssumption ==
  /\ Parts \subseteq {"machines", "invitations", "inscriptions"}
  /\ Lentes \subseteq Racine /\ EcartsMax \in Nat
  /\ \A p \in Parts : EcrituresMax[p] \in Nat
  \* The rows of the initial states belong to an account and to two directories.
  /\ Titulaires # {} /\ \E a, b \in Membres : a # b

VARIABLES
  part,        \* the part this behaviour writes in
  ecritures,   \* how many writes so far, an erasure included
  demande,     \* the request of each root that is between its two transactions
  surpris,     \* history: the requests whose ground left between the two
  lentes       \* how many requests had the peer come between theirs

tables == <<tablesDesMachines, tablesDesInvitations, tablesDesInscriptions>>
requete == <<demande, surpris, lentes>>
vars == <<voie, tables, part, ecritures, requete>>

\* A request in hand.
Repos            == [quoi |-> "repos"]
Creer(c)         == [quoi |-> "creer", compte |-> c]
Declarer(m, nom) == [quoi |-> "declarer", machine |-> m, nom |-> nom]
Confier(d, a)    == [quoi |-> "confier", domaine |-> d, annuaire |-> a]

\* On both roots, what they exchanged before: a machine; or an invitation that is
\* alive; or a directory of the first account, accepted, and two codes for a second
\* member, the last of which is presented.
Titulaire1 == CHOOSE c \in Titulaires : \A autre \in Titulaires : ~Avant(autre, c)
Depart == 7     \* the clock that the stamps below have brought both roots to
E1(n) == [Titulaire1 EXCEPT !.compteur = n]
Annuaire1 == CHOOSE m \in Membres : TRUE
Annuaire2 == CHOOSE m \in Membres : m # Annuaire1

InitTables ==
  /\ effaces = [r \in Racine |-> {}]
  /\ machines = [r \in Racine |->
       IF part = "machines" THEN Seul(E1(2), Machine(Titulaire1, E1(2))) ELSE <<>>]
  /\ services = [r \in Racine |-> <<>>]
  /\ invitations = [r \in Racine |->
       IF part = "invitations" THEN Seul(E1(2), "vivante") ELSE <<>>]
  /\ ouverts = [r \in Racine |-> {}] /\ perimees = {}
  /\ balayees = [r \in Racine |-> {}]
  /\ declarations = [r \in Racine |-> IF part = "inscriptions"
       THEN [e \in {E1(2), E1(5), E1(6)} |->
               [proprietaire |-> Titulaire1,
                annuaire |-> IF e = E1(2) THEN SansAnnuaire ELSE Annuaire1]]
       ELSE <<>>]
  /\ presentations = [r \in Racine |-> IF part = "inscriptions"
       THEN Poser(Seul(E1(2), [membre |-> Annuaire1, estampille |-> E1(3)]),
                  E1(6), [membre |-> Annuaire2, estampille |-> E1(7)])
       ELSE <<>>]
  /\ marques = [r \in Racine |-> IF part = "inscriptions"
       THEN Seul(Marque("acceptation", Annuaire1), E1(4)) ELSE <<>>]
  /\ hebergements = [r \in Racine |-> <<>>] /\ locateurs = [r \in Racine |-> <<>>]

Init ==
  /\ part \in Parts /\ ecritures = 0
  /\ InitVoie(Depart)
  /\ InitTables
  /\ demande = [r \in Racine |-> Repos]
  /\ surpris = [r \in Racine |-> {}] /\ lentes = 0

-----------------------------------------------------------------------------
\* First transaction of a request: the account of the connection is there, or the
\* machine that announces is; or the domain and the directory are those of the account.
Lues(r) ==
  IF part = "machines"
    THEN {Creer(c) : c \in Titulaires \ effaces[r]}
           \cup {Declarer(m, nom) : m \in DOMAIN machines[r], nom \in Noms}
  ELSE IF part = "inscriptions"
    THEN {q \in {Confier(d, a) : d \in DOMAIN DomaineDe, a \in Membres \cup {SansAnnuaire}} :
            PeutConfier(r, q.domaine, q.annuaire)}
  ELSE {}

\* The request that the second transaction is for: one that can be read now, or the one
\* that was before operations of the peer were applied.
Demandes(r) == IF demande[r] = Repos THEN Lues(r) ELSE {demande[r]}

\* The puller commits between the two transactions of a request.
Tarder(r) ==
  /\ demande[r] = Repos /\ enRoute[r] # <<>>
  /\ r \in Lentes /\ lentes + amorcages < EcartsMax
  /\ lentes' = lentes + 1
  /\ \E q \in Lues(r) : demande' = [demande EXCEPT ![r] = q]
  /\ UNCHANGED <<voie, tables, part, ecritures, surpris>>

Rendue(r) == demande' = [demande EXCEPT ![r] = Repos] /\ UNCHANGED <<surpris, lentes>>

\* The request is refused, or fails, after its first transaction.
Rendre(r) ==
  /\ demande[r] # Repos
  /\ Rendue(r)
  /\ UNCHANGED <<voie, tables, part, ecritures>>

\* Its second transaction.
Servir(r, q) ==
  \/ /\ \/ q.quoi = "creer" /\ CreerMachine(r, q.compte)
        \/ q.quoi = "declarer" /\ DeclarerService(r, q.machine, q.nom)
     /\ UNCHANGED <<tablesDesInvitations, tablesDesInscriptions>>
  \/ /\ q.quoi = "confier" /\ ConfierDomaine(r, q.domaine, q.annuaire)
     /\ UNCHANGED tablesDesInvitations

\* The account of a machine changes it while it is there.
EcrireDesMachines(r) ==
  /\ \E m \in Vivantes(r) : ModifierMachine(r, m)
  /\ UNCHANGED <<tablesDesInvitations, tablesDesInscriptions>>

EcrireDesInvitations(r) ==
  /\ \/ EmettreInvitation(r) \/ ExpirerLesInvitations(r)
     \/ \E i \in DOMAIN invitations[r] : CreerCompteSurInvitation(r, i) \/ Perimer(i)
  /\ UNCHANGED <<tablesDesMachines, tablesDesInscriptions>>

EcrireDesInscriptions(r) ==
  /\ EcrireUneInscription(r)
  /\ UNCHANGED tablesDesInvitations

EffacerUnCompte(r) ==
  /\ \E c \in Titulaires : EffacerCompte(r, c)
  /\ UNCHANGED <<tablesDesInvitations, tablesDesInscriptions>>

Compter == ecritures < EcrituresMax[part] /\ ecritures' = ecritures + 1 /\ UNCHANGED part

Demander(r) ==
  /\ Compter
  /\ \E q \in Demandes(r) : Servir(r, q)
  /\ Rendue(r)

Ecrit(r) ==
  /\ Compter
  /\ demande[r] = Repos /\ UNCHANGED requete
  /\ \/ part = "machines" /\ EcrireDesMachines(r)
     \/ part = "invitations" /\ EcrireDesInvitations(r)
     \/ part = "inscriptions" /\ EcrireDesInscriptions(r)
     \/ part # "invitations" /\ EffacerUnCompte(r)

Appliquer(r, operation) ==
  \/ /\ AppliquerAuxMachines(r, operation)
     /\ UNCHANGED <<tablesDesInvitations, tablesDesInscriptions>>
  \/ /\ AppliquerAuxInvitations(r, operation)
     /\ UNCHANGED <<tablesDesMachines, tablesDesInscriptions>>
  \/ /\ AppliquerAuxInscriptions(r, operation)
     /\ UNCHANGED <<tablesDesMachines, tablesDesInvitations>>
  \/ operation.quoi = "fin" /\ UNCHANGED tables

\* What a request was allowed by is still there.
Fondee(r, q) ==
  /\ q.quoi = "creer" => q.compte \notin effaces[r]
  /\ q.quoi = "declarer" => q.machine \in DOMAIN machines[r]

Recevoir(r) ==
  /\ Retirer(r)
  /\ Appliquer(r, Head(enRoute[r]))
  /\ UNCHANGED <<part, ecritures, demande, lentes>>
  /\ surpris' = [surpris EXCEPT ![r] = @ \cup
       (IF Fondee(r, demande[r])' THEN {} ELSE {demande[r]})]

\* Every table in turn.
Instantane(q) ==
  DitsDesEffaces(q) \o DitsDesMachines(q) \o DitsDesInvitations(q) \o DitsDesServices(q)
    \o DitsDesInscriptions(q)

Amorcer(r) ==
  /\ lentes + amorcages < EcartsMax
  /\ AmorcerPar(r, Instantane(Pair[r]))
  /\ UNCHANGED <<tables, part, ecritures, requete>>

Next ==
  \E r \in Racine :
    \/ Tarder(r) \/ Rendre(r) \/ Demander(r) \/ Ecrit(r)
    \/ Recevoir(r) \/ Amorcer(r)

Spec == Init /\ [][Next]_vars
-----------------------------------------------------------------------------
(* Properties.                                                             *)

EstTable(f, S, T) == \A cle \in DOMAIN f : cle \in S /\ f[cle] \in T

\* Every row is a row of its table, and no service, no machine outlives what it
\* belongs to: an account erased on one root while the other adds machines and
\* services to it leaves nothing (lib.rs 3919, 4583 and 4892), but for the machine or
\* the service of the very request that its erasure came between.
TablesJustes ==
  \A r \in Racine :
    /\ \A i \in DOMAIN enRoute[r] : enRoute[r][i].estampille \in Estampille \cup {Aucune}
    /\ effaces[r] \subseteq Titulaires
    /\ EstTable(machines[r], Estampille,
         [proprietaire : Titulaires, estampille : Estampille,
          nom : Estampille, capacites : Estampille])
    /\ \A m \in DOMAIN machines[r] \ Vivantes(r) :
         Creer(machines[r][m].proprietaire) \in surpris[r]
    /\ EstTable(services[r], [machine : Estampille, nom : Noms], Estampille)
    /\ \A s \in DOMAIN services[r] :
         s.machine \in DOMAIN machines[r] \/ Declarer(s.machine, s.nom) \in surpris[r]
    /\ EstTable(invitations[r], Estampille, {"vivante", "morte"})
    /\ EstTable(declarations[r], Estampille,
         [proprietaire : Titulaires, annuaire : Membres \cup {SansAnnuaire}])
    /\ EstTable(presentations[r], DOMAIN declarations[r],
         [membre : Membres, estampille : Estampille])
    /\ EstTable(marques[r], [genre : Genre, membre : Membres], Estampille)
    /\ EstTable(hebergements[r], DOMAIN DomaineDe,
         [annuaire : Membres \cup {SansAnnuaire}, estampille : Estampille])
    /\ EstTable(locateurs[r], Membres, Estampille)

\* The codes that still open an account on r.
Utilisables(r) == DOMAIN invitations[r] \ Expirees(r)

\* What is held for the accounts that are there.
MachinesVivantes(r) == Restrict(machines[r], Vivantes(r))
ServicesVivants(r) ==
  Restrict(services[r], {s \in DOMAIN services[r] : s.machine \in Vivantes(r)})

\* Once everything is received both roots hold the same facts, hence read the same:
\* of the accounts that are there, the machines with the same name and the same
\* capabilities and the same services; the same erasures and the same accounts opened,
\* the same members in the same state and the same hosts, whatever crossed on the way
\* and whatever request an erasure came between; and the same codes open an account,
\* when no snapshot was read.
RacinesDAccord ==
  RienEnRoute => \A r \in Racine :
    /\ effaces[r] = effaces[Pair[r]]
    /\ MachinesVivantes(r) = MachinesVivantes(Pair[r])
    /\ ServicesVivants(r) = ServicesVivants(Pair[r])
    /\ ouverts[r] = ouverts[Pair[r]]
    /\ amorcages = 0 => Utilisables(r) = Utilisables(Pair[r])
    /\ <<declarations[r], presentations[r], marques[r], hebergements[r], locateurs[r]>>
         = <<declarations[Pair[r]], presentations[Pair[r]], marques[Pair[r]],
             hebergements[Pair[r]], locateurs[Pair[r]]>>

\* What replication.md 175 says: the erasure of an account always wins, also over the
\* machine declared and the service announced meanwhile on the other root.
EffacementLEmporte ==
  \A r \in Racine :
    /\ DOMAIN machines[r] = Vivantes(r)
    /\ \A s \in DOMAIN services[r] : s.machine \in DOMAIN machines[r]

\* A name or capabilities are never replaced by older ones, neither by an operation
\* of the peer nor by a snapshot (lib.rs 4611: each field has its own stamp).
ChampJamaisRepris ==
  [][\A r \in Racine : \A m \in DOMAIN machines[r] \cap DOMAIN machines'[r] :
       /\ ~Avant(machines'[r][m].nom, machines[r][m].nom)
       /\ ~Avant(machines'[r][m].capacites, machines[r][m].capacites)]_vars

\* A root opens one account at most on a code, however late an emission, a mark or a
\* snapshot comes (lib.rs 2693 and 4686), unless it has swept the mark: a snapshot may
\* then bring the code back.  Two roots may open one account each: both live.
InvitationUneFois ==
  \A r \in Racine : \A a, b \in ouverts[r] :
    a.par = b.par /\ a.compte.racine = r /\ b.compte.racine = r =>
      a = b \/ a.par \in balayees[r]

\* What lib.rs 4700 says of a code that was consumed: whatever the order, it ends up
\* expired on both roots, and opens no other account.
InvitationFinitExpiree ==
  RienEnRoute => \A r \in Racine : \A ouvert \in UNION {ouverts[q] : q \in Racine} :
    ouvert.par \notin Utilisables(r)

\* A directory never has more than two accepted members, on neither root, whatever
\* codes are presented and decided on both at once (annuaires.rs 316).
PaireBornee ==
  \A r \in Racine :
    LET acceptes == {m \in Membres : Presentes(r, m) # {} /\ EtatPropre(r, m) = "acceptee"}
        seconds  == {m \in acceptes : Second(r, m) /\ Etat(r, m) = "acceptee"}
    IN
    \A a, b \in seconds :
      DeclarationDuMembre(r, a).annuaire = DeclarationDuMembre(r, b).annuaire => a = b
=============================================================================
