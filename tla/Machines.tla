------------------------------ MODULE Machines ------------------------------
(***************************************************************************)
(* Machines, their name and capabilities, and the services declared on them *)
(* (asl-store/lib.rs), on two roots that replicate each other.  Their keys   *)
(* and codes are in Enrolement.tla.                                          *)
(*                                                                         *)
(* A machine is known by the stamp of its creation, a service by its machine *)
(* and its name: its identifier is derived from both.  A name and            *)
(* capabilities are their stamps.  The identifiers of before the derivation  *)
(* and their migration are left out.                                         *)
(***************************************************************************)
EXTENDS Replique, TLC, SequencesExt, Functions

CONSTANTS
  Titulaires,     \* the accounts, known by both roots
  Noms            \* names of services

ASSUME TitulairesAssumption == Titulaires \subseteq Estampille

VARIABLES
  effaces,     \* COMPTES: the accounts erased on each root
  machines,    \* MACHINES, MACHINES_PAR_COMPTE
  services     \* SERVICES, SERVICES_PAR_NOM: the stamp of each service

tablesDesMachines == <<effaces, machines, services>>

Machine(c, e) == [proprietaire |-> c, estampille |-> e, nom |-> e, capacites |-> e]

\* The machines of the accounts that are there.
Vivantes(r) == {m \in DOMAIN machines[r] : machines[r][m].proprietaire \notin effaces[r]}

-----------------------------------------------------------------------------
\* The account was read before: the write does not look at it again.
CreerMachine(r, c) ==
  LET m == Suivante(r) IN
  /\ machines' = [machines EXCEPT ![r] = Poser(@, m, Machine(c, m))]
  /\ Journaliser(r, [quoi |-> "machine", estampille |-> m, machine |-> m,
                     enregistrement |-> Machine(c, m)])
  /\ UNCHANGED <<effaces, services>>

\* The fields given, at least one, take the stamp of the change.
Modifiee(machine, champs, e) ==
  [machine EXCEPT !.estampille = e,
                  !.nom        = IF "nom" \in champs THEN e ELSE @,
                  !.capacites  = IF "capacites" \in champs THEN e ELSE @]

ModifierMachine(r, m) ==
  \E champs \in (SUBSET {"nom", "capacites"}) \ {{}} :
    /\ machines' = [machines EXCEPT ![r][m] = Modifiee(@, champs, Suivante(r))]
    /\ Journaliser(r, [quoi |-> "modifiee", estampille |-> Suivante(r), machine |-> m,
                       champs |-> champs])
    /\ UNCHANGED <<effaces, services>>

\* The first announcement of a name declares its service; the write does not look at
\* the machine again.
DeclarerService(r, m, nom) ==
  LET s == [machine |-> m, nom |-> nom] IN
  /\ s \notin DOMAIN services[r]
  /\ services' = [services EXCEPT ![r] = Poser(@, s, Suivante(r))]
  /\ Journaliser(r, [quoi |-> "service", estampille |-> Suivante(r), service |-> s])
  /\ UNCHANGED <<effaces, machines>>

\* The machines of an account leave with it, and the services with their machine.
EffacerLesMachines(r, c) ==
  LET siennes == {m \in DOMAIN machines[r] : machines[r][m].proprietaire = c} IN
  /\ effaces'  = [effaces EXCEPT ![r] = @ \cup {c}]
  /\ machines' = [machines EXCEPT ![r] = Sans(@, siennes)]
  /\ services' = [services EXCEPT ![r] = Sans(@, {s \in DOMAIN @ : s.machine \in siennes})]

EffacerCompte(r, c) ==
  /\ c \notin effaces[r]
  /\ EffacerLesMachines(r, c)
  /\ Journaliser(r, [quoi |-> "efface", estampille |-> Suivante(r), compte |-> c])

-----------------------------------------------------------------------------
AppliquerMachine(r, operation) ==
  /\ machines' = [machines EXCEPT ![r] =
       IF operation.enregistrement.proprietaire \in effaces[r] THEN @
         ELSE Garder(@, operation.machine, operation.enregistrement)]
  /\ UNCHANGED <<effaces, services>>

\* Mutants of Recents: all the fields of the operation or none, by the stamp of the
\* row; all of them.
RecentsParLigne(machine, champs, e) == IF Avant(machine.estampille, e) THEN champs ELSE {}
RecentsToujours(machine, champs, e) == champs

\* Each field has a stamp of its own.
Recents(machine, champs, e) == {champ \in champs : Avant(machine[champ], e)}

AppliquerMachineModifiee(r, operation) ==
  LET m == operation.machine
      e == operation.estampille
  IN
  /\ machines' = IF m \in DOMAIN machines[r]
       THEN [machines EXCEPT ![r][m] =
               [Modifiee(@, Recents(@, operation.champs, e), e)
                  EXCEPT !.estampille = PlusTard(machines[r][m].estampille, e)]]
       ELSE machines
  /\ UNCHANGED <<effaces, services>>

\* Mutant of Rattache: the machine is not looked for.
RattacheToujours(r, s) == TRUE

\* A service needs its machine.
Rattache(r, s) == s.machine \in DOMAIN machines[r]

\* Declared on both sides: the first one stays.  Without its machine, nothing.
AppliquerService(r, operation) ==
  LET s == operation.service IN
  /\ services' = [services EXCEPT ![r] =
       IF ~Rattache(r, s) THEN @
         ELSE Poser(@, s, IF s \in DOMAIN @ THEN PlusTot(@[s], operation.estampille)
                                             ELSE operation.estampille)]
  /\ UNCHANGED <<effaces, machines>>

AppliquerCompteEfface(r, operation) ==
  IF operation.compte \in effaces[r] THEN UNCHANGED tablesDesMachines
    ELSE EffacerLesMachines(r, operation.compte)

AppliquerAuxMachines(r, operation) ==
  \/ operation.quoi = "machine"  /\ AppliquerMachine(r, operation)
  \/ operation.quoi = "modifiee" /\ AppliquerMachineModifiee(r, operation)
  \/ operation.quoi = "service"  /\ AppliquerService(r, operation)
  \/ operation.quoi = "efface"   /\ AppliquerCompteEfface(r, operation)

\* The machines of q as a snapshot tells them: the row, then each field with its own
\* stamp, both in one operation when it is the same.
DitsDUneMachine(q, m) ==
  LET machine == machines[q][m]
      modifiee(e, champs) == [quoi |-> "modifiee", estampille |-> e, machine |-> m,
                              champs |-> champs]
  IN <<[quoi |-> "machine", estampille |-> machine.estampille, machine |-> m,
        enregistrement |-> machine]>>
     \o (IF machine.nom = machine.capacites
           THEN <<modifiee(machine.nom, {"nom", "capacites"})>>
           ELSE <<modifiee(machine.nom, {"nom"}), modifiee(machine.capacites, {"capacites"})>>)

DitsDesMachines(q) ==
  LET toutes == SetToSeq(DOMAIN machines[q])
  IN FlattenSeq([i \in DOMAIN toutes |-> DitsDUneMachine(q, toutes[i])])

DitsDesServices(q) ==
  LET tous == SetToSeq(DOMAIN services[q])
  IN [i \in DOMAIN tous |->
        [quoi |-> "service", estampille |-> services[q][tous[i]], service |-> tous[i]]]

DitsDesEffaces(q) ==
  LET tous == SetToSeq(effaces[q])
  IN [i \in DOMAIN tous |->
        [quoi |-> "efface", estampille |-> Aucune, compte |-> tous[i]]]
=============================================================================
