---------------------------- MODULE Invitations -----------------------------
(***************************************************************************)
(* Invitations: a code is issued, opens one account, expires, is swept       *)
(* (asl-store/lib.rs), on two roots that replicate each other.  A code is     *)
(* known by the stamp of its emission.  A consumed one stays as a mark that   *)
(* is already expired, until the next sweep.                                  *)
(***************************************************************************)
EXTENDS Replique, TLC, SequencesExt, Functions

VARIABLES
  invitations,   \* INVITATIONS: "vivante" or "morte"
  ouverts,       \* COMPTES and APPAREILS: the accounts opened, by which code
  perimees,      \* the codes whose date is past, on the clock of both roots
  balayees       \* history: the codes whose mark a root has swept

tablesDesInvitations == <<invitations, ouverts, perimees, balayees>>

\* A mark is a row with the date 0.
Expirees(r) == {i \in DOMAIN invitations[r] : invitations[r][i] = "morte" \/ i \in perimees}

EmettreInvitation(r) ==
  /\ invitations' = [invitations EXCEPT ![r] = Poser(@, Suivante(r), "vivante")]
  /\ Journaliser(r, [quoi |-> "invitation", estampille |-> Suivante(r),
                     invitation |-> Suivante(r), etat |-> "vivante"])
  /\ UNCHANGED <<ouverts, perimees, balayees>>

\* One transaction: the mark, the account, its first device, three operations.
CreerCompteSurInvitation(r, i) ==
  /\ i \notin Expirees(r)
  /\ invitations' = [invitations EXCEPT ![r][i] = "morte"]
  /\ ouverts' = [ouverts EXCEPT ![r] = @ \cup {[par |-> i, compte |-> Prochaine(r, 2)]}]
  /\ JournaliserTout(r,
       <<[quoi |-> "consommee", estampille |-> Suivante(r), invitation |-> i],
         [quoi |-> "ouvert", estampille |-> Prochaine(r, 2), par |-> i,
          compte |-> Prochaine(r, 2)],
         [quoi |-> "premier", estampille |-> Prochaine(r, 3), compte |-> Prochaine(r, 2)]>>)
  /\ UNCHANGED <<perimees, balayees>>

Perimer(i) ==
  /\ i \notin perimees
  /\ perimees' = perimees \cup {i}
  /\ UNCHANGED <<voie, invitations, ouverts, balayees>>

\* The sweep of every minute: nothing is journaled.
ExpirerLesInvitations(r) ==
  /\ Expirees(r) # {}
  /\ invitations' = [invitations EXCEPT
       ![r] = Sans(@, Expirees(r))]
  /\ balayees' = [balayees EXCEPT
       ![r] = @ \cup {i \in Expirees(r) : invitations[r][i] = "morte"}]
  /\ UNCHANGED <<voie, ouverts, perimees>>

-----------------------------------------------------------------------------
\* Mutant of AppliquerInvitation: the row is written again.
AppliquerInvitationToujours(r, operation) ==
  /\ invitations' = [invitations EXCEPT ![r] = Poser(@, operation.invitation, operation.etat)]
  /\ UNCHANGED <<ouverts, perimees, balayees>>

\* A row that is there stays, a mark too.
AppliquerInvitation(r, operation) ==
  /\ invitations' = [invitations EXCEPT ![r] = Garder(@, operation.invitation, operation.etat)]
  /\ UNCHANGED <<ouverts, perimees, balayees>>

\* Marked, known or not.
AppliquerInvitationConsommee(r, operation) ==
  /\ invitations' = [invitations EXCEPT ![r] = Poser(@, operation.invitation, "morte")]
  /\ UNCHANGED <<ouverts, perimees, balayees>>

AppliquerCompteOuvert(r, operation) ==
  /\ ouverts' = [ouverts EXCEPT ![r] =
       @ \cup {[par |-> operation.par, compte |-> operation.compte]}]
  /\ UNCHANGED <<invitations, perimees, balayees>>

AppliquerAuxInvitations(r, operation) ==
  \/ operation.quoi = "invitation" /\ AppliquerInvitation(r, operation)
  \/ operation.quoi = "consommee"  /\ AppliquerInvitationConsommee(r, operation)
  \/ operation.quoi = "ouvert"     /\ AppliquerCompteOuvert(r, operation)
  \/ operation.quoi = "premier"    /\ UNCHANGED tablesDesInvitations

\* Mark or not, the row goes as an invitation: a mark carries the date 0.
DitsDesInvitations(q) ==
  LET toutes == SetToSeq(DOMAIN invitations[q])
      comptes == SetToSeq(ouverts[q])
  IN [i \in DOMAIN comptes |->
        [quoi |-> "ouvert", estampille |-> comptes[i].compte, par |-> comptes[i].par,
         compte |-> comptes[i].compte]]
     \o [i \in DOMAIN toutes |->
           [quoi |-> "invitation", invitation |-> toutes[i],
            estampille |-> IF invitations[q][toutes[i]] = "morte" THEN Aucune ELSE toutes[i],
            etat |-> invitations[q][toutes[i]]]]
=============================================================================
