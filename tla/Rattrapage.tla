----------------------------- MODULE Rattrapage -----------------------------
(***************************************************************************)
(* What the replication between two roots promises, without streams,       *)
(* journals, retention or snapshots: each root holds a growing set of      *)
(* stamped records, a root learns records only from its peer, and the      *)
(* cursor it keeps for that peer is an acknowledgement - everything the    *)
(* peer wrote itself up to the cursor has been learnt.                     *)
(* Voie.tla is shown to implement this module.                             *)
(***************************************************************************)
EXTENDS Naturals

CONSTANTS
  Racine, Pair,  \* roots come in pairs: Pair[r] # r and Pair[Pair[r]] = r
  Horloge        \* the values a Lamport counter may take

Estampille == [compteur : Horloge, racine : Racine]

VARIABLES
  rangees,   \* rangees[r]: the stamps of the records root r holds
  curseur    \* curseur[r]: how far root r has acknowledged its peer

vars == <<rangees, curseur>>

Ecrites(r, S) == {e \in S : e.racine = r}

Init ==
  /\ rangees = [r \in Racine |-> {}]
  /\ curseur = [r \in Racine |-> 0]

\* A local write: its stamp is above everything this root holds (Lamport) and
\* above what the peer has already acknowledged, so it is never overlooked.
Ecrire(r) ==
  /\ \E n \in Horloge :
       /\ \A e \in rangees[r] : e.compteur < n
       /\ curseur[Pair[r]] < n
       /\ rangees' = [rangees EXCEPT ![r] = @ \cup {[compteur |-> n, racine |-> r]}]
  /\ UNCHANGED curseur

\* Learning some of what the peer holds; the cursor may advance only over what
\* is then held.
Apprendre(r) ==
  \E S \in SUBSET rangees[Pair[r]] :
    \E n \in Horloge :
      /\ n >= curseur[r]
      /\ \A e \in Ecrites(Pair[r], rangees[Pair[r]]) :
            e.compteur <= n => e \in rangees[r] \cup S
      /\ rangees' = [rangees EXCEPT ![r] = @ \cup S]
      /\ curseur' = [curseur EXCEPT ![r] = n]

Next == \E r \in Racine : Ecrire(r) \/ Apprendre(r)

Spec == Init /\ [][Next]_vars
=============================================================================
