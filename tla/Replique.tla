------------------------------ MODULE Replique ------------------------------
(***************************************************************************)
(* What the records of the store share when two roots replicate them: the  *)
(* Lamport clock, the journal of a root seen from its peer, and the        *)
(* snapshot that takes its place.  The modules that EXTEND this one say     *)
(* what a record is and how an operation of the peer is applied to it.      *)
(*                                                                         *)
(* The path itself is Voie.tla: it delivers what a root wrote to its peer  *)
(* in order and without hole, or a snapshot when the journal no longer     *)
(* reaches back.  Here it is a queue per root.                              *)
(***************************************************************************)
EXTENDS Naturals, Sequences, FiniteSets

CONSTANTS
  Racine,         \* the two roots, as numbers: identifiers are ordered
  Pair,           \* Pair[r]: the other root
  EnRetard,       \* the roots that may have to read a snapshot
  CompteurMax,    \* bound: no local write once the clock is there
  AmorcagesMax    \* bound: how many snapshots are read

ASSUME RepliqueAssumption ==
  /\ Racine \subseteq Nat \ {0} /\ EnRetard \subseteq Racine
  /\ Pair \in [Racine -> Racine]
  /\ \A r \in Racine : Pair[r] # r /\ Pair[Pair[r]] = r
  /\ {CompteurMax, AmorcagesMax} \subseteq Nat

Estampille == [compteur : Nat, racine : Racine]

\* The derived order of Estampille: the counter first, the root next.
Avant(a, b) ==
  \/ a.compteur < b.compteur
  \/ a.compteur = b.compteur /\ a.racine < b.racine

PlusTot(a, b)  == IF Avant(b, a) THEN b ELSE a
PlusTard(a, b) == IF Avant(a, b) THEN b ELSE a

\* What Option::None stands for, where a stamp is expected.
Aucune == [compteur |-> 0, racine |-> 0]

\* A table is a function: a row is written over the one that is there, or unless there
\* is one, or some are removed.
Poser(table, cle, rangee) ==
  [x \in DOMAIN table \cup {cle} |-> IF x = cle THEN rangee ELSE table[x]]
Garder(table, cle, rangee) ==
  IF cle \in DOMAIN table THEN table ELSE Poser(table, cle, rangee)
Sans(table, cles) == [x \in DOMAIN table \ cles |-> table[x]]
Seul(cle, rangee) == Poser(<<>>, cle, rangee)

VARIABLES
  compteur,   \* the Lamport clock of each root
  enRoute,    \* enRoute[r]: what r has still to apply, in order
  amorcages

voie == <<compteur, enRoute, amorcages>>

InitVoie(depart) ==
  /\ compteur  = [r \in Racine |-> depart]
  /\ enRoute   = [r \in Racine |-> <<>>]
  /\ amorcages = 0

\* The i-th stamp of the transaction that root r opens.
Prochaine(r, i) == [compteur |-> compteur[r] + i, racine |-> r]
Suivante(r) == Prochaine(r, 1)

\* A transaction that journals some operations, each under a stamp of its own.
JournaliserTout(r, operations) ==
  /\ compteur[r] + Len(operations) <= CompteurMax
  /\ compteur' = [compteur EXCEPT ![r] = @ + Len(operations)]
  /\ enRoute'  = [enRoute EXCEPT ![Pair[r]] = @ \o operations]
  /\ UNCHANGED amorcages

Journaliser(r, operation) == JournaliserTout(r, <<operation>>)

\* The next operation of the peer leaves the queue and raises the clock, in the
\* transaction that applies it.
Retirer(r) ==
  /\ enRoute[r] # <<>>
  /\ enRoute'  = [enRoute EXCEPT ![r] = Tail(@)]
  /\ compteur' = [compteur EXCEPT ![r] =
                    IF @ >= Head(enRoute[r]).estampille.compteur
                      THEN @ ELSE Head(enRoute[r]).estampille.compteur]
  /\ UNCHANGED amorcages

\* The end frame of a snapshot read on q.
Fin(q) == [quoi |-> "fin", estampille |-> [compteur |-> compteur[q], racine |-> q]]

\* The journal of the peer no longer reaches back to what r had still to apply:
\* the snapshot of the peer, given, takes its place.
AmorcerPar(r, instantane) ==
  /\ r \in EnRetard /\ amorcages < AmorcagesMax
  /\ enRoute[r] # <<>>
  /\ amorcages' = amorcages + 1
  /\ enRoute'   = [enRoute EXCEPT ![r] = instantane \o <<Fin(Pair[r])>>]
  /\ UNCHANGED compteur

\* All that was written on either root has been applied on the other one.
RienEnRoute == \A r \in Racine : enRoute[r] = <<>>
=============================================================================
