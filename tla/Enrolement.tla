----------------------------- MODULE Enrolement -----------------------------
(***************************************************************************)
(* The enrolment codes and the key of one machine, on two roots that       *)
(* replicate each other (asl-store/lib.rs, h3.rs enroler).  A code is      *)
(* consumed in one transaction and the key bound in the next one, the      *)
(* operations of the peer are applied by another task and may come between *)
(* the two.                                                                *)
(*                                                                         *)
(* The path between the roots is the one of Voie.tla, seen from here: each *)
(* root applies, in order and once, what its peer journaled, unless the    *)
(* journal no longer reaches back - then what was coming is replaced by a  *)
(* snapshot of the peer.                                                   *)
(*                                                                         *)
(* A code is known by the stamp of its emission.  Every consumption brings *)
(* a key of its own, known by the stamp of its binding.  The machine       *)
(* exists on both roots and belongs to an account nobody erases.           *)
(***************************************************************************)
EXTENDS Naturals, Sequences, FiniteSets

CONSTANTS
  Racine,         \* the two roots, as numbers: identifiers are ordered
  Pair,           \* Pair[r]: the other root
  Emetteurs,      \* the roots on which the owner asks for codes
  CompteurMax,    \* bound: no local write once the counter is there
  RevocationsMax, \* bound: how many keys are revoked
  AmorcagesMax,   \* bound: how many snapshots are read
  PannesMax       \* bound: how many times a root restarts

ASSUME EnrolementAssumption ==
  /\ Racine \subseteq Nat /\ Emetteurs \subseteq Racine
  /\ Pair \in [Racine -> Racine]
  /\ \A r \in Racine : Pair[r] # r /\ Pair[Pair[r]] = r
  /\ {CompteurMax, RevocationsMax, AmorcagesMax, PannesMax} \subseteq Nat

Estampille == [compteur : Nat, racine : Racine]

\* The derived order of Estampille: the counter first, the root next.
Avant(a, b) ==
  \/ a.compteur < b.compteur
  \/ a.compteur = b.compteur /\ a.racine < b.racine

\* What Option::None stands for, for a stamp and for a bound key.
Aucune  == [compteur |-> 0, racine |-> 0]
SansCle == [liaison |-> Aucune, code |-> Aucune]
CleLiee == [liaison : Estampille, code : Estampille]

VARIABLES
  compteur,   \* the Lamport clock of each root
  codes,      \* ENROLEMENTS: the codes of the machine that can be consumed
  index,      \* ENROLEMENTS_PAR_MACHINE: the code the machine is said to have
  cle,        \* MACHINES: the key bound to the machine
  enMain,     \* the code a root has consumed and not bound yet
  enRoute,    \* enRoute[r]: what r has still to apply, in order
  acceptes,   \* history: the codes each root has consumed, one entry per time
  revoquees,  \* history: the keys each root knows to be revoked
  amorcages, pannes

vars == <<compteur, codes, index, cle, enMain, enRoute, acceptes, revoquees,
          amorcages, pannes>>

\* The operations of this machine that travel (asl_registre::Operation), and
\* the end frame of a snapshot.
Operation ==
  [quoi : {"enrolement"}, estampille : Estampille]
    \cup [quoi : {"cle-machine"}, estampille : Estampille, code : Estampille,
          empreinte : Estampille \cup {Aucune}]
    \cup [quoi : {"cle-machine-revoquee"}, estampille : Estampille, cle : Estampille]
    \cup [quoi : {"fin"}, estampille : Estampille]

TypeOK ==
  /\ compteur  \in [Racine -> Nat]
  /\ codes     \in [Racine -> SUBSET Estampille]
  /\ index     \in [Racine -> Estampille \cup {Aucune}]
  /\ cle       \in [Racine -> CleLiee \cup {SansCle}]
  /\ enMain    \in [Racine -> Estampille \cup {Aucune}]
  /\ enRoute   \in [Racine -> Seq(Operation)]
  /\ acceptes  \in [Racine -> Seq(Estampille)]
  /\ revoquees \in [Racine -> SUBSET Estampille]
  /\ amorcages \in Nat /\ pannes \in Nat

Init ==
  /\ compteur  = [r \in Racine |-> 0]
  /\ codes     = [r \in Racine |-> {}]
  /\ index     = [r \in Racine |-> Aucune]
  /\ cle       = [r \in Racine |-> SansCle]
  /\ enMain    = [r \in Racine |-> Aucune]
  /\ enRoute   = [r \in Racine |-> <<>>]
  /\ acceptes  = [r \in Racine |-> <<>>]
  /\ revoquees = [r \in Racine |-> {}]
  /\ amorcages = 0 /\ pannes = 0

-----------------------------------------------------------------------------
\* Mutant of Suivante: the stamp is written under the identity of nobody.
SuivanteSansIdentite(r) == [compteur |-> compteur[r] + 1, racine |-> 0]

\* The stamp of the next local write.
Suivante(r) == [compteur |-> compteur[r] + 1, racine |-> r]

\* Mutant of Journaliser: the peer reads the latest operation first.
JournaliserEnTete(r, operation) ==
  /\ compteur[r] < CompteurMax
  /\ compteur' = [compteur EXCEPT ![r] = @ + 1]
  /\ enRoute'  = [enRoute EXCEPT ![Pair[r]] = <<operation>> \o @]

\* A local write: its stamp is taken, and its operation journaled for the peer.
Journaliser(r, operation) ==
  /\ compteur[r] < CompteurMax
  /\ compteur' = [compteur EXCEPT ![r] = @ + 1]
  /\ enRoute'  = [enRoute EXCEPT ![Pair[r]] = Append(@, operation)]

\* The loop serves one request at a time: nothing else of its own comes between
\* the consumption of a code and its binding.
Libre(r) == enMain[r] = Aucune

\* Mutant of Emettre: the previous code is left alive.
EmettreSansRetirer(r) ==
  /\ Libre(r) /\ r \in Emetteurs
  /\ codes' = [codes EXCEPT ![r] = @ \cup {Suivante(r)}]
  /\ index' = [index EXCEPT ![r] = Suivante(r)]
  /\ Journaliser(r, [quoi |-> "enrolement", estampille |-> Suivante(r)])
  /\ UNCHANGED <<cle, enMain, acceptes, revoquees, amorcages, pannes>>

\* POST .../code: the previous code of the machine dies with this emission.
Emettre(r) ==
  /\ Libre(r) /\ r \in Emetteurs
  /\ codes' = [codes EXCEPT ![r] = (@ \ {index[r]}) \cup {Suivante(r)}]
  /\ index' = [index EXCEPT ![r] = Suivante(r)]
  /\ Journaliser(r, [quoi |-> "enrolement", estampille |-> Suivante(r)])
  /\ UNCHANGED <<cle, enMain, acceptes, revoquees, amorcages, pannes>>

\* Mutant of Consommer: the code is read and left in the table.
ConsommerSansRetirer(r) ==
  /\ Libre(r)
  /\ \E c \in codes[r] :
       /\ enMain'   = [enMain   EXCEPT ![r] = c]
       /\ acceptes' = [acceptes EXCEPT ![r] = Append(@, c)]
  /\ UNCHANGED <<compteur, codes, index, cle, enRoute, revoquees, amorcages, pannes>>

\* First transaction of enroler: the code presented leaves both tables, whatever
\* is decided next, and nothing is journaled.
Consommer(r) ==
  /\ Libre(r)
  /\ \E c \in codes[r] :
       /\ codes'    = [codes    EXCEPT ![r] = @ \ {c}]
       /\ index'    = [index    EXCEPT ![r] = Aucune]
       /\ enMain'   = [enMain   EXCEPT ![r] = c]
       /\ acceptes' = [acceptes EXCEPT ![r] = Append(@, c)]
  /\ UNCHANGED <<compteur, cle, enRoute, revoquees, amorcages, pannes>>

\* Second transaction: the key is bound, whatever the machine holds by then.
Lier(r) ==
  /\ enMain[r] # Aucune
  /\ cle'    = [cle    EXCEPT ![r] = [liaison |-> Suivante(r), code |-> enMain[r]]]
  /\ enMain' = [enMain EXCEPT ![r] = Aucune]
  /\ Journaliser(r, [quoi |-> "cle-machine", estampille |-> Suivante(r),
                     code |-> enMain[r], empreinte |-> enMain[r]])
  /\ UNCHANGED <<codes, index, acceptes, revoquees, amorcages, pannes>>

\* DELETE .../cle: the key the machine holds here, by its name.
Revoquer(r) ==
  /\ Libre(r)
  /\ cle[r] # SansCle
  /\ Cardinality(UNION {revoquees[s] : s \in Racine}) < RevocationsMax
  /\ cle'       = [cle       EXCEPT ![r] = SansCle]
  /\ revoquees' = [revoquees EXCEPT ![r] = @ \cup {cle[r].liaison}]
  /\ Journaliser(r, [quoi |-> "cle-machine-revoquee", estampille |-> Suivante(r),
                     cle |-> cle[r].liaison])
  /\ UNCHANGED <<codes, index, enMain, acceptes, amorcages, pannes>>

\* A code is ten minutes old: the sweep of the loop, or its refusal when it is
\* presented, removes it from both tables.  Each root looks at its own clock.
Expirer(r) ==
  /\ Libre(r)
  /\ \E c \in codes[r] : codes' = [codes EXCEPT ![r] = @ \ {c}]
  /\ index' = [index EXCEPT ![r] = Aucune]
  /\ UNCHANGED <<compteur, cle, enMain, enRoute, acceptes, revoquees, amorcages, pannes>>

-----------------------------------------------------------------------------
(* What comes from the peer, applied by the puller's task.                 *)

\* The previous code leaves unless it is at least as recent.
AppliquerEnrolement(r, c) ==
  IF index[r] # Aucune /\ index[r] \in codes[r] /\ ~Avant(index[r], c)
    THEN UNCHANGED <<codes, index>>
    ELSE /\ codes' = [codes EXCEPT ![r] = (@ \ {index[r]}) \cup {c}]
         /\ index' = [index EXCEPT ![r] = c]

\* The key of the most recent code, and of the first consumption of it.
Gagne(tenue, candidate) ==
  \/ tenue = SansCle
  \/ Avant(tenue.code, candidate.code)
  \/ tenue.code = candidate.code /\ Avant(candidate.liaison, tenue.liaison)

\* The code leaves with the binding that consumed it, and the key of the code
\* issued last is kept.
AppliquerCleMachine(r, operation) ==
  LET candidate == [liaison |-> operation.estampille, code |-> operation.code] IN
  /\ codes' = [codes EXCEPT ![r] = @ \ {operation.empreinte}]
  /\ index' = [index EXCEPT ![r] =
                 IF operation.empreinte \in codes[r] /\ @ = operation.empreinte
                   THEN Aucune ELSE @]
  /\ cle'   = [cle EXCEPT ![r] = IF Gagne(@, candidate) THEN candidate ELSE @]

\* A revocation names its key, and leaves any other alone.
AppliquerCleRevoquee(r, quelle) ==
  /\ cle'       = [cle       EXCEPT ![r] = IF @.liaison = quelle THEN SansCle ELSE @]
  /\ revoquees' = [revoquees EXCEPT ![r] = @ \cup {quelle}]

\* The next operation of the peer, in one transaction with the clock.
Recevoir(r) ==
  /\ enRoute[r] # <<>>
  /\ enRoute' = [enRoute EXCEPT ![r] = Tail(@)]
  /\ LET operation == Head(enRoute[r]) IN
       /\ compteur' = [compteur EXCEPT ![r] =
                         IF @ >= operation.estampille.compteur THEN @
                                                               ELSE operation.estampille.compteur]
       /\ \/ /\ operation.quoi = "enrolement"
             /\ AppliquerEnrolement(r, operation.estampille)
             /\ UNCHANGED <<cle, revoquees>>
          \/ /\ operation.quoi = "cle-machine"
             /\ AppliquerCleMachine(r, operation)
             /\ UNCHANGED revoquees
          \/ /\ operation.quoi = "cle-machine-revoquee"
             /\ AppliquerCleRevoquee(r, operation.cle)
             /\ UNCHANGED <<codes, index>>
          \/ /\ operation.quoi = "fin"
             /\ UNCHANGED <<codes, index, cle, revoquees>>
  /\ UNCHANGED <<enMain, acceptes, amorcages, pannes>>

\* What a snapshot of q carries of this machine: its key, without the code that
\* bound it, then its codes, then the end frame.
Instantane(q) ==
  (IF cle[q] = SansCle THEN <<>>
     ELSE <<[quoi |-> "cle-machine", estampille |-> cle[q].liaison,
             code |-> cle[q].code, empreinte |-> Aucune]>>)
  \o (IF codes[q] = {} THEN <<>>
        ELSE <<[quoi |-> "enrolement", estampille |-> CHOOSE c \in codes[q] : TRUE]>>)
  \o <<[quoi |-> "fin", estampille |-> [compteur |-> compteur[q], racine |-> q]]>>

\* The journal of the peer no longer reaches back to what r had still to apply:
\* a snapshot takes its place.
Amorcer(r) ==
  /\ amorcages < AmorcagesMax
  /\ enRoute[r] # <<>>
  /\ amorcages' = amorcages + 1
  /\ enRoute'   = [enRoute EXCEPT ![r] = Instantane(Pair[r])]
  /\ UNCHANGED <<compteur, codes, index, cle, enMain, acceptes, revoquees, pannes>>

\* Root r restarts: a code consumed and not bound is lost here, and here only.
Redemarrer(r) ==
  /\ pannes < PannesMax
  /\ pannes' = pannes + 1
  /\ enMain' = [enMain EXCEPT ![r] = Aucune]
  /\ UNCHANGED <<compteur, codes, index, cle, enRoute, acceptes, revoquees, amorcages>>

-----------------------------------------------------------------------------
Next ==
  \E r \in Racine :
    \/ Emettre(r) \/ Consommer(r) \/ Lier(r) \/ Revoquer(r) \/ Expirer(r)
    \/ Recevoir(r) \/ Amorcer(r) \/ Redemarrer(r)

Spec == Init /\ [][Next]_vars

-----------------------------------------------------------------------------
(* Properties.                                                             *)

\* Everything written on either root has been applied on the other one.
ToutRecu == \A r \in Racine : enRoute[r] = <<>> /\ enMain[r] = Aucune

\* The table of codes and its index by machine say the same thing, whoever
\* removed or replaced the code last (emission, consumption, sweep, peer).
IndexJuste ==
  \A r \in Racine : codes[r] = IF index[r] = Aucune THEN {} ELSE {index[r]}

\* A code opens a machine at most once on a given root: a copy of it never comes
\* back from the peer (replication.md 3.2, what is irreversible at home is
\* irreversible everywhere).
CodeUneFois ==
  \A r \in Racine : \A i, j \in DOMAIN acceptes[r] :
    i # j => acceptes[r][i] # acceptes[r][j]

\* A root that has revoked a key, or learnt of its revocation, never holds it
\* again.
RevoqueeTenue ==
  \A r \in Racine : cle[r] # SansCle => cle[r].liaison \notin revoquees[r]

\* What makes the two properties below inductive.  What comes from the peer was
\* stamped by it, in the order of its clock; a revocation names a key already
\* bound; whatever r holds or knows to be revoked is below what still comes.
EnvoisDe(r) ==
  \A i \in DOMAIN enRoute[r] : LET e == enRoute[r][i].estampille IN
    /\ enRoute[r][i].quoi # "fin"
    /\ e.racine = Pair[r] /\ 0 < e.compteur /\ e.compteur <= compteur[Pair[r]]

OrdreDe(r) ==
  \A i, j \in DOMAIN enRoute[r] :
    i < j => enRoute[r][i].estampille.compteur < enRoute[r][j].estampille.compteur

NommeesDe(r) ==
  \A i \in DOMAIN enRoute[r] : enRoute[r][i].quoi = "cle-machine-revoquee" =>
    LET k == enRoute[r][i].cle IN
    /\ k.racine = Pair[r] => k.compteur < enRoute[r][i].estampille.compteur
    /\ k.racine = r => k.compteur <= compteur[r]

Connues(r) == revoquees[r] \cup (IF cle[r] = SansCle THEN {} ELSE {cle[r].liaison})

ConnuesDe(r) ==
  \A k \in Connues(r) :
    /\ k.racine = r => k.compteur <= compteur[r]
    /\ k.racine = Pair[r] =>
         /\ k.compteur <= compteur[Pair[r]]
         /\ \A i \in DOMAIN enRoute[r] : k.compteur < enRoute[r][i].estampille.compteur

TenueDe(r) == cle[r] # SansCle => cle[r].liaison \notin revoquees[r]

SuiteDe(r) == EnvoisDe(r) /\ OrdreDe(r) /\ NommeesDe(r) /\ ConnuesDe(r) /\ TenueDe(r)

Suite == amorcages = 0 => \A r \in Racine : SuiteDe(r)

\* Both hold as long as the roots hear from each other by their journals: the
\* order of the journal, the sweep, the replacement of codes and the restarts do
\* not break them.  The snapshot does (README, Divergences).
CodeUneFoisParLaSuite   == amorcages = 0 => CodeUneFois
RevoqueeTenueParLaSuite == amorcages = 0 => RevoqueeTenue

\* The same code consumed on both sides: once all is applied, the two roots
\* that hold a key of that code hold the same one, the first bound
\* (replication.md 3.2).  The code does not ensure it: a binding of the peer
\* applied between the two transactions of enroler is overwritten.
UneCleParCode ==
  ToutRecu => \A r, s \in Racine :
    cle[r] # SansCle /\ cle[s] # SansCle /\ cle[r].code = cle[s].code => cle[r] = cle[s]

\* Two codes issued for the same machine: the most recent wins, the other dies
\* (replication.md 3.2), so that a root consumes them in their order.  The code
\* does not ensure it: an older code that arrives after the most recent was
\* consumed finds no code to yield to, and is alive again.
CodesDansLOrdre ==
  \A r \in Racine : \A i, j \in DOMAIN acceptes[r] :
    i < j => ~Avant(acceptes[r][j], acceptes[r][i])
=============================================================================
