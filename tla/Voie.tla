-------------------------------- MODULE Voie --------------------------------
(***************************************************************************)
(* The path between two roots (asl-store/lib.rs, asl-loop-tokio/tireur.rs  *)
(* and h3.rs): Lamport stamps, each root's journal of its own writes and   *)
(* its thirty-day retention, the cursor, the operations stream cut in      *)
(* parts, and the snapshot when the journal no longer reaches back.        *)
(*                                                                         *)
(* Everything is written for a puller r and the root it pulls from,        *)
(* Pair[r]; both directions run at once.  A record is known by its stamp:  *)
(* here every operation inserts one record of its own, and the rules by    *)
(* which operations on one record are merged are the other modules'.       *)
(*                                                                         *)
(* A stream is FIFO.  The operations stream carries stamps in increasing   *)
(* order, so it is kept as a set read from its smallest stamp; the order   *)
(* of the records inside a snapshot is left open, its end frame is last.   *)
(***************************************************************************)
EXTENDS Naturals

CONSTANTS
  Racine,        \* the roots
  Pair,          \* Pair[r]: the other root of the pair r belongs to
  Tireurs,       \* the roots that pull from it (--peer is optional)
  PartMax,       \* frames a stream may carry before it is cut (PART_OCTETS_MAX)
  CompteurMax,   \* bound: no local write once the counter is there
  PannesMax      \* bound: cut connections, restarts and failed snapshot reads

ASSUME VoieAssumption ==
  /\ Pair \in [Racine -> Racine]
  /\ \A r \in Racine : Pair[r] # r /\ Pair[Pair[r]] = r
  /\ Tireurs \subseteq Racine
  /\ PartMax \in Nat \ {0}
  /\ CompteurMax \in Nat
  /\ PannesMax \in Nat

Estampille == [compteur : Nat, racine : Racine]

VARIABLES
  \* What a root's store keeps (asl-store), all written in one transaction.
  compteur,    \* CLEF_DU_COMPTEUR: the Lamport clock
  ecrit,       \* CLEF_DE_L_ECRIT: the last stamp this root wrote itself
  rangees,     \* the stamps of the records it holds
  operations,  \* OPERATIONS: the counters its own journal still carries
  retirees,    \* CLEF_DES_RETIREES: the journal starts above this
  curseur,     \* CURSEURS: how far it has applied its peer
  \* In memory: the counter of the last journaled operation.
  derniere,
  \* The session by which r pulls: where the puller stands, and the stream it
  \* reads (FluxPair and ParConnexion on the side of Pair[r]).
  phase,
  aVenir,      \* frames read from the store, not yet framed on the stream
  transit,     \* frames on the wire, not yet applied by r
  fin,         \* the end frame of a snapshot: not there, to come, or on the wire
  coupe,       \* what the end frame carries
  portes,      \* how much this stream has carried
  servi,       \* FluxPair.curseur: what the stream has been given so far
  vu,          \* FluxPair.vu_jusqu_a: derniere when the journal was last read
  clos,        \* the stream is finished on the side of Pair[r]
  lus,         \* the puller has read a frame of this stream (Lecture.cadres > 0)
  pannes       \* how many failures have happened

entrepot == <<compteur, ecrit, rangees, operations, retirees, curseur>>
flux     == <<aVenir, transit, fin, coupe, portes, servi, vu, clos, lus>>
vars     == <<entrepot, derniere, phase, flux, pannes>>

Phase == {"coupee", "ouverte", "operations", "amorcage", "preparation", "instantane"}

TypeOK ==
  /\ compteur   \in [Racine -> Nat]
  /\ ecrit      \in [Racine -> Nat]
  /\ rangees    \in [Racine -> SUBSET Estampille]
  /\ operations \in [Racine -> SUBSET Nat]
  /\ retirees   \in [Racine -> Nat]
  /\ curseur    \in [Racine -> Nat]
  /\ derniere   \in [Racine -> Nat]
  /\ phase      \in [Racine -> Phase]
  /\ aVenir     \in [Racine -> SUBSET Estampille]
  /\ transit    \in [Racine -> SUBSET Estampille]
  /\ fin        \in [Racine -> {"sans", "a venir", "en transit"}]
  /\ coupe      \in [Racine -> Nat]
  /\ portes     \in [Racine -> Nat]
  /\ servi      \in [Racine -> Nat]
  /\ vu         \in [Racine -> Nat]
  /\ clos       \in [Racine -> BOOLEAN]
  /\ lus        \in [Racine -> BOOLEAN]
  /\ pannes     \in Nat

LePlusHaut(a, b) == IF a >= b THEN a ELSE b

\* Mutant of Hisser: the counter is set without looking at what it was.
Poser(f, r, n) == [f EXCEPT ![r] = n]

\* A counter kept per root, raised to n if it is below.
Hisser(f, r, n) == [f EXCEPT ![r] = LePlusHaut(@, n)]

\* The stamps of S that root r issued itself.
Ecrites(r, S) == {e \in S : e.racine = r}

Init ==
  /\ compteur   = [r \in Racine |-> 0]
  /\ ecrit      = [r \in Racine |-> 0]
  /\ rangees    = [r \in Racine |-> {}]
  /\ operations = [r \in Racine |-> {}]
  /\ retirees   = [r \in Racine |-> 0]
  /\ curseur    = [r \in Racine |-> 0]
  /\ derniere   = [r \in Racine |-> 0]
  /\ phase      = [r \in Racine |-> "coupee"]
  /\ aVenir     = [r \in Racine |-> {}]
  /\ transit    = [r \in Racine |-> {}]
  /\ fin        = [r \in Racine |-> "sans"]
  /\ coupe      = [r \in Racine |-> 0]
  /\ portes     = [r \in Racine |-> 0]
  /\ servi      = [r \in Racine |-> 0]
  /\ vu         = [r \in Racine |-> 0]
  /\ clos       = [r \in Racine |-> FALSE]
  /\ lus        = [r \in Racine |-> FALSE]
  /\ pannes     = 0

-----------------------------------------------------------------------------
(* The store of one root.                                                  *)

\* Mutant of Ecrire: a write that forgets to raise what the root says it wrote.
EcrireSansEcrit(r) ==
  LET n == compteur[r] + 1 IN
  /\ compteur[r] < CompteurMax
  /\ compteur'   = [compteur   EXCEPT ![r] = n]
  /\ rangees'    = [rangees    EXCEPT ![r] = @ \cup {[compteur |-> n, racine |-> r]}]
  /\ operations' = [operations EXCEPT ![r] = @ \cup {n}]
  /\ UNCHANGED <<ecrit, retirees, curseur, derniere, phase, flux, pannes>>

\* A local write: stamp, record, journal entry and ecrit in one transaction.
Ecrire(r) ==
  LET n == compteur[r] + 1 IN
  /\ compteur[r] < CompteurMax
  /\ compteur'   = [compteur   EXCEPT ![r] = n]
  /\ ecrit'      = Hisser(ecrit, r, n)
  /\ rangees'    = [rangees    EXCEPT ![r] = @ \cup {[compteur |-> n, racine |-> r]}]
  /\ operations' = [operations EXCEPT ![r] = @ \cup {n}]
  /\ UNCHANGED <<retirees, curseur, derniere, phase, flux, pannes>>

\* Mutants of the two halves of operations_apres: the floor of the journal is
\* not looked at; the range starts at the cursor instead of above it.
JournalRemonteToujours(q, n) == TRUE
SuiteDepuis(q, n)            == {c \in operations[q] : c >= n}

\* operations_apres(n): does the journal of q reach back to n, and what it
\* carries above n.
JournalRemonte(q, n) == n >= retirees[q]
SuiteApres(q, n)     == {c \in operations[q] : c > n}

\* After the commit, and only then, the served streams are told.
Prevenir(r) ==
  \E e \in Ecrites(r, rangees[r]) :
    /\ derniere[r] < e.compteur
    /\ derniere' = [derniere EXCEPT ![r] = e.compteur]
    /\ UNCHANGED <<entrepot, phase, flux, pannes>>

\* Retention: what is older than thirty days leaves, a prefix of the journal.
Expirer(r) ==
  \E n \in operations[r] :
    /\ operations' = [operations EXCEPT ![r] = {c \in @ : c > n}]
    /\ retirees'   = Hisser(retirees, r, n)
    /\ UNCHANGED <<compteur, ecrit, rangees, curseur, derniere, phase, flux, pannes>>

-----------------------------------------------------------------------------
(* The session of the puller r.                                            *)

\* The streams read by the roots of S are given up, with all they still held.
SansFlux(S) ==
  /\ aVenir'  = [r \in Racine |-> IF r \in S THEN {} ELSE aVenir[r]]
  /\ transit' = [r \in Racine |-> IF r \in S THEN {} ELSE transit[r]]
  /\ fin'     = [r \in Racine |-> IF r \in S THEN "sans" ELSE fin[r]]
  /\ coupe'   = [r \in Racine |-> IF r \in S THEN 0 ELSE coupe[r]]
  /\ portes'  = [r \in Racine |-> IF r \in S THEN 0 ELSE portes[r]]
  /\ servi'   = [r \in Racine |-> IF r \in S THEN 0 ELSE servi[r]]
  /\ vu'      = [r \in Racine |-> IF r \in S THEN 0 ELSE vu[r]]
  /\ clos'    = [r \in Racine |-> IF r \in S THEN FALSE ELSE clos[r]]
  /\ lus'     = [r \in Racine |-> IF r \in S THEN FALSE ELSE lus[r]]

\* After its backoff the puller reconnects and both sides prove their key.
OuvrirLaSession(r) ==
  /\ r \in Tireurs
  /\ phase[r] = "coupee"
  /\ phase' = [phase EXCEPT ![r] = "ouverte"]
  /\ UNCHANGED <<entrepot, derniere, flux, pannes>>

\* GET /v1/pair/operations?apres=<curseur>: the journal reaches back.
OuvrirLesOperations(r) ==
  LET q      == Pair[r]
      suite  == SuiteApres(q, curseur[r])
  IN
  /\ phase[r] = "ouverte"
  /\ JournalRemonte(q, curseur[r])
  /\ phase'   = [phase   EXCEPT ![r] = "operations"]
  /\ aVenir'  = [aVenir  EXCEPT ![r] = {[compteur |-> c, racine |-> q] : c \in suite}]
  /\ \E dernier \in suite \cup {curseur[r]} :
       /\ \A c \in suite : c <= dernier
       /\ suite # {} => dernier \in suite
       /\ servi' = [servi EXCEPT ![r] = dernier]
  /\ vu'      = [vu      EXCEPT ![r] = derniere[q]]
  /\ transit' = [transit EXCEPT ![r] = {}]
  /\ fin'     = [fin     EXCEPT ![r] = "sans"]
  /\ coupe'   = [coupe   EXCEPT ![r] = 0]
  /\ portes'  = [portes  EXCEPT ![r] = 0]
  /\ clos'    = [clos    EXCEPT ![r] = FALSE]
  /\ lus'     = [lus     EXCEPT ![r] = FALSE]
  /\ UNCHANGED <<entrepot, derniere, pannes>>

\* The same request when the journal no longer reaches back: 410.
RepondreHorsJournal(r) ==
  /\ phase[r] = "ouverte"
  /\ ~JournalRemonte(Pair[r], curseur[r])
  /\ phase' = [phase EXCEPT ![r] = "amorcage"]
  /\ SansFlux({r})
  /\ UNCHANGED <<entrepot, derniere, pannes>>

\* Mutant of OuvrirLInstantane: the rest is not kept, every part starts over.
OuvrirLInstantaneEntier(r) ==
  /\ phase[r] = "amorcage"
  /\ phase'  = [phase  EXCEPT ![r] = "preparation"]
  /\ aVenir' = [aVenir EXCEPT ![r] = {}]
  /\ fin'    = [fin    EXCEPT ![r] = "sans"]
  /\ portes' = [portes EXCEPT ![r] = 0]
  /\ clos'   = [clos   EXCEPT ![r] = FALSE]
  /\ lus'    = [lus    EXCEPT ![r] = FALSE]
  /\ UNCHANGED <<entrepot, derniere, transit, coupe, servi, vu, pannes>>

\* GET /v1/pair/instantane: the rest the connection holds, or a fresh reading.
OuvrirLInstantane(r) ==
  /\ phase[r] = "amorcage"
  /\ phase'  = [phase  EXCEPT ![r] = IF fin[r] = "a venir" THEN "instantane"
                                                           ELSE "preparation"]
  /\ portes' = [portes EXCEPT ![r] = 0]
  /\ clos'   = [clos   EXCEPT ![r] = FALSE]
  /\ lus'    = [lus    EXCEPT ![r] = FALSE]
  /\ UNCHANGED <<entrepot, derniere, aVenir, transit, fin, coupe, servi, vu, pannes>>

\* Mutant of LireLInstantane: the snapshot is made of what the journal still
\* carries instead of the store.
LireLeJournal(r) ==
  /\ phase[r] = "preparation"
  /\ phase'  = [phase  EXCEPT ![r] = "instantane"]
  /\ aVenir' = [aVenir EXCEPT ![r] = {e \in rangees[Pair[r]] : e.compteur \in operations[Pair[r]]}]
  /\ fin'    = [fin    EXCEPT ![r] = "a venir"]
  /\ coupe'  = [coupe  EXCEPT ![r] = compteur[Pair[r]]]
  /\ UNCHANGED <<entrepot, derniere, transit, portes, servi, vu, clos, lus, pannes>>

\* The whole store is read in one transaction, off the loop: the records under
\* their original stamps, then the end frame with the counter of that reading.
LireLInstantane(r) ==
  /\ phase[r] = "preparation"
  /\ phase'  = [phase  EXCEPT ![r] = "instantane"]
  /\ aVenir' = [aVenir EXCEPT ![r] = rangees[Pair[r]]]
  /\ fin'    = [fin    EXCEPT ![r] = "a venir"]
  /\ coupe'  = [coupe  EXCEPT ![r] = compteur[Pair[r]]]
  /\ UNCHANGED <<entrepot, derniere, transit, portes, servi, vu, clos, lus, pannes>>

\* The reading fails: the stream is closed empty.
EchouerALire(r) ==
  /\ pannes < PannesMax
  /\ phase[r] = "preparation"
  /\ phase'  = [phase EXCEPT ![r] = "instantane"]
  /\ clos'   = [clos  EXCEPT ![r] = TRUE]
  /\ pannes' = pannes + 1
  /\ UNCHANGED <<entrepot, derniere, aVenir, transit, fin, coupe, portes, servi, vu, lus>>

-----------------------------------------------------------------------------
(* The stream, on the side of Pair[r].                                     *)

\* Mutant of EnTete: the frames of a stream leave and arrive in any order.
EnTeteDesordonnee(r, e, S) == e \in S

\* e is the next frame of the stream of r to go among S.
EnTete(r, e, S) ==
  /\ e \in S
  /\ phase[r] = "operations" => \A f \in S : e.compteur <= f.compteur

\* One more frame fits in the part and goes out.
Cadrer(r) ==
  /\ phase[r] \in {"operations", "instantane"}
  /\ ~clos[r]
  /\ portes[r] < PartMax
  /\ portes' = [portes EXCEPT ![r] = @ + 1]
  /\ \/ \E e \in aVenir[r] :
          /\ EnTete(r, e, aVenir[r])
          /\ aVenir'  = [aVenir  EXCEPT ![r] = @ \ {e}]
          /\ transit' = [transit EXCEPT ![r] = @ \cup {e}]
          /\ UNCHANGED fin
     \/ /\ aVenir[r] = {}
        /\ fin[r] = "a venir"
        /\ fin' = [fin EXCEPT ![r] = "en transit"]
        /\ UNCHANGED <<aVenir, transit>>
  /\ UNCHANGED <<entrepot, derniere, phase, coupe, servi, vu, clos, lus, pannes>>

\* The part is full, or the snapshot is out: the stream is finished.  What an
\* operations stream had not sent is dropped, what a snapshot had not is kept.
Clore(r) ==
  /\ phase[r] \in {"operations", "instantane"}
  /\ ~clos[r]
  /\ \/ portes[r] = PartMax /\ (aVenir[r] # {} \/ fin[r] = "a venir")
     \/ fin[r] = "en transit"
  /\ clos'   = [clos   EXCEPT ![r] = TRUE]
  /\ aVenir' = [aVenir EXCEPT ![r] = IF phase[r] = "operations" THEN {} ELSE @]
  /\ UNCHANGED <<entrepot, derniere, phase, transit, fin, coupe, portes, servi, vu, lus, pannes>>

\* A held operations stream with nothing left to send looks at the journal
\* when the last journaled operation has moved since it last looked.
SuivreLeJournal(r) ==
  LET q     == Pair[r]
      suite == SuiteApres(q, servi[r])
  IN
  /\ phase[r] = "operations"
  /\ ~clos[r]
  /\ aVenir[r] = {}
  /\ vu[r] < derniere[q]
  /\ \/ /\ JournalRemonte(q, servi[r])
        /\ vu'     = [vu     EXCEPT ![r] = derniere[q]]
        /\ aVenir' = [aVenir EXCEPT ![r] = {[compteur |-> c, racine |-> q] : c \in suite}]
        /\ \E dernier \in suite \cup {servi[r]} :
             /\ \A c \in suite : c <= dernier
             /\ suite # {} => dernier \in suite
             /\ servi' = [servi EXCEPT ![r] = dernier]
        /\ UNCHANGED clos
     \/ /\ ~JournalRemonte(q, servi[r])
        /\ clos' = [clos EXCEPT ![r] = TRUE]
        /\ UNCHANGED <<vu, aVenir, servi>>
  /\ UNCHANGED <<entrepot, derniere, phase, transit, fin, coupe, portes, lus, pannes>>

-----------------------------------------------------------------------------
(* What the puller does with what it reads: one transaction per batch, and *)
(* a batch may be a single frame.                                          *)

\* The two refusals of the operations stream: a replay of our own stamp, and a
\* counter that is not above the cursor.
Refusee(r, e) == e.racine = r \/ e.compteur <= curseur[r]

\* Mutants of Ranger: the stamp is stored without its root; the clock is not
\* raised on what is received.
RangerLeCompteur(r, e) ==
  /\ rangees'  = [rangees  EXCEPT ![r] = @ \cup {[compteur |-> e.compteur]}]
  /\ compteur' = Hisser(compteur, r, e.compteur)
  /\ ecrit'    = IF e.racine = r THEN Hisser(ecrit, r, e.compteur) ELSE ecrit
RangerSansHorloge(r, e) ==
  /\ rangees'  = [rangees  EXCEPT ![r] = @ \cup {e}]
  /\ compteur' = compteur
  /\ ecrit'    = IF e.racine = r THEN Hisser(ecrit, r, e.compteur) ELSE ecrit

\* The record and the clock; a stamp of ours coming back also counts as written.
Ranger(r, e) ==
  /\ rangees'  = [rangees  EXCEPT ![r] = @ \cup {e}]
  /\ compteur' = Hisser(compteur, r, e.compteur)
  /\ ecrit'    = IF e.racine = r THEN Hisser(ecrit, r, e.compteur) ELSE ecrit

\* A frame of the operations stream: apply, raise the clock, move the cursor,
\* all in one transaction.
AppliquerUneOperation(r) ==
  /\ phase[r] = "operations"
  /\ \E e \in transit[r] :
       /\ EnTete(r, e, transit[r])
       /\ transit' = [transit EXCEPT ![r] = @ \ {e}]
       /\ IF Refusee(r, e)
            THEN UNCHANGED <<rangees, compteur, ecrit, curseur>>
            ELSE /\ Ranger(r, e)
                 /\ curseur' = Hisser(curseur, r, e.compteur)
  /\ lus' = [lus EXCEPT ![r] = TRUE]
  /\ UNCHANGED <<operations, retirees, derniere, phase, aVenir, fin, coupe, portes,
                 servi, vu, clos, pannes>>

\* A frame of a snapshot: our own stamps and old ones included, the cursor waits.
AppliquerDeLInstantane(r) ==
  /\ phase[r] = "instantane"
  /\ \E e \in transit[r] :
       /\ transit' = [transit EXCEPT ![r] = @ \ {e}]
       /\ Ranger(r, e)
  /\ lus' = [lus EXCEPT ![r] = TRUE]
  /\ UNCHANGED <<operations, retirees, curseur, derniere, phase, aVenir, fin, coupe, portes,
                 servi, vu, clos, pannes>>

\* The end frame: the cursor goes to the cut, the clock above it, and the
\* puller asks for the operations that follow.
AppliquerLaFin(r) ==
  /\ phase[r] = "instantane"
  /\ transit[r] = {}
  /\ fin[r] = "en transit"
  /\ compteur' = Hisser(compteur, r, coupe[r])
  /\ curseur'  = Hisser(curseur, r, coupe[r])
  /\ phase'    = [phase    EXCEPT ![r] = "ouverte"]
  /\ SansFlux({r})
  /\ UNCHANGED <<ecrit, rangees, operations, retirees, derniere, pannes>>

\* A stream finished without an end frame: the next part is asked for, unless
\* it was empty - then the session is given up.
FinirLeFlux(r) ==
  /\ clos[r]
  /\ transit[r] = {}
  /\ fin[r] # "en transit"
  /\ \/ /\ ~lus[r]
        /\ phase' = [phase EXCEPT ![r] = "coupee"]
        /\ SansFlux({r})
     \/ /\ lus[r] /\ phase[r] = "operations"
        /\ phase' = [phase EXCEPT ![r] = "ouverte"]
        /\ SansFlux({r})
     \/ /\ lus[r] /\ phase[r] = "instantane"
        /\ phase' = [phase EXCEPT ![r] = "amorcage"]
        /\ clos'  = [clos  EXCEPT ![r] = FALSE]
        /\ UNCHANGED <<aVenir, transit, fin, coupe, portes, servi, vu, lus>>
  /\ UNCHANGED <<entrepot, derniere, pannes>>

-----------------------------------------------------------------------------
(* Failures.                                                               *)

\* The connection of r is lost, with the frames in flight and the rest of a
\* snapshot its peer held for it.
Couper(r) ==
  /\ pannes < PannesMax
  /\ phase[r] # "coupee"
  /\ pannes' = pannes + 1
  /\ phase'  = [phase EXCEPT ![r] = "coupee"]
  /\ SansFlux({r})
  /\ UNCHANGED <<entrepot, derniere>>

\* Root r stops and starts again: both connections fall, the store is kept,
\* and the in-memory counter starts from the clock.
Redemarrer(r) ==
  /\ pannes < PannesMax
  /\ pannes'   = pannes + 1
  /\ derniere' = [derniere EXCEPT ![r] = compteur[r]]
  /\ phase'    = [s \in Racine |-> IF s \in {r, Pair[r]} THEN "coupee" ELSE phase[s]]
  /\ SansFlux({r, Pair[r]})
  /\ UNCHANGED entrepot

-----------------------------------------------------------------------------
Magasin(r) == Ecrire(r) \/ Prevenir(r) \/ Expirer(r)

Tirer(r) ==
  \/ OuvrirLaSession(r) \/ OuvrirLesOperations(r) \/ RepondreHorsJournal(r)
  \/ OuvrirLInstantane(r) \/ LireLInstantane(r)
  \/ Cadrer(r) \/ Clore(r) \/ SuivreLeJournal(r)
  \/ AppliquerUneOperation(r) \/ AppliquerDeLInstantane(r)
  \/ AppliquerLaFin(r) \/ FinirLeFlux(r)

Panne(r) == Couper(r) \/ Redemarrer(r) \/ EchouerALire(r)

Next == \E r \in Racine : Magasin(r) \/ Tirer(r) \/ Panne(r)

Spec == Init /\ [][Next]_vars

\* The puller never stops retrying (tirer_sans_fin), the loop of the root that
\* is pulled from looks at its streams at every turn (au_tour), and a commit
\* is followed by its notice.  Nothing obliges anyone to write or to fail.
Equite ==
  /\ \A r \in Racine : WF_vars(Prevenir(r))
  /\ \A r \in Tireurs : WF_vars(Tirer(r))

SpecEquitable == Spec /\ Equite

-----------------------------------------------------------------------------
(* Properties.                                                             *)

\* The cursor never passes over anything: whatever the peer wrote itself at or
\* below the cursor is held here - across cut streams, retention running
\* under a held stream, snapshots in parts, restarts (replication.md 5.3).
SansTrou ==
  \A r \in Racine : \A e \in Ecrites(Pair[r], rangees[Pair[r]]) :
    e.compteur <= curseur[r] => e \in rangees[r]

\* What the operator concludes from GET /v1/replication (replication.md 8): if
\* the cursor has reached what the peer says it wrote, all of it is applied.
RienNeManque ==
  \A r \in Racine :
    curseur[r] >= ecrit[Pair[r]] => Ecrites(Pair[r], rangees[Pair[r]]) \subseteq rangees[r]

\* The Lamport clock: the next local stamp is above everything the root holds
\* and no other root holds or carries a stamp of its future, so that no stamp
\* is ever issued twice and a write is ordered after all it could have read.
HorlogeDevant ==
  \A r \in Racine :
    /\ \A e \in rangees[r] : e.compteur <= compteur[r]
    /\ \A s \in Racine : \A e \in rangees[s] \cup aVenir[s] \cup transit[s] :
          e.racine = r => e \in rangees[r] /\ e.compteur <= compteur[r]
    /\ curseur[Pair[r]] <= compteur[r]

\* The refusals of the operations stream never meet an honest peer whose store
\* was never lost: a refused frame would be dropped for good (only its refusal
\* is logged), so none may be in flight.
RienNEstRefuse ==
  \A r \in Racine :
    phase[r] = "operations" => \A e \in transit[r] \cup aVenir[r] : ~Refusee(r, e)

\* Neither the clock, nor the cursor, nor the floor of the journal, nor what
\* this root says it wrote ever moves back - a cursor that did would have
\* everything delivered again, a clock that did would reuse stamps.
RienNeRecule ==
  [][\A r \in Racine :
       /\ compteur'[r] >= compteur[r] /\ curseur'[r]  >= curseur[r]
       /\ ecrit'[r]    >= ecrit[r]    /\ retirees'[r] >= retirees[r]
       /\ rangees[r] \subseteq rangees'[r]]_vars

\* Every write reaches the root that pulls, whatever the part it is cut in, the
\* retention that overtakes the stream and the failures, once these stop.
ToutArrive ==
  \A r \in Tireurs : \A n \in 1..CompteurMax :
    LET e == [compteur |-> n, racine |-> Pair[r]]
    IN  e \in rangees[Pair[r]] ~> e \in rangees[r]

\* The abstract promise this module implements.
R == INSTANCE Rattrapage WITH Horloge <- 0..CompteurMax
Rattrape == R!Spec
=============================================================================
