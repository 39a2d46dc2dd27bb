------------------------------ MODULE Annonces ------------------------------
(***************************************************************************)
(* The live announcements of one annuaire (asl-annuaire, vivier.rs) and    *)
(* the probes launched for them (h3.rs, sonde.rs).  Nothing of it is on    *)
(* disk: an announcement lives as long as the connection that made it, or  *)
(* as long as its lease is renewed by any datagram of that connection.     *)
(*                                                                         *)
(* One loop serves everything, in turns: the verdicts of the channel, then *)
(* what has expired, then the renamings of the puller, then one datagram,  *)
(* then the connections that ended.  The probes are tasks on other         *)
(* threads: each measures, takes the date, and sends its report later.     *)
(*                                                                         *)
(* Time is relative: `silence` is the time since the last sign of life and *)
(* `age` the time since a verdict was dated, so that the code's comparison *)
(* of two instants is one of these two.  All points are TCP: a point that  *)
(* is not probed never changes, and the echo of asl-echo is left out.      *)
(*                                                                         *)
(* A daemon is known by its name; Service holds the identifiers this name  *)
(* has had, on this annuaire and on its peer, and the store keeps Gagnant. *)
(***************************************************************************)
EXTENDS Naturals, Sequences, FiniteSets

CONSTANTS
  Service,      \* the identifiers under which the daemon may be announced
  Gagnant,      \* the one replication keeps
  Point,        \* the points (port) a daemon may listen on
  Connexion,    \* the connections that may be opened
  EnVolMax,     \* EN_VOL_MAX: how many probes may be in flight
  Bail,         \* the lease: how long a silence may last
  RetardMax,    \* bound: how long a dated verdict may wait to be read
  AnnoncesMax   \* bound: how many announcements are made

ASSUME AnnoncesAssumption ==
  /\ Gagnant \in Service
  /\ IsFiniteSet(Point)
  /\ {EnVolMax, Bail, RetardMax, AnnoncesMax} \subseteq Nat

\* Above this a silence is not counted: the lease is over, whatever is read.
SilenceMax == Bail + RetardMax + 1

EnCours == [issue |-> "en_cours", par |-> 0]
Verdict == [issue : {"en_cours", "joignable", "injoignable"}, par : Nat]

\* A Session and its connection.  numero tells the announcements apart, and a
\* verdict carries the number of the one it was measured for: the code has
\* neither, its verdicts name a service and a point only.
UneAnnonce(a) ==
  /\ DOMAIN a.verdicts \subseteq Point
  /\ a \in [numero : Nat, connexion : Connexion, silence : Nat,
            verdicts : [DOMAIN a.verdicts -> Verdict]]

\* What a probe was launched for.
Mesure == [service : Service, point : Point, numero : Nat]

VARIABLES
  annonces,    \* Vivier.annonces, by service
  sondes,      \* the probes in flight: what each is for, and how far it is
  rapports,    \* the channel of verdicts
  enVol,       \* Annuaire.en_vol
  ouvertes,    \* the connections that are not closed
  muettes,     \* those of them whose daemon is gone without a word
  tenu,        \* the identifier the store holds for the daemon's name
  consignes,   \* the identifiers whose session is to be renamed
  tour,        \* where the loop is in its turn
  numero       \* how many announcements have been made

vars == <<annonces, sondes, rapports, enVol, ouvertes, muettes, tenu, consignes,
          tour, numero>>

EtatDeSonde == [issue : {"en_cours", "joignable", "injoignable"}, age : Nat]
Rapport     == [mesure : Mesure, issue : {"joignable", "injoignable"}, age : Nat]

\* Types: the loop, its vivier and its tasks only hold what the code can hold; an
\* order to rename never names the identifier that is kept.
TypeOK ==
  /\ DOMAIN annonces \subseteq Service
  /\ \A s \in DOMAIN annonces : UneAnnonce(annonces[s])
  /\ DOMAIN sondes \subseteq Mesure
  /\ sondes    \in [DOMAIN sondes -> EtatDeSonde]
  /\ rapports  \in Seq(Rapport)
  /\ enVol     \in Nat
  /\ ouvertes  \subseteq Connexion
  /\ muettes   \subseteq ouvertes
  /\ tenu      \in Service
  /\ consignes \subseteq Service \ {Gagnant}
  /\ tour      \in {"verdicts", "consignes", "lecture", "menage"}
  /\ numero    \in Nat

Init ==
  /\ annonces  = [s \in {} |-> EnCours]
  /\ sondes    = [m \in {} |-> EnCours]
  /\ rapports  = <<>>
  /\ enVol     = 0
  /\ ouvertes  = Connexion
  /\ muettes   = {}
  /\ tenu      \in Service
  /\ consignes = {}
  /\ tour      = "verdicts"
  /\ numero    = 0

-----------------------------------------------------------------------------
(* The session (asl-annuaire).                                             *)

Expiree(silence) == silence > Bail

\* avancer: may an event dated `age` ago move a session whose last sign is
\* `silence` ago - the date does not go back, and was not after the lease.
Avance(silence, age) == age <= silence /\ ~Expiree(silence - age)

\* Mutant of Rafraichies: a datagram is a sign of life of everyone.
ToutesRafraichies(c) ==
  [s \in DOMAIN annonces |->
     IF Avance(annonces[s].silence, 0) THEN [annonces[s] EXCEPT !.silence = 0]
                                       ELSE annonces[s]]

\* The vivier after a sign of life of connection c.
Rafraichies(c) ==
  [s \in DOMAIN annonces |->
     IF annonces[s].connexion = c /\ Avance(annonces[s].silence, 0)
       THEN [annonces[s] EXCEPT !.silence = 0]
       ELSE annonces[s]]

\* verdict_de_sonde: session a once report r is applied to it.
Jugee(a, r) ==
  [a EXCEPT !.silence = r.age,
            !.verdicts = [q \in DOMAIN a.verdicts |->
              IF q = r.mesure.point THEN [issue |-> r.issue, par |-> r.mesure.numero]
                                    ELSE a.verdicts[q]]]

\* The vivier without the announcements of S.
Sans(S) == [s \in DOMAIN annonces \ S |-> annonces[s]]

-----------------------------------------------------------------------------
(* The turn of the loop.                                                   *)

\* Mutant of AppliquerUnVerdict: the slot of a probe whose service is gone is
\* not given back.
AppliquerSansRendre ==
  /\ tour = "verdicts"
  /\ rapports # <<>>
  /\ rapports' = Tail(rapports)
  /\ LET r == Head(rapports)
         s == r.mesure.service
     IN  IF s \in DOMAIN annonces /\ Avance(annonces[s].silence, r.age)
           THEN /\ annonces' = [annonces EXCEPT ![s] = Jugee(@, r)]
                /\ enVol' = IF enVol = 0 THEN 0 ELSE enVol - 1
           ELSE UNCHANGED <<annonces, enVol>>
  /\ UNCHANGED <<sondes, ouvertes, muettes, tenu, consignes, tour, numero>>

\* The next report of the channel: its slot is given back, and its verdict goes
\* to whoever is announced under this service, if its date is accepted.
AppliquerUnVerdict ==
  /\ tour = "verdicts"
  /\ rapports # <<>>
  /\ rapports' = Tail(rapports)
  /\ enVol'    = IF enVol = 0 THEN 0 ELSE enVol - 1
  /\ LET r == Head(rapports)
         s == r.mesure.service
     IN  annonces' =
           IF s \in DOMAIN annonces /\ Avance(annonces[s].silence, r.age)
             THEN [annonces EXCEPT ![s] = Jugee(@, r)]
             ELSE annonces
  /\ UNCHANGED <<sondes, ouvertes, muettes, tenu, consignes, tour, numero>>

\* The channel is empty: what has expired is forgotten.
OublierLesExpirees ==
  /\ tour = "verdicts"
  /\ rapports = <<>>
  /\ annonces' = Sans({s \in DOMAIN annonces : Expiree(annonces[s].silence)})
  /\ tour'     = "consignes"
  /\ UNCHANGED <<sondes, rapports, enVol, ouvertes, muettes, tenu, consignes, numero>>

\* Mutant of Renommer: the session of the loser takes the place of a live one.
RenommerToujours ==
  /\ tour = "consignes"
  /\ \E perdant \in consignes :
       /\ consignes' = consignes \ {perdant}
       /\ annonces' =
            IF perdant \in DOMAIN annonces
              THEN [s \in (DOMAIN annonces \ {perdant}) \cup {Gagnant} |->
                      IF s = Gagnant THEN annonces[perdant] ELSE annonces[s]]
              ELSE annonces
  /\ UNCHANGED <<sondes, rapports, enVol, ouvertes, muettes, tenu, tour, numero>>

\* The session of a loser moves under the winner, unless one lives there.
Renommer ==
  /\ tour = "consignes"
  /\ \E perdant \in consignes :
       /\ consignes' = consignes \ {perdant}
       /\ annonces' =
            IF Gagnant \notin DOMAIN annonces /\ perdant \in DOMAIN annonces
              THEN [s \in (DOMAIN annonces \ {perdant}) \cup {Gagnant} |->
                      IF s = Gagnant THEN annonces[perdant] ELSE annonces[s]]
              ELSE annonces
  /\ UNCHANGED <<sondes, rapports, enVol, ouvertes, muettes, tenu, tour, numero>>

FinirAuTour ==
  /\ tour = "consignes"
  /\ consignes = {}
  /\ tour' = "lecture"
  /\ UNCHANGED <<annonces, sondes, rapports, enVol, ouvertes, muettes, tenu, consignes, numero>>

\* A datagram of c is a sign of life, whatever it carries.
Recevoir(c) ==
  /\ tour = "lecture"
  /\ c \in ouvertes \ muettes
  /\ annonces' = Rafraichies(c)
  /\ tour'     = "menage"
  /\ UNCHANGED <<sondes, rapports, enVol, ouvertes, muettes, tenu, consignes, numero>>

\* How many probes may still leave.
Place == IF enVol >= EnVolMax THEN 0 ELSE EnVolMax - enVol

\* Mutant of ALancer: the bound is not looked at.
ALancerSansBorne(M) == {M}

\* Which of the probes of M leave: as many as there is room for, the first
\* points of the announcement first.
ALancer(M) ==
  {L \in SUBSET M :
     Cardinality(L) = IF Cardinality(M) <= Place THEN Cardinality(M) ELSE Place}

\* The probes the n-th announcement calls for, one per point of it.
Mesures(P, n) == {[service |-> tenu, point |-> p, numero |-> n] : p \in P}

\* POST /v1/annonces on connection c: the probes leave, and the announcement
\* replaces the one its service had, whoever made it.
Annoncer(c) ==
  /\ tour = "lecture"
  /\ c \in ouvertes \ muettes
  /\ numero < AnnoncesMax
  /\ numero' = numero + 1
  /\ \E P \in SUBSET Point \ {{}} :
       /\ LET suivies == Rafraichies(c)
              neuve   == [numero |-> numero + 1, connexion |-> c, silence |-> 0,
                          verdicts |-> [p \in P |-> EnCours]]
          IN  annonces' = [s \in DOMAIN annonces \cup {tenu} |->
                             IF s = tenu THEN neuve ELSE suivies[s]]
       /\ \E lancees \in ALancer(Mesures(P, numero + 1)) :
            /\ sondes' = [m \in DOMAIN sondes \cup lancees |->
                            IF m \in lancees THEN [issue |-> "en_cours", age |-> 0]
                                             ELSE sondes[m]]
            /\ enVol' = enVol + Cardinality(lancees)
  /\ tour' = "menage"
  /\ UNCHANGED <<rapports, ouvertes, muettes, tenu, consignes>>

\* Nothing was read: a timer or a task woke the loop up.
NeRienLire ==
  /\ tour = "lecture"
  /\ tour' = "menage"
  /\ UNCHANGED <<annonces, sondes, rapports, enVol, ouvertes, muettes, tenu, consignes, numero>>

\* Mutant of Fermer: only what is announced under the identifier of the day
\* leaves.
FermerLeSien(c) ==
  /\ tour = "menage"
  /\ c \in ouvertes
  /\ ouvertes' = ouvertes \ {c}
  /\ muettes'  = muettes \ {c}
  /\ annonces' = Sans({s \in DOMAIN annonces : s = tenu /\ annonces[s].connexion = c})
  /\ UNCHANGED <<sondes, rapports, enVol, tenu, consignes, tour, numero>>

\* A connection ended, closed by one side or idle for too long: all it had
\* announced and nobody has announced since leaves with it.
Fermer(c) ==
  /\ tour = "menage"
  /\ c \in ouvertes
  /\ ouvertes' = ouvertes \ {c}
  /\ muettes'  = muettes \ {c}
  /\ annonces' = Sans({s \in DOMAIN annonces : annonces[s].connexion = c})
  /\ UNCHANGED <<sondes, rapports, enVol, tenu, consignes, tour, numero>>

RecommencerUnTour ==
  /\ tour = "menage"
  /\ tour' = "verdicts"
  /\ UNCHANGED <<annonces, sondes, rapports, enVol, ouvertes, muettes, tenu, consignes, numero>>

-----------------------------------------------------------------------------
(* The tasks beside the loop.                                              *)

\* The probe ends: it connected, or three seconds passed; its verdict is dated.
Dater(m) ==
  /\ m \in DOMAIN sondes
  /\ sondes[m].issue = "en_cours"
  /\ \E issue \in {"joignable", "injoignable"} :
       sondes' = [sondes EXCEPT ![m] = [issue |-> issue, age |-> 0]]
  /\ UNCHANGED <<annonces, rapports, enVol, ouvertes, muettes, tenu, consignes, tour, numero>>

\* Its report goes to the channel, and the task is over.
Rapporter(m) ==
  /\ m \in DOMAIN sondes
  /\ sondes[m].issue # "en_cours"
  /\ rapports' = Append(rapports, [mesure |-> m, issue |-> sondes[m].issue,
                                   age |-> sondes[m].age])
  /\ sondes'   = [n \in DOMAIN sondes \ {m} |-> sondes[n]]
  /\ UNCHANGED <<annonces, enVol, ouvertes, muettes, tenu, consignes, tour, numero>>

\* Mutant of Fusionner: the identifier that is kept is renamed too.
FusionnerEncore ==
  /\ tenu'      = Gagnant
  /\ consignes' = consignes \cup {tenu}
  /\ UNCHANGED <<annonces, sondes, rapports, enVol, ouvertes, muettes, tour, numero>>

\* Replication has kept another identifier for the name: the store has it from
\* the commit on, the loop is told to rename.
Fusionner ==
  /\ tenu # Gagnant
  /\ tenu'      = Gagnant
  /\ consignes' = consignes \cup {tenu}
  /\ UNCHANGED <<annonces, sondes, rapports, enVol, ouvertes, muettes, tour, numero>>

\* The daemon of c is gone without closing: no datagram will come.
SeTaire(c) ==
  /\ c \in ouvertes \ muettes
  /\ muettes' = muettes \cup {c}
  /\ UNCHANGED <<annonces, sondes, rapports, enVol, ouvertes, tenu, consignes, tour, numero>>

Vieillir(n) == IF n >= SilenceMax THEN SilenceMax ELSE n + 1

\* Time passes.
Passer ==
  /\ \A m \in DOMAIN sondes : sondes[m].age < RetardMax
  /\ \A i \in DOMAIN rapports : rapports[i].age < RetardMax
  /\ annonces' = [s \in DOMAIN annonces |->
                    [annonces[s] EXCEPT !.silence = Vieillir(@)]]
  /\ sondes'   = [m \in DOMAIN sondes |->
                    IF sondes[m].issue = "en_cours" THEN sondes[m]
                                                    ELSE [sondes[m] EXCEPT !.age = @ + 1]]
  /\ rapports' = [i \in DOMAIN rapports |-> [rapports[i] EXCEPT !.age = @ + 1]]
  /\ UNCHANGED <<enVol, ouvertes, muettes, tenu, consignes, tour, numero>>

-----------------------------------------------------------------------------
Boucle ==
  \/ AppliquerUnVerdict \/ OublierLesExpirees \/ Renommer \/ FinirAuTour
  \/ NeRienLire \/ RecommencerUnTour
  \/ \E c \in Connexion : Recevoir(c) \/ Annoncer(c) \/ Fermer(c)

Sonder == \E m \in DOMAIN sondes : Dater(m) \/ Rapporter(m)

Next ==
  \/ Boucle
  \/ Sonder
  \/ Fusionner
  \/ \E c \in Connexion : SeTaire(c)
  \/ Passer

Spec == Init /\ [][Next]_vars

\* The loop never stops, a probe ends within three seconds (ATTENTE) and then
\* sends, and time passes.  Nobody has to announce, to speak or to close.
Equite ==
  /\ WF_vars(Boucle)
  /\ WF_vars(Sonder)
  /\ WF_vars(Passer)

SpecEquitable == Spec /\ Equite

-----------------------------------------------------------------------------
(* Properties.                                                             *)

\* The counter of probes in flight is exact - the probes and the reports that
\* are not read yet - whatever became of the announcement each was for, and it
\* never exceeds EN_VOL_MAX: a slot lost for each service that left would end
\* with no probe at all.
EnVolJuste ==
  /\ enVol = Cardinality(DOMAIN sondes) + Len(rapports)
  /\ enVol <= EnVolMax

\* An announcement belongs to a connection that is still open (vivier.rs: "c'est
\* ici que le bail tombe"), across replacements, renamings and late verdicts.
AnnonceTenue == \A s \in DOMAIN annonces : annonces[s].connexion \in ouvertes

\* An announcement disappears only with its own connection, with its lease, or
\* for a later one: the end of the connection a daemon had before does not take
\* the announcement it has made since, nor does a renaming.
RienNeDisparait ==
  [][\A s \in DOMAIN annonces :
       \/ \E t \in DOMAIN annonces' : annonces'[t].numero = annonces[s].numero
       \/ annonces[s].connexion \notin ouvertes'
       \/ Expiree(annonces[s].silence)
       \/ \E t \in DOMAIN annonces' : annonces'[t].numero > annonces[s].numero]_vars

\* Slots come back: the bound of probes is never reached for good.
EnVolRetombe == []<>(enVol < EnVolMax)

\* A daemon that is gone without a word is forgotten, even if the verdicts of
\* its probes still arrive, each as late as it can, and count as a sign of life.
MuetOublie ==
  \A c \in Connexion :
    c \in muettes ~> \A s \in DOMAIN annonces : annonces[s].connexion # c

\* h3.rs (au_tour): "`appliquer` refuse un verdict tardif - le service peut être
\* parti, réannoncé, ou déjà mesuré autrement".  So a verdict an announcement
\* holds was measured for it.  The code does not look at that.
VerdictDeSonAnnonce ==
  \A s \in DOMAIN annonces : \A p \in DOMAIN annonces[s].verdicts :
    annonces[s].verdicts[p] # EnCours => annonces[s].verdicts[p].par = annonces[s].numero

\* asl-annuaire (Faute::TempsRecule): "Avec une horloge monotone, cela ne peut
\* pas arriver".  So no report finds a session whose last sign is later than its
\* date.  A datagram read between the date and the report makes it so, the
\* verdict is dropped and the point stays en_cours.
TempsJamaisRecule ==
  tour = "verdicts" /\ rapports # <<>> =>
    LET s == Head(rapports).mesure.service IN
    s \in DOMAIN annonces => Head(rapports).age <= annonces[s].silence
=============================================================================
