------------------------------ MODULE Sessions ------------------------------
(***************************************************************************)
(* Who speaks on a connection: the challenge, the proof, and the closing of *)
(* the connections of whoever lost its key (asl-session/lib.rs, the loop of *)
(* quic.rs and its application in h3.rs, the puller of tireur.rs).          *)
(*                                                                         *)
(* A turn of the loop is: read the orders of closing and carry them out     *)
(* (AuTour), serve the requests that came, carry out the orders they gave   *)
(* but spare the connection just read (ApresLaLecture), send, and forget    *)
(* what is closed (OublierLesEteintes).  A request reads the store in one   *)
(* transaction and acts in a later one: the puller, another task, may       *)
(* commit between the two.                                                 *)
(*                                                                         *)
(* A key is a number, a signature is a key and the challenge it signs.      *)
(***************************************************************************)
EXTENDS Naturals

CONSTANTS
  Connexion,
  Appareil, Machine,
  Local,            \* the members of local directories
  LaRacine,         \* the other root
  Compte,
  Personne,         \* Option::None
  Depart,           \* the devices and machines of the first account
  PremierCompte,
  ClesMax,          \* bound: keys a machine is bound to, one after the other
  DefisMax,         \* bound: challenges drawn
  RetraitsMax       \* bound: requests and operations that withdraw something

ASSUME SessionsAssumption ==
  /\ PremierCompte \in Compte /\ Depart \subseteq Appareil \cup Machine
  /\ {ClesMax, DefisMax, RetraitsMax} \subseteq Nat /\ ClesMax > 0
  /\ Appareil \cap Machine = {} /\ Local \cap (Appareil \cup Machine) = {}
  /\ LaRacine \notin Appareil \cup Machine \cup Local
  /\ Personne \notin Appareil \cup Machine \cup Local \cup {LaRacine}
  /\ Personne \notin Compte /\ Personne \notin Connexion

Fermable  == Appareil \cup Machine
Annuaire  == Local \cup {LaRacine}
Identite  == Fermable \cup Annuaire
Cle       == 1..ClesMax
SansCle   == 0
ClesDe(x) == IF x \in Machine THEN Cle ELSE {1}

VARIABLES
  cle,           \* the key the store gives to check a proof of an identity
  connues,       \* history: the keys an identity was given, by identity
  clesRetirees,  \* history: those that were withdrawn with their holder
  proprietaire,  \* the account of a device, of a machine
  effaces,       \* the accounts that are erased
  retraits,      \* how many requests and operations have withdrawn something
  etat,          \* of each connection: none, open, closed and not forgotten yet
  session,       \* Session: the challenge, who is proved, and with which key
  tires,         \* how many challenges were drawn
  actes,         \* history: what each challenge was accepted for, and how often
  tour,          \* where the loop is in its turn
  lue,           \* lue_ce_tour
  demande,       \* the request being served, between its two transactions
  revoques,      \* Annuaire.revoques
  canal,         \* the orders of closing sent by the puller, not read yet
  enMain         \* those it has committed and not sent yet

magasin  == <<cle, connues, clesRetirees, proprietaire, effaces, retraits>>
boucle   == <<etat, session, tires, actes, tour, lue, demande, revoques, canal>>
varsSessions == <<magasin, boucle, enMain>>

Neuve == [defi |-> 0, pair |-> Personne, cle |-> SansCle, local |-> FALSE]
Repos == [quoi |-> "rien", connexion |-> Personne, qui |-> Personne,
          compte |-> Personne, cle |-> SansCle, defi |-> 0]

InitSessions ==
  /\ cle = [x \in Identite |-> IF x \in Depart \cup Annuaire THEN 1 ELSE SansCle]
  /\ connues  = [x \in Identite |-> IF x \in Depart \cup Annuaire THEN {1} ELSE {}]
  /\ clesRetirees = [x \in Identite |-> {}]
  /\ proprietaire = [x \in Fermable |-> IF x \in Depart THEN PremierCompte ELSE Personne]
  /\ effaces = {} /\ retraits = 0
  /\ etat    = [c \in Connexion |-> "absente"]
  /\ session = [c \in Connexion |-> Neuve]
  /\ tires = 0 /\ actes = [d \in 1..DefisMax |-> 0]
  /\ tour = "debut" /\ lue = Personne /\ demande = Repos
  /\ revoques = {} /\ canal = {} /\ enMain = {}

-----------------------------------------------------------------------------
(* The store.                                                              *)

\* A device or a machine gets its row, with a key or without one.
Creer(x, u, k) ==
  /\ proprietaire[x] = Personne /\ connues[x] = {}
  /\ cle'     = [cle     EXCEPT ![x] = k]
  /\ connues' = [connues EXCEPT ![x] = {1}]
  /\ proprietaire' = [proprietaire EXCEPT ![x] = u]
  /\ UNCHANGED <<clesRetirees, effaces, retraits>>

\* lier_cle, appliquer_cle_machine: a new key in the place of the one there was.
LierCle(x, k) ==
  /\ proprietaire[x] # Personne /\ k \notin connues[x]
  /\ cle'     = [cle     EXCEPT ![x] = k]
  /\ connues' = [connues EXCEPT ![x] = @ \cup {k}]
  /\ UNCHANGED <<clesRetirees, proprietaire, effaces, retraits>>

Retrait == retraits < RetraitsMax /\ retraits' = retraits + 1

\* Key k of an identity is withdrawn with its holder.
RetirerCle(x, k) ==
  /\ Retrait
  /\ cle'      = [cle      EXCEPT ![x] = IF @ = k THEN SansCle ELSE @]
  /\ clesRetirees' = [clesRetirees EXCEPT ![x] = @ \cup (connues[x] \cap {k})]
  /\ UNCHANGED <<connues, proprietaire, effaces>>

Possede(u) == {x \in Fermable : proprietaire[x] = u}

\* effacer_dans: what some accounts own goes with them, and every key it ever had.
Effacer(comptes) ==
  LET emportes == UNION {Possede(u) : u \in comptes} IN
  /\ effaces' = effaces \cup comptes
  /\ cle'      = [x \in Identite |-> IF x \in emportes THEN SansCle ELSE cle[x]]
  /\ clesRetirees' = [x \in Identite |-> IF x \in emportes THEN connues[x] ELSE clesRetirees[x]]
  /\ proprietaire' = [x \in Fermable |->
                        IF x \in emportes THEN Personne ELSE proprietaire[x]]
  /\ UNCHANGED connues

\* Accounts whose devices, at least one, are all revoked.
Orphelins ==
  {u \in Compte \ effaces :
     /\ Possede(u) \cap Appareil # {}
     /\ \A a \in Possede(u) \cap Appareil : 1 \in clesRetirees[a]}

-----------------------------------------------------------------------------
(* The connections.                                                        *)

EnLecture == tour = "lecture" /\ demande = Repos

\* A client arrives.
Ouvrir(c) ==
  /\ EnLecture /\ etat[c] = "absente"
  /\ etat' = [etat EXCEPT ![c] = "ouverte"]
  /\ UNCHANGED <<magasin, session, tires, actes, tour, lue, demande, revoques, canal, enMain>>

\* The client closes, or is silent for too long.
Tomber(c) ==
  /\ EnLecture /\ etat[c] = "ouverte"
  /\ etat' = [etat EXCEPT ![c] = "close"]
  /\ UNCHANGED <<magasin, session, tires, actes, tour, lue, demande, revoques, canal, enMain>>

Condamnes(quels, epargnee) ==
  {c \in Connexion :
     etat[c] = "ouverte" /\ session[c].pair \in quels /\ c # epargnee}

Fermer(quels, epargnee) ==
  etat' = [c \in Connexion |->
             IF c \in Condamnes(quels, epargnee) THEN "close" ELSE etat[c]]

\* The sweep of the orphans, the orders of the puller, then the closings.
AuTour ==
  /\ tour = "debut" /\ tour' = "lecture"
  /\ \E orphelins \in SUBSET Orphelins :
       /\ Effacer(orphelins)
       /\ UNCHANGED retraits
       /\ Fermer(revoques \cup canal \cup UNION {Possede(u) : u \in orphelins}, Personne)
  /\ canal' = {} /\ revoques' = {}
  /\ UNCHANGED <<session, tires, actes, lue, demande, enMain>>

\* Mutant of RevoquesGardes: what is spared is forgotten.
RevoquesOublies == {}

\* The identity of the connection that is spared, for the next turn.
RevoquesGardes == IF lue = Personne THEN {} ELSE revoques \cap {session[lue].pair}

\* The answer of the connection that was read leaves before it is closed.
ApresLaLecture ==
  /\ EnLecture /\ tour' = "oubli"
  /\ Fermer(revoques, lue)
  /\ revoques' = RevoquesGardes /\ lue' = Personne
  /\ UNCHANGED <<magasin, session, tires, actes, demande, canal, enMain>>

OublierLesEteintes ==
  /\ tour = "oubli" /\ tour' = "debut"
  /\ etat'    = [c \in Connexion |-> IF etat[c] = "close" THEN "absente" ELSE etat[c]]
  /\ session' = [c \in Connexion |-> IF etat[c] = "close" THEN Neuve ELSE session[c]]
  /\ UNCHANGED <<magasin, tires, actes, lue, demande, revoques, canal, enMain>>

-----------------------------------------------------------------------------
(* The requests.  A request leaves the turn where it is.                   *)

\* A request of c begins, ends, or does both.
Commence(c, d) ==
  /\ EnLecture /\ etat[c] = "ouverte"
  /\ lue' = c /\ demande' = d
  /\ UNCHANGED <<etat, tour, canal, enMain>>

Acheve(quoi) ==
  /\ demande.quoi = quoi
  /\ demande' = Repos
  /\ UNCHANGED <<etat, tires, tour, lue, canal, enMain>>

\* GET /v1/defi: a new challenge takes the place of the one there was.
TirerUnDefi(c) ==
  /\ Commence(c, Repos)
  /\ tires < DefisMax /\ tires' = tires + 1
  /\ session' = [session EXCEPT ![c].defi = tires + 1]
  /\ UNCHANGED <<magasin, actes, revoques>>

\* Mutant of Pris: the challenge stays when the proof is good.
PrisSurRefus(c, accorde) == IF accorde THEN session[c].defi ELSE 0

\* The challenge is taken whatever comes of it.
Pris(c, accorde) == 0

\* Mutant of Locale: what a connection was once, it remains.
LocaleToujours(c, qui) == session[c].local

\* The table a key was found in says what its holder may ask for.
Locale(c, qui) == qui \in Local

\* A challenge is answered: it counts if it is the one of the connection.
Compter(d, accorde) ==
  actes' = IF accorde THEN [actes EXCEPT ![d] = @ + 1] ELSE actes

Prouver(c, qui, k, d, accorde) ==
  /\ session' = [session EXCEPT ![c] =
       IF accorde THEN [defi |-> Pris(c, TRUE), pair |-> qui, cle |-> k,
                        local |-> Locale(c, qui)]
                  ELSE [@ EXCEPT !.defi = Pris(c, FALSE)]]
  /\ Compter(d, accorde)

\* What a signature is worth on a connection: it is of the challenge that is there
\* and of the key that was read, or it is worth nothing.
Signee(quoi, c, x, k, d) ==
  LET vaut == k # SansCle /\ d # 0 /\ d = session[c].defi IN
  [quoi |-> quoi, connexion |-> c, compte |-> Personne,
   qui  |-> IF vaut THEN x ELSE Personne,
   cle  |-> IF vaut THEN k ELSE SansCle,
   defi |-> IF vaut THEN d ELSE 0]

\* POST /v1/defi.  The key the store gives is read first: nothing for a device
\* that is revoked or still expected, for a machine without a key, for a
\* directory that is not accepted.
DemanderUnePreuve(c) ==
  \E x \in Identite, d \in 0..tires : \E k \in connues[x] :
    /\ Commence(c, Signee("preuve", c, x, IF cle[x] = k THEN k ELSE SansCle, d))
    /\ UNCHANGED <<magasin, session, tires, actes, revoques>>

Verifier ==
  LET c == demande.connexion IN
  /\ Acheve("preuve")
  /\ Prouver(c, demande.qui, demande.cle, demande.defi, demande.defi # 0)
  /\ UNCHANGED <<magasin, revoques>>

\* POST /v1/attestation, with a chain.  The row is read first.
DemanderUneAttestation(c) ==
  \E a \in Appareil, d \in 0..tires :
    /\ proprietaire[a] \notin effaces \cup {Personne}
    /\ Commence(c, Signee("attestation", c, a,
                           IF 1 \in clesRetirees[a] THEN SansCle ELSE 1, d))
    /\ UNCHANGED <<magasin, session, tires, actes, revoques>>

\* attester_appareil takes a device that was revoked meanwhile, not one whose row
\* is gone.  The flag `local` is left as it was.
Attester ==
  LET c == demande.connexion
      a == demande.qui
      accorde == a # Personne /\ proprietaire[a] # Personne
  IN
  /\ Acheve("attestation")
  /\ session' = [session EXCEPT ![c] =
       IF accorde THEN [@ EXCEPT !.defi = 0, !.pair = a, !.cle = 1]
                  ELSE [@ EXCEPT !.defi = 0]]
  /\ Compter(demande.defi, accorde)
  /\ cle' = IF accorde /\ 1 \notin clesRetirees[a] THEN [cle EXCEPT ![a] = 1] ELSE cle
  /\ UNCHANGED <<connues, clesRetirees, proprietaire, effaces, retraits, revoques>>

\* POST /v1/comptes: a new account, and the device that asks for it.
CreerCompte(c) ==
  \E a \in Appareil, u \in Compte \ effaces :
    /\ Possede(u) = {}
    /\ Commence(c, Repos)
    /\ session[c].defi # 0
    /\ Creer(a, u, 1)
    /\ session' = [session EXCEPT ![c] = [@ EXCEPT !.defi = 0, !.pair = a, !.cle = 1]]
    /\ Compter(session[c].defi, TRUE)
    /\ UNCHANGED <<tires, revoques>>

\* POST /v1/enrolement: the key is bound, the connection is not the machine's yet.
Enroler(c) ==
  \E m \in Machine : \E k \in Cle :
    /\ Commence(c, Repos)
    /\ session[c].defi # 0
    /\ LierCle(m, k)
    /\ session' = [session EXCEPT ![c].defi = 0]
    /\ Compter(session[c].defi, TRUE)
    /\ UNCHANGED <<tires, revoques>>

\* The other requests that sign a challenge, and those whose proof is refused.
ConsommerLeDefi(c) ==
  \E accorde \in BOOLEAN :
    /\ Commence(c, Repos)
    /\ session[c].defi # 0
    /\ session' = [session EXCEPT ![c].defi = 0]
    /\ Compter(session[c].defi, accorde)
    /\ UNCHANGED <<magasin, tires, revoques>>

\* compte_de_la_connexion: a device that is proved here and not revoked.
DemanderUneGestion(c) ==
  LET a == session[c].pair IN
  /\ a \in Appareil /\ proprietaire[a] # Personne /\ 1 \notin clesRetirees[a]
  /\ Commence(c, [quoi |-> "gestion", connexion |-> c, qui |-> a,
                  compte |-> proprietaire[a], cle |-> SansCle, defi |-> 0])
  /\ UNCHANGED <<magasin, session, tires, actes, revoques>>

AFermer(quels) == revoques' = revoques \cup quels

\* creer_appareil does not look at the account again.
CreerAppareil ==
  \E a \in Appareil, k \in {SansCle, 1} :
    /\ Acheve("gestion") /\ Creer(a, demande.compte, k)
    /\ UNCHANGED <<session, actes, revoques>>

RevoquerUnAppareil ==
  \E a \in Possede(demande.compte) \cap Appareil :
    /\ a # demande.qui
    /\ Acheve("gestion") /\ RetirerCle(a, 1) /\ AFermer({a})
    /\ UNCHANGED <<session, actes>>

RevoquerUneCle ==
  \E m \in Possede(demande.compte) \cap Machine :
    /\ Acheve("gestion") /\ RetirerCle(m, cle[m]) /\ AFermer({m})
    /\ UNCHANGED <<session, actes>>

\* A PATCH that takes the capacity to announce away.
ModifierUneMachine ==
  \E m \in Possede(demande.compte) \cap Machine :
    /\ Acheve("gestion") /\ Retrait /\ AFermer({m})
    /\ UNCHANGED <<cle, connues, clesRetirees, proprietaire, effaces, session, actes>>

EffacerMonCompte ==
  /\ demande.compte \notin effaces
  /\ Acheve("gestion") /\ Retrait
  /\ Effacer({demande.compte}) /\ AFermer(Possede(demande.compte))
  /\ UNCHANGED <<session, actes>>

\* DELETE of a member of a local directory.
RetirerUnAnnuaire ==
  \E l \in Local :
    /\ Acheve("gestion") /\ RetirerCle(l, 1)
    /\ UNCHANGED <<session, actes, revoques>>

\* The request only reads, or is refused.
Rendre == Acheve("gestion") /\ UNCHANGED <<magasin, session, actes, revoques>>

-----------------------------------------------------------------------------
(* The puller: it commits, then sends the orders of closing.  A batch of    *)
(* several operations is several of these steps.                           *)

Commettre(quels) ==
  /\ enMain' = enMain \cup quels
  /\ UNCHANGED boucle

AppliquerAppareilRevoque(a) ==
  proprietaire[a] # Personne /\ RetirerCle(a, 1) /\ Commettre({a})

\* Mutant of AppliquerCleRevoquee: only for the key the machine holds now.
AppliquerCleTenueRevoquee(m, k) ==
  /\ proprietaire[m] # Personne /\ k \in connues[m]
  /\ RetirerCle(m, k) /\ Commettre(IF cle[m] = k THEN {m} ELSE {})

AppliquerCleRevoquee(m, k) ==
  /\ proprietaire[m] # Personne /\ k \in connues[m]
  /\ RetirerCle(m, k) /\ Commettre({m})

AppliquerCleMachine(m, k) == LierCle(m, k) /\ Commettre({})

AppliquerMachineModifiee(m) ==
  /\ proprietaire[m] # Personne /\ Retrait /\ Commettre({m})
  /\ UNCHANGED <<cle, connues, clesRetirees, proprietaire, effaces>>

AppliquerCompteEfface(u) ==
  u \notin effaces /\ Retrait /\ Effacer({u}) /\ Commettre(Possede(u))

AppliquerAnnuaireRetire(l) == RetirerCle(l, 1) /\ Commettre({})

EnvoyerUnOrdre(x) ==
  /\ x \in enMain
  /\ canal' = canal \cup {x} /\ enMain' = enMain \ {x}
  /\ UNCHANGED <<magasin, etat, session, tires, actes, tour, lue, demande, revoques>>

-----------------------------------------------------------------------------
Requete(c) ==
  \/ TirerUnDefi(c) \/ DemanderUnePreuve(c) \/ DemanderUneAttestation(c)
  \/ CreerCompte(c) \/ Enroler(c) \/ ConsommerLeDefi(c) \/ DemanderUneGestion(c)

Repondre ==
  \/ Verifier \/ Attester \/ CreerAppareil \/ RevoquerUnAppareil \/ RevoquerUneCle
  \/ ModifierUneMachine \/ EffacerMonCompte \/ RetirerUnAnnuaire \/ Rendre

Avancer == AuTour \/ ApresLaLecture \/ OublierLesEteintes

Puiser ==
  \/ \E a \in Appareil : AppliquerAppareilRevoque(a)
  \/ \E m \in Machine : \E k \in Cle : AppliquerCleRevoquee(m, k) \/ AppliquerCleMachine(m, k)
  \/ \E m \in Machine : AppliquerMachineModifiee(m)
  \/ \E u \in Compte : AppliquerCompteEfface(u)
  \/ \E l \in Local : AppliquerAnnuaireRetire(l)

NextSessions ==
  \/ \E c \in Connexion : Ouvrir(c) \/ Tomber(c) \/ Requete(c)
  \/ Repondre \/ Avancer \/ Puiser
  \/ \E x \in Fermable : EnvoyerUnOrdre(x)

SpecSessions == InitSessions /\ [][NextSessions]_varsSessions

\* A request is answered, a turn serves a bounded number of them (one datagram,
\* LECTURES_MAX), and the puller sends every order of a batch it has committed.
EquiteSessions ==
  /\ WF_varsSessions(Repondre) /\ SF_varsSessions(Avancer)
  /\ \A x \in Fermable : WF_varsSessions(EnvoyerUnOrdre(x))

SpecSessionsEquitable == SpecSessions /\ EquiteSessions

-----------------------------------------------------------------------------
(* Properties.                                                             *)

TypeSessions ==
  /\ cle \in [Identite -> Cle \cup {SansCle}]
  /\ connues \in [Identite -> SUBSET Cle] /\ clesRetirees \in [Identite -> SUBSET Cle]
  /\ proprietaire \in [Fermable -> Compte \cup {Personne}] /\ effaces \subseteq Compte
  /\ retraits \in Nat
  /\ etat \in [Connexion -> {"absente", "ouverte", "close"}]
  /\ session \in [Connexion -> [defi : 0..DefisMax, pair : Identite \cup {Personne},
                                 cle : Cle \cup {SansCle}, local : BOOLEAN]]
  /\ tires \in 0..DefisMax /\ actes \in [1..DefisMax -> Nat]
  /\ tour \in {"debut", "lecture", "oubli"} /\ lue \in Connexion \cup {Personne}
  /\ demande \in [quoi : {"rien", "preuve", "attestation", "gestion"},
                   connexion : Connexion \cup {Personne},
                   qui : Identite \cup {Personne}, compte : Compte \cup {Personne},
                   cle : Cle \cup {SansCle}, defi : 0..DefisMax]
  /\ revoques \subseteq Fermable /\ canal \subseteq Fermable /\ enMain \subseteq Fermable

\* Session::racine and Session::annuaire_local.
EstRacine(c)     == session[c].pair \in Annuaire /\ ~session[c].local
AnnuaireLocal(c) == session[c].pair \in Annuaire /\ session[c].local

\* A connection has the rights of the other root, or of a local directory, only
\* if that is what it proved last, whatever it proved before.
RolesJustes ==
  \A c \in Connexion :
    /\ EstRacine(c)     => session[c].pair = LaRacine
    /\ AnnuaireLocal(c) => session[c].pair \in Local

SessionsJustes == TypeSessions /\ RolesJustes

\* A challenge is accepted once: a proof that is sent again after its answer was
\* lost, or over another connection, or crosses another request that signs the
\* same challenge, is refused.
DefiUneFois == \A d \in 1..DefisMax : actes[d] <= 1

\* Proved under a key that was withdrawn.
Condamnee(c) ==
  /\ etat[c] = "ouverte" /\ session[c].pair \in Fermable
  /\ session[c].cle \in clesRetirees[session[c].pair]

\* The order to close a connection whose key is withdrawn is never lost: the
\* puller has it in hand, or it is in the channel, or the loop holds it for this
\* turn or the next (replication.md 3.3), even when the withdrawal is committed
\* while the key is being checked.
OrdreTenu ==
  \A c \in Connexion :
    Condamnee(c) => session[c].pair \in revoques \cup canal \cup enMain

\* Such a connection does not stay (protocole.md 2.1 quater, "effet immediat").
CondamneeFermee == \A c \in Connexion : Condamnee(c) ~> ~Condamnee(c)

\* protocole.md 2396-2400: "Une inscription retirée ferme la connexion, comme une
\* clé de machine révoquée".  The code gives no order for it.
Retiree(c) ==
  /\ etat[c] = "ouverte" /\ session[c].pair \in Local
  /\ session[c].cle \in clesRetirees[session[c].pair]

InscriptionRetireeFermee == \A c \in Connexion : Retiree(c) ~> ~Retiree(c)

=============================================================================
