----------------------------- MODULE Federation -----------------------------
(***************************************************************************)
(* The path of a local directory to the roots (asl-loop-tokio/federation.rs *)
(* and h3/federation.rs, asl-store/federation.rs).                         *)
(*                                                                         *)
(* A member of a local directory keeps one session with each root.  At each *)
(* turn of its cadence it pulls the machines of the domains it hosts, part  *)
(* by part, replaces its table by them, closes the connections of those     *)
(* that left it, and pushes the state of the services of all of them; it    *)
(* pushes again as soon as that state changes.  A root keeps the reports by *)
(* member, in memory, for a time; the reports of two members of a pair may  *)
(* speak of the same service.                                              *)
(*                                                                         *)
(* A machine is its rank in the order of the identifiers, and has one       *)
(* service.  A request that was sent when a session is lost may be served   *)
(* later, on the connection the root has not seen closed.                  *)
(*                                                                         *)
(* Names that Annonces also has carry the name of this module: the proofs  *)
(* about both are in VivantPreuves.                                        *)
(***************************************************************************)
EXTENDS Naturals, FiniteSets

CONSTANTS
  Racine,
  Membre,
  Machine,
  PremierMembre,    \* the one all daemons are told to announce to at first
  Arret,            \* where a daemon is when it does not run
  MachinesParPart,
  EntreesParPart,   \* how many entries a body of PART_D_ETAT_OCTETS holds
  Expiration,       \* EXPIRATION_US, in cadences
  Cedables,         \* bound: the machines that leave the domains, or come back
  Mobiles,          \* bound: the machines whose daemon moves
  Retirables,       \* bound: the members that are withdrawn
  ChangementsMax,   \* bound: attachments and withdrawals
  DeplacementsMax,  \* bound: moves of daemons
  PannesMax,        \* bound: sessions cut
  Departs           \* what each behaviour starts with, its bounds included

ASSUME FederationAssumption ==
  /\ Machine \subseteq Nat \ {0} /\ Arret \notin Membre /\ PremierMembre \in Membre
  /\ {MachinesParPart, EntreesParPart, Expiration} \subseteq Nat \ {0}
  /\ Cedables \cup Mobiles \subseteq Machine /\ Retirables \subseteq Membre
  /\ {ChangementsMax, DeplacementsMax, PannesMax} \subseteq Nat
  /\ Departs \subseteq [heberge : SUBSET Machine, racines : SUBSET Racine, membres : SUBSET Membre,
                        changements : 0..ChangementsMax, deplacements : 0..DeplacementsMax,
                        pannes : 0..PannesMax]

Paire == Racine \X Membre   \* a root and a member: where a session is

VARIABLES
  \* the roots
  rattachees,   \* the machines of the domains the directory hosts
  hebergees,    \* those a root knows to be: the same once it is replicated
  acceptes,     \* the members that are accepted
  tenus,        \* EtatFedere.tenus: the last report of each member
  voies,        \* EtatFedere.voies: where and when each member spoke last
  ancienne,     \* the connection a member left and a root holds open, with a request or none
  \* the members
  federees,     \* MACHINES_FEDEREES
  vivier,       \* the machines whose service is announced here
  aFermer,      \* the machines whose connections must be closed
  publies,      \* ServicesPublies.liste
  session,      \* where each session is
  neuve,        \* the version of publies is not the one that was pushed
  prochaine,    \* the cadence has passed
  \* the daemons
  chez,         \* the member a daemon is configured to announce to
  changements, deplacements, pannes

racines == <<rattachees, hebergees, acceptes, tenus, voies>>
membres == <<federees, vivier, aFermer, publies, session, neuve, prochaine>>
dehors  == <<ancienne, chez, changements, deplacements, pannes>>
varsFederation == <<racines, membres, dehors>>

Eteinte == [etape |-> "eteinte"]                        \* of a root or a member that is not run
Hors   == [etape |-> "hors"]
Repos  == [etape |-> "repos"]
Aucune == [entrees |-> {}, ouverte |-> FALSE]
Muette == [entrees |-> {}, ouverte |-> TRUE]            \* no entry: a request for machines
Jamais == [recu |-> Expiration + 1, vivant |-> FALSE]   \* no report
\* A path, and the age of its last word in cadences; before the first word.
Inconnue == [connexion |-> "aucune", fermee |-> FALSE, mot |-> Expiration + 1]

InitFederation ==
  /\ acceptes = Membre
  /\ \E depart \in Departs :
       /\ rattachees = depart.heberge /\ hebergees = [r \in Racine |-> depart.heberge]
       /\ session = [p \in Paire |->
            IF p \in depart.racines \X depart.membres THEN Hors ELSE Eteinte]
       /\ changements = depart.changements /\ deplacements = depart.deplacements
       /\ pannes = depart.pannes
  /\ tenus = [p \in Paire |-> [m \in Machine |-> Jamais]]
  /\ voies = [p \in Paire |-> Inconnue]
  /\ federees = [d \in Membre |-> {}]
  /\ vivier = [d \in Membre |-> {}] /\ aFermer = [d \in Membre |-> {}]
  /\ publies = [d \in Membre |-> {}]
  /\ neuve = [p \in Paire |-> FALSE] /\ prochaine = [p \in Paire |-> FALSE]
  /\ ancienne = [p \in Paire |-> Aucune]
  /\ chez = [m \in Machine |-> PremierMembre]

-----------------------------------------------------------------------------
(* What a root reads of the reports.                                       *)

Frais(p, m) == tenus[p][m].recu <= Expiration

\* The report retained: one that is alive if there is one, else the most recent.
Vivants(r, m)    == {d \in Membre : Frais(<<r, d>>, m) /\ tenus[<<r, d>>][m].vivant}
PlusRecents(r, m, parmi) ==
  {d \in parmi : \A e \in parmi : tenus[<<r, d>>][m].recu <= tenus[<<r, e>>][m].recu}

\* Mutant of Retenus: the most recent report, alive or not.
RetenusSansChoix(r, m) == PlusRecents(r, m, {d \in Membre : Frais(<<r, d>>, m)})

Retenus(r, m) ==
  LET vivants == Vivants(r, m) IN
  PlusRecents(r, m, IF vivants # {} THEN vivants
                    ELSE {d \in Membre : Frais(<<r, d>>, m)})

\* Whatever report of the same instant the hash table gives first.
LuVivant(r, m) ==
  Retenus(r, m) # {} /\ \A d \in Retenus(r, m) : tenus[<<r, d>>][m].vivant
PeutEtreLuVivant(r, m) == \E d \in Retenus(r, m) : tenus[<<r, d>>][m].vivant

\* voie_de: fallen when its connection closed, or when it fell silent on it.
VoieDe(p) ==
  CASE voies[p].connexion = "aucune" -> "inconnue"
    [] voies[p].connexion # "aucune" /\ ~voies[p].fermee /\ voies[p].mot <= Expiration -> "ouverte"
    [] OTHER -> "tombee"

-----------------------------------------------------------------------------
(* The owner, the replication between roots, and the daemons.              *)

Changer ==
  /\ changements < ChangementsMax /\ changements' = changements + 1
  /\ \/ /\ \E m \in Cedables : rattachees' = (rattachees \ {m}) \cup ({m} \ rattachees)
        /\ UNCHANGED acceptes
     \/ /\ \E d \in acceptes \cap Retirables : acceptes' = acceptes \ {d}
        /\ UNCHANGED rattachees
  /\ UNCHANGED <<hebergees, tenus, voies, membres, ancienne, chez, deplacements, pannes>>

\* A root that no member has a session with is not run.
EnMarche(r) == \E d \in Membre : session[<<r, d>>] # Eteinte

Repliquer(r) ==
  /\ EnMarche(r) /\ hebergees[r] # rattachees
  /\ hebergees' = [hebergees EXCEPT ![r] = rattachees]
  /\ UNCHANGED <<rattachees, acceptes, tenus, voies, membres, dehors>>

Tournent == {d \in Membre : \E r \in Racine : session[<<r, d>>] # Eteinte}

\* A daemon is stopped, or told to announce to another member.
Deplacer(m) ==
  /\ deplacements < DeplacementsMax /\ deplacements' = deplacements + 1
  /\ \E d \in Tournent \cup {Arret} : d # chez[m] /\ chez' = [chez EXCEPT ![m] = d]
  /\ UNCHANGED <<racines, membres, ancienne, changements, pannes>>

\* Its key is found among the machines the roots gave; its service is declared.
AnnoncerAuMembre(m) ==
  LET d == chez[m] IN
  /\ d # Arret /\ m \in federees[d] \ vivier[d]
  /\ vivier' = [vivier EXCEPT ![d] = @ \cup {m}]
  /\ UNCHANGED <<racines, federees, aFermer, publies, session, neuve, prochaine, dehors>>

\* Its connection to the member it left ends, or the lease of its announcement.
Quitter(d, m) ==
  /\ m \in vivier[d] /\ chez[m] # d
  /\ vivier' = [vivier EXCEPT ![d] = @ \ {m}]
  /\ UNCHANGED <<racines, federees, aFermer, publies, session, neuve,
                 prochaine, dehors>>

-----------------------------------------------------------------------------
(* The loop of a member.                                                   *)

FermerUneSortie(d, m) ==
  /\ m \in aFermer[d]
  /\ aFermer' = [aFermer EXCEPT ![d] = @ \ {m}]
  /\ vivier'  = [vivier  EXCEPT ![d] = @ \ {m}]
  /\ UNCHANGED <<racines, federees, publies, session, neuve, prochaine, dehors>>

\* All the services of all the machines it was given, those that left included.
APublier(d) == {[machine |-> m, vivant |-> m \in vivier[d]] : m \in federees[d]}

SansSession(p) == session[p] \in {Hors, Eteinte}

\* A session that is not open, or about to pull, pushes in its turn anyway.
AttendUnTour(p) == SansSession(p) \/ (session[p] = Repos /\ prochaine[p])

Publier(d) ==
  /\ publies[d] # APublier(d)
  /\ publies' = [publies EXCEPT ![d] = APublier(d)]
  /\ neuve'   = [p \in Paire |-> neuve[p] \/ (p[2] = d /\ ~AttendUnTour(p))]
  /\ UNCHANGED <<racines, federees, vivier, aFermer, session, prochaine, dehors>>

-----------------------------------------------------------------------------
(* What a root does of a request, of a session or of a former connection.   *)

\* membre_qui_parle.
NoterUneParole(p, k) ==
  voies' = [voies EXCEPT ![p] = [connexion |-> k, fermee |-> FALSE, mot |-> 0]]

\* Mutant of Part: the first machine after the rank is passed over.
PartDecalee(r, apres) ==
  {m \in hebergees[r] :
     LET rang == Cardinality({n \in hebergees[r] : n < m}) IN
     apres < rang /\ rang <= apres + MachinesParPart}

\* rassembler_les_machines_federees: by rank in what it hosts now.
Part(r, apres) ==
  {m \in hebergees[r] :
     LET rang == Cardinality({n \in hebergees[r] : n < m}) IN
     apres <= rang /\ rang < apres + MachinesParPart}

\* One entry out of the domains it hosts, and nothing is taken.
Admis(r, entrees) == \A e \in entrees : e.machine \in hebergees[r]

\* membre_accepte, then what is in the report.
Accorde(p, demande) == p[2] \in acceptes /\ Admis(p[1], demande.entrees)

\* ranger_un_etat_federe.
RangerUnEtat(p, entrees) ==
  tenus' = [tenus EXCEPT ![p] = [m \in Machine |->
    IF \E e \in entrees : e.machine = m
      THEN [recu |-> 0, vivant |-> [machine |-> m, vivant |-> TRUE] \in entrees]
      ELSE @[m]]]

\* A request for machines brings no entry.
Servir(p, demande, k) ==
  /\ IF p[2] \in acceptes THEN NoterUneParole(p, k) ELSE UNCHANGED voies
  /\ IF Accorde(p, demande) THEN RangerUnEtat(p, demande.entrees) ELSE UNCHANGED tenus
  /\ UNCHANGED <<rattachees, hebergees, acceptes>>

-----------------------------------------------------------------------------
(* The session of a member with a root.  A request is sent, served, and its *)
(* answer received: all of it, or what Perdre leaves of it.                 *)

Mettre(p, etape) == session' = [session EXCEPT ![p] = etape]

OuvrirUneSession(p) ==
  /\ session[p] = Hors /\ Mettre(p, Repos)
  /\ prochaine' = [prochaine EXCEPT ![p] = TRUE]
  /\ UNCHANGED <<racines, federees, vivier, aFermer, publies, neuve, dehors>>

\* The connection of the session is left, with what was sent on it: the root has
\* it open until it learns.  It becomes the one where the member spoke before.
Quitte(p, demande) ==
  /\ ancienne[p] = Aucune
  /\ Mettre(p, Hors)
  /\ ancienne'  = [ancienne  EXCEPT ![p] = demande]
  /\ prochaine' = [prochaine EXCEPT ![p] = FALSE]
  /\ neuve'     = [neuve     EXCEPT ![p] = FALSE]

Delaissee(voie) == IF voie.connexion = "courante" THEN [voie EXCEPT !.connexion = "ancienne"]
                   ELSE voie

\* The first entries of what is left, by machine.
Premieres(reste) ==
  {e \in reste : Cardinality({f \in reste : f.machine < e.machine}) < EntreesParPart}

\* What a session asks for next.
Demande(p) ==
  [entrees |-> CASE session[p].etape = "tiree"  -> Premieres(publies[p[2]])
                 [] session[p].etape = "pousse" -> Premieres(session[p].reste)
                 [] OTHER -> {},
   ouverte |-> TRUE]

\* The session ends, with a request on the way or none.
Perdre(p) ==
  /\ ~SansSession(p) /\ pannes < PannesMax /\ pannes' = pannes + 1
  /\ \E demande \in {Muette, Demande(p)} : Quitte(p, demande)
  /\ voies' = [voies EXCEPT ![p] = Delaissee(@)]
  /\ UNCHANGED <<rattachees, hebergees, acceptes, tenus, federees, vivier, aFermer, publies,
                 chez, changements, deplacements>>

\* 403 or 404: the session is left, and opened again after a delay.
EtreRefuse(p) ==
  /\ \/ session[p] = Repos /\ prochaine[p]
     \/ session[p].etape \in {"tire", "pousse"}
     \/ session[p].etape = "tiree" /\ publies[p[2]] # {}
  /\ ~Accorde(p, Demande(p))
  /\ Quitte(p, Muette)
  /\ voies' = [voies EXCEPT ![p] = IF p[2] \in acceptes
                 THEN [connexion |-> "ancienne", fermee |-> FALSE, mot |-> 0] ELSE Delaissee(@)]
  /\ UNCHANGED <<rattachees, hebergees, acceptes, tenus, federees, vivier, aFermer, publies,
                 chez, changements, deplacements, pannes>>

\* Mutant of Sorties: the table is replaced, and nobody is told.
SortiesOubliees(d, liste) == {}

Sorties(d, liste) == federees[d] \ liste

\* ranger_les_machines_federees: the table is replaced by what this root gave.
RangerLesMachines(d, liste) ==
  /\ federees' = [federees EXCEPT ![d] = liste]
  /\ aFermer'  = [aFermer  EXCEPT ![d] = @ \cup Sorties(d, liste)]

\* tirer_les_machines: a part; if it is full, the next one is asked after as many
\* machines as were read.  The version is read before the first one.
TirerUnePart(p) ==
  LET debut == session[p] = Repos /\ prochaine[p]
      apres == IF debut THEN 0  ELSE session[p].apres
      vues  == IF debut THEN {} ELSE session[p].vues
      part  == Part(p[1], apres)
  IN
  /\ debut \/ session[p].etape = "tire"
  /\ p[2] \in acceptes
  /\ Servir(p, Muette, "courante")
  /\ IF Cardinality(part) = MachinesParPart
       THEN /\ Mettre(p, [etape |-> "tire", apres |-> apres + MachinesParPart, vues |-> vues \cup part])
            /\ UNCHANGED <<federees, aFermer>>
       ELSE /\ RangerLesMachines(p[2], vues \cup part)
            /\ Mettre(p, [etape |-> "tiree"])
  /\ prochaine' = [prochaine EXCEPT ![p] = FALSE]
  /\ UNCHANGED <<vivier, publies, neuve, dehors>>

\* pousser_l_etat, body after body; with nothing to say, nothing is sent.
Pousser(p, liste) ==
  LET corps == [entrees |-> Premieres(liste), ouverte |-> TRUE]
      reste == liste \ Premieres(liste)
  IN
  /\ IF liste = {} THEN UNCHANGED racines
     ELSE Accorde(p, corps) /\ Servir(p, corps, "courante")
  /\ Mettre(p, IF reste = {} THEN Repos ELSE [etape |-> "pousse", reste |-> reste])
  /\ UNCHANGED <<federees, vivier, aFermer, publies, dehors>>

PousserLEtat(p) ==
  /\ session[p].etape = "tiree" /\ Pousser(p, publies[p[2]])
  /\ UNCHANGED <<neuve, prochaine>>

PousserLaSuite(p) ==
  /\ session[p].etape = "pousse" /\ Pousser(p, session[p].reste)
  /\ UNCHANGED <<neuve, prochaine>>

\* What is served changed between two cadences.
PousserUnChangement(p) ==
  /\ session[p] = Repos /\ ~prochaine[p] /\ neuve[p]
  /\ neuve' = [neuve EXCEPT ![p] = FALSE]
  /\ Mettre(p, [etape |-> "tiree"])
  /\ UNCHANGED <<racines, federees, vivier, aFermer, publies, prochaine, dehors>>

-----------------------------------------------------------------------------
(* A former connection, at a root.                                         *)

ServirUneTardive(p) ==
  /\ ancienne[p] \notin {Aucune, Muette}
  /\ Servir(p, ancienne[p], "ancienne")
  /\ ancienne' = [ancienne EXCEPT ![p] = Muette]
  /\ UNCHANGED <<membres, chez, changements, deplacements, pannes>>

\* Mutant of Fermee: any connection of the member that closes.
FermeeToujours(p, k) == TRUE

Fermee(p, k) == voies[p].connexion = k

Tombee(voie) ==
  [voie EXCEPT !.fermee = TRUE, !.connexion = IF @ = "ancienne" THEN "finie" ELSE @]

\* a_la_fermeture, noter_une_fermeture; what was on the way is lost.
FermerAuxRacines(p) ==
  /\ ancienne[p] # Aucune
  /\ ancienne' = [ancienne EXCEPT ![p] = Aucune]
  /\ voies' = IF Fermee(p, "ancienne")
                THEN [voies EXCEPT ![p] = Tombee(@)] ELSE voies
  /\ UNCHANGED <<rattachees, hebergees, acceptes, tenus, membres, chez,
                 changements, deplacements, pannes>>

-----------------------------------------------------------------------------
\* A cadence passes: an exchange of a session that is open takes less.
PasserUneCadence ==
  /\ \A p \in Paire : SansSession(p) \/ (session[p] = Repos /\ ~prochaine[p])
  /\ prochaine' = [p \in Paire |-> ~SansSession(p)]
  /\ neuve'     = [p \in Paire |-> FALSE]
  /\ tenus' = [p \in Paire |-> [m \in Machine |->
       IF Frais(p, m) THEN IF tenus[p][m].recu = Expiration THEN Jamais
                           ELSE [tenus[p][m] EXCEPT !.recu = @ + 1]
       ELSE tenus[p][m]]]
  /\ voies' = [p \in Paire |->
       [voies[p] EXCEPT !.mot = IF @ <= Expiration THEN @ + 1 ELSE @]]
  /\ UNCHANGED <<rattachees, hebergees, acceptes, federees, vivier,
                 aFermer, publies, session, dehors>>

Avancer(p) ==
  \/ OuvrirUneSession(p) \/ TirerUnePart(p) \/ PousserLEtat(p) \/ PousserLaSuite(p)
  \/ PousserUnChangement(p) \/ EtreRefuse(p)

NextFederation ==
  \/ Changer \/ PasserUneCadence
  \/ \E r \in Racine : Repliquer(r)
  \/ \E m \in Mobiles : Deplacer(m)
  \/ \E m \in Machine : AnnoncerAuMembre(m)
  \/ \E d \in Membre : Publier(d)
  \/ \E d \in Membre, m \in Machine :
       Quitter(d, m) \/ FermerUneSortie(d, m)
  \/ \E p \in Paire : Avancer(p) \/ Perdre(p) \/ ServirUneTardive(p) \/ FermerAuxRacines(p)

SpecFederation == InitFederation /\ [][NextFederation]_varsFederation

\* The replication between roots, the daemons and the loop of a member get to
\* what they have to do; a session goes on, or is opened again; the peer that is
\* gone is seen to be; and time passes, whatever the sessions do.
EquiteFederation ==
  /\ SF_varsFederation(PasserUneCadence)
  /\ \A r \in Racine : WF_varsFederation(Repliquer(r))
  /\ \A m \in Machine : WF_varsFederation(AnnoncerAuMembre(m))
  /\ \A d \in Membre : WF_varsFederation(Publier(d))
  /\ \A d \in Membre, m \in Machine :
       WF_varsFederation(Quitter(d, m)) /\ WF_varsFederation(FermerUneSortie(d, m))
  /\ \A p \in Paire : WF_varsFederation(Avancer(p)) /\ WF_varsFederation(FermerAuxRacines(p))

SpecFederationEquitable == SpecFederation /\ EquiteFederation

-----------------------------------------------------------------------------
(* Properties.                                                             *)

RapportFedere == [recu : 0..Expiration + 1, vivant : BOOLEAN]
Entree        == [machine : Machine, vivant : BOOLEAN]
TypeFederation ==
  /\ rattachees \subseteq Machine /\ hebergees \in [Racine -> SUBSET Machine]
  /\ acceptes \subseteq Membre
  /\ tenus \in [Paire -> [Machine -> RapportFedere]]
  /\ voies \in [Paire -> [connexion : {"aucune", "courante", "ancienne", "finie"},
                          fermee : BOOLEAN, mot : 0..Expiration + 1]]
  /\ ancienne \in [Paire -> [entrees : SUBSET Entree, ouverte : BOOLEAN]]
  /\ {federees, vivier, aFermer} \subseteq [Membre -> SUBSET Machine]
  /\ publies \in [Membre -> SUBSET Entree]
  /\ session \in [Paire -> {Eteinte, Hors, Repos, [etape |-> "tiree"]}
                           \cup [etape : {"tire"}, apres : Nat, vues : SUBSET Machine]
                           \cup [etape : {"pousse"}, reste : SUBSET Entree]]
  /\ {neuve, prochaine} \subseteq [Paire -> BOOLEAN]
  /\ chez \in [Machine -> Membre \cup {Arret}]
  /\ changements \in 0..ChangementsMax /\ deplacements \in 0..DeplacementsMax
  /\ pannes \in 0..PannesMax

\* The root still holds the connection the member spoke on last.
Tient(p) ==
  CASE voies[p].connexion = "courante" -> ~SansSession(p)
    [] voies[p].connexion = "ancienne" -> ancienne[p] # Aucune
    [] OTHER -> FALSE

\* The path of a member is shown open if the connection it spoke on last is held
\* and it spoke there within the expiration, and only then: a connection that it
\* left does not make the path fall when it closes after the next one has spoken,
\* nor keep it open when nothing is heard on it any more.  A session that spoke
\* on its connection last is never shown fallen as long as it goes on.
VoieJuste ==
  \A p \in Paire :
    /\ VoieDe(p) = "ouverte" <=> Tient(p) /\ voies[p].mot <= Expiration
    /\ voies[p].connexion = "courante" => VoieDe(p) = "ouverte"

FederationJuste == TypeFederation /\ VoieJuste

\* The daemon of m runs, at a member that is accepted and has sessions with r, for a
\* machine that is hosted.
Sert(r, m) ==
  m \in rattachees /\ chez[m] \in acceptes /\ session[<<r, chez[m]>>] # Eteinte

\* What runs is read alive in the end, and stays so: whatever the other member of
\* the pair reports of the same service, whichever list comes from which root,
\* after the cuts, the late requests and the refused reports.
VivantLu ==
  \A m \in Machine, r \in Racine : <>[]Sert(r, m) => <>[]LuVivant(r, m)

\* What does not run any more, or whose machine is not hosted any more, is not
\* read alive for ever, nor kept announced by a member that is accepted.
RienNeReste ==
  \A m \in Machine :
    /\ <>[](chez[m] = Arret) => \A r \in Racine : <>[]~PeutEtreLuVivant(r, m)
    /\ <>[](m \notin rattachees) => \A d \in Membre : <>[](d \in acceptes => m \notin vivier[d])

=============================================================================
