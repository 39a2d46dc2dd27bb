------------------------------- MODULE Comptes -------------------------------
(***************************************************************************)
(* Accounts, their alias, their devices and their erasure, on two roots     *)
(* that replicate each other (asl-store/lib.rs, the handlers of h3.rs).     *)
(*                                                                         *)
(* A request of a device is served in two transactions: one reads the      *)
(* account of the connection, one writes.  The operations of the peer are   *)
(* applied by another task and may come between the two.                    *)
(*                                                                         *)
(* An account and a device are known by the stamp of their creation.  Dates *)
(* are abstracted to the stamp of the operation that carries them, and the  *)
(* delay of the orphans to "at any time".  What else an account owns        *)
(* (machines, domains, groups, rights) is in modules of its own.            *)
(***************************************************************************)
EXTENDS Replique, TLC, SequencesExt, Functions

CONSTANTS
  Alias,
  SansAlias,      \* Option::None, for an alias
  Lentes,         \* the roots between whose two transactions the peer may come
  EcartsMax,      \* bound: snapshots read, and requests the peer comes between, together
  ComptesMax,     \* bound: how many accounts a root knows
  PremierCompte   \* the account that exists at first, on both roots

ASSUME ComptesAssumption ==
  /\ Lentes \subseteq Racine
  /\ SansAlias \notin Alias /\ PremierCompte \in Estampille
  /\ {EcartsMax, ComptesMax} \subseteq Nat

VARIABLES
  comptes,       \* COMPTES: the accounts of each root, erased ones included
  reclamations,  \* ALIAS: the claims, by alias and stamp
  appareils,     \* APPAREILS and APPAREILS_PAR_COMPTE
  descriptions,  \* DESCRIPTIONS: the stamp of the description of a device
  points,        \* POINTS: the stamp of the push point of a device
  demande,       \* the device and the account a request was identified with
  surpris,       \* history: accounts whose erasure came between two transactions
  lentes         \* how many requests had the peer come between theirs

tables == <<comptes, reclamations, appareils, descriptions, points>>
vars == <<voie, tables, demande, surpris, lentes>>

Compte     == [estampille : Estampille, alias : Alias \cup {SansAlias},
               reclamation : Estampille, efface : {"non", "titulaire", "orphelin"}]
Appareil   == [proprietaire : Estampille, prouve : BOOLEAN, revoque : Estampille \cup {Aucune}]
\* A table: its keys in S, its rows in T.
EstTable(f, S, T) == \A cle \in DOMAIN f : cle \in S /\ f[cle] \in T

\* A device and an account, while a request of theirs is served.
Repos == [appareil |-> Aucune, compte |-> Aucune]

Operation ==
  LET e == Estampille IN
  [quoi : {"compte"}, estampille : e, compte : e, enregistrement : Compte]
    \cup [quoi : {"alias"}, estampille : e, compte : e, alias : Alias \cup {SansAlias}]
    \cup [quoi : {"efface"}, estampille : e, compte : e, cause : {"titulaire", "orphelin"}]
    \cup [quoi : {"appareil"}, estampille : e, appareil : e, enregistrement : Appareil]
    \cup [quoi : {"revoque"}, estampille : e, appareil : e, le : e]
    \cup [quoi : {"atteste", "description", "point"}, estampille : e, appareil : e]
    \cup [quoi : {"fin"}, estampille : e]

\* The account there is at first was created on one root and received by the
\* other, and its first device too.
PremierAppareil == [PremierCompte EXCEPT !.compteur = @ + 1]
SecondAppareil  == [PremierCompte EXCEPT !.compteur = @ + 2]

Joint(revoque) == [proprietaire |-> PremierCompte, prouve |-> FALSE, revoque |-> revoque]

\* An account that was opened, and nothing more.
Ouvert(c) == [estampille |-> c, alias |-> SansAlias, reclamation |-> c, efface |-> "non"]

UnCompte == Seul(PremierCompte, Ouvert(PremierCompte))

\* That device alone.
InitSeul ==
  /\ InitVoie(SecondAppareil.compteur)
  /\ comptes = [r \in Racine |-> UnCompte]
  /\ appareils = [r \in Racine |-> Seul(PremierAppareil, Joint(Aucune))]

\* With a second device, each of the two revoked by the other, the revocation of
\* the second still on its way: the account is an orphan on one root.
InitCroise ==
  LET ici == PremierCompte.racine
      le  == [r \in Racine |-> [compteur |-> SecondAppareil.compteur + 1, racine |-> r]]
  IN
  /\ comptes   = [r \in Racine |-> UnCompte]
  /\ compteur  = [r \in Racine |-> SecondAppareil.compteur + 1]
  /\ enRoute   = [r \in Racine |-> IF r # Pair[ici] THEN <<>> ELSE
       <<[quoi |-> "revoque", estampille |-> le[ici], appareil |-> SecondAppareil,
          le |-> le[ici]]>>]
  /\ amorcages = 0
  /\ appareils = [r \in Racine |->
       Poser(Seul(PremierAppareil, Joint(le[Pair[ici]])),
             SecondAppareil, Joint(IF r = ici THEN le[ici] ELSE Aucune))]

\* With a second account, opened on the other root with a device of its own: the two
\* may claim one alias, each on its root.
SecondCompte  == [PremierCompte EXCEPT !.racine = Pair[@]]
AutreAppareil == [PremierAppareil EXCEPT !.racine = Pair[@]]

InitDeux ==
  /\ InitVoie(SecondAppareil.compteur + 1)
  /\ comptes = [r \in Racine |-> Poser(UnCompte, SecondCompte, Ouvert(SecondCompte))]
  /\ appareils = [r \in Racine |->
       Poser(Seul(PremierAppareil, Joint(Aucune)),
             AutreAppareil, [Joint(Aucune) EXCEPT !.proprietaire = SecondCompte])]

Init ==
  /\ InitSeul \/ InitCroise \/ InitDeux
  /\ reclamations = [r \in Racine |-> {}]
  /\ descriptions = [r \in Racine |-> <<>>]
  /\ points       = [r \in Racine |-> <<>>]
  /\ demande = [r \in Racine |-> Repos]
  /\ surpris = [r \in Racine |-> {}] /\ lentes = 0

-----------------------------------------------------------------------------
(* Reading.                                                                *)

Efface(r, c) == c \in DOMAIN comptes[r] /\ comptes[r][c].efface # "non"
Revoque(r, d) == appareils[r][d].revoque # Aucune
Possede(r, c) == {d \in DOMAIN appareils[r] : appareils[r][d].proprietaire = c}

\* The claims of an alias, and its holder: the first of them.
Reclament(r, x) == {q \in reclamations[r] : q.alias = x}
Titulaire(r, x) ==
  (CHOOSE q \in Reclament(r, x) :
     \A autre \in Reclament(r, x) : ~Avant(autre.estampille, q.estampille)).compte
Libre(r, x, c) == Reclament(r, x) # {} => Titulaire(r, x) = c

\* The claim that the row of an account stands for, if it has an alias.
Reclamation(c, compte) ==
  IF compte.alias = SansAlias THEN {}
    ELSE {[alias |-> compte.alias, estampille |-> compte.reclamation, compte |-> c]}

\* A row and its claim enter, a claim leaves.
Ranger(r, c, compte, partie) ==
  /\ comptes' = [comptes EXCEPT ![r] = Poser(@, c, compte)]
  /\ reclamations' = [reclamations EXCEPT ![r] = (@ \ partie) \cup Reclamation(c, compte)]

\* The claim an account stands for now.
Tenue(r, c) == IF c \in DOMAIN comptes[r] THEN Reclamation(c, comptes[r][c]) ELSE {}

\* Mutant of EffacerDans: the claim of the alias is left behind.
EffacerSansLAlias(r, c, cause, e) ==
  /\ appareils'    = [appareils    EXCEPT ![r] = Sans(@, Possede(r, c))]
  /\ descriptions' = [descriptions EXCEPT ![r] = Sans(@, Possede(r, c))]
  /\ points'       = [points       EXCEPT ![r] = Sans(@, Possede(r, c))]
  /\ Ranger(r, c, [estampille |-> e, alias |-> SansAlias, reclamation |-> e,
                   efface |-> cause], {})

\* effacer_dans: the devices with all that names them, and the claim of the alias;
\* the row stays and says so, even where the account was not known.
EffacerDans(r, c, cause, e) ==
  /\ appareils'    = [appareils    EXCEPT ![r] = Sans(@, Possede(r, c))]
  /\ descriptions' = [descriptions EXCEPT ![r] = Sans(@, Possede(r, c))]
  /\ points'       = [points       EXCEPT ![r] = Sans(@, Possede(r, c))]
  /\ Ranger(r, c, [estampille |-> e, alias |-> SansAlias, reclamation |-> e,
                   efface |-> cause], Tenue(r, c))

-----------------------------------------------------------------------------
(* What the loop writes.                                                   *)

\* First transaction of a request: the device of the connection is not revoked,
\* and its account is the one it belongs to.
Identifies(r) ==
  {[appareil |-> d, compte |-> appareils[r][d].proprietaire] :
     d \in {d \in DOMAIN appareils[r] : ~Revoque(r, d)}}

\* Who the second transaction is for: whoever can be identified now, or the one
\* who was before operations of the peer were applied.
Demandeurs(r) == IF demande[r] = Repos THEN Identifies(r) ELSE {demande[r]}

\* The puller commits between the two transactions of a request.
Tarder(r) ==
  /\ demande[r] = Repos /\ enRoute[r] # <<>>
  /\ r \in Lentes /\ lentes + amorcages < EcartsMax
  /\ lentes' = lentes + 1
  /\ \E qui \in Identifies(r) : demande' = [demande EXCEPT ![r] = qui]
  /\ UNCHANGED <<voie, tables, surpris>>

Rendue(r) == demande' = [demande EXCEPT ![r] = Repos] /\ UNCHANGED lentes

\* The request only reads, is refused, or fails after its first transaction.
Rendre(r) ==
  /\ demande[r] # Repos
  /\ Rendue(r)
  /\ UNCHANGED <<voie, tables, surpris>>

\* creer_un_compte: the account first, its first device in the next transaction.
CreerCompte(r) ==
  /\ demande[r] = Repos
  /\ Cardinality(DOMAIN comptes[r]) < ComptesMax
  /\ LET compte == [estampille |-> Suivante(r), alias |-> SansAlias,
                    reclamation |-> Suivante(r), efface |-> "non"] IN
       /\ Ranger(r, Suivante(r), compte, {})
       /\ Journaliser(r, [quoi |-> "compte", estampille |-> Suivante(r),
                          compte |-> Suivante(r), enregistrement |-> compte])
  /\ demande' = [demande EXCEPT ![r] = [appareil |-> Aucune, compte |-> Suivante(r)]]
  /\ UNCHANGED <<appareils, descriptions, points, surpris, lentes>>

\* creer_appareil does not look at the account again.
CreerAppareil(r, qui) ==
  /\ LET appareil == [proprietaire |-> qui.compte, prouve |-> FALSE,
                      revoque |-> Aucune] IN
       /\ appareils' = [appareils EXCEPT ![r] = Poser(@, Suivante(r), appareil)]
       /\ Journaliser(r, [quoi |-> "appareil", estampille |-> Suivante(r),
                          appareil |-> Suivante(r), enregistrement |-> appareil])
  /\ Rendue(r)
  /\ UNCHANGED <<comptes, reclamations, descriptions, points, surpris>>

\* reclamer_alias: an alias for another, or for none.
ReclamerAlias(r, qui) ==
  LET c == qui.compte IN
  /\ qui.appareil # Aucune
  /\ c \in DOMAIN comptes[r] /\ ~Efface(r, c)
  /\ \E x \in (Alias \cup {SansAlias}) \ {comptes[r][c].alias} :
       /\ x # SansAlias => Libre(r, x, c)
       /\ Ranger(r, c, [comptes[r][c] EXCEPT !.estampille = Suivante(r), !.alias = x,
                                             !.reclamation = Suivante(r)], Tenue(r, c))
       /\ Journaliser(r, [quoi |-> "alias", estampille |-> Suivante(r), compte |-> c,
                          alias |-> x])
  /\ Rendue(r)
  /\ UNCHANGED <<appareils, descriptions, points, surpris>>

\* One transaction: everything that depends on the account leaves with it.
Effacer(r, c, cause) ==
  /\ c \in DOMAIN comptes[r] /\ ~Efface(r, c)
  /\ EffacerDans(r, c, cause, Suivante(r))
  /\ Journaliser(r, [quoi |-> "efface", estampille |-> Suivante(r), compte |-> c,
                     cause |-> cause])
  /\ UNCHANGED surpris

EffacerCompte(r, qui) ==
  /\ qui.appareil # Aucune
  /\ Effacer(r, qui.compte, "titulaire")
  /\ Rendue(r)

\* An account whose devices, at least one, are all revoked.
Orphelin(r, c) == Possede(r, c) # {} /\ \A d \in Possede(r, c) : Revoque(r, d)

\* The sweep of the orphans, for one of them: it erases all of them in a row.
EffacerUnOrphelin(r) ==
  /\ demande[r] = Repos
  /\ \E c \in DOMAIN comptes[r] : Orphelin(r, c) /\ Effacer(r, c, "orphelin")
  /\ UNCHANGED <<demande, lentes>>

\* Another device of the same account.  Its push point leaves with it.
RevoquerAppareil(r, qui) ==
  /\ qui.appareil # Aucune
  /\ \E d \in Possede(r, qui.compte) \ {qui.appareil} :
       /\ ~Revoque(r, d)
       /\ appareils' = [appareils EXCEPT ![r][d].revoque = Suivante(r)]
       /\ points'    = [points    EXCEPT ![r] = Sans(@, {d})]
       /\ Journaliser(r, [quoi |-> "revoque", estampille |-> Suivante(r),
                          appareil |-> d, le |-> Suivante(r)])
  /\ Rendue(r)
  /\ UNCHANGED <<comptes, reclamations, descriptions, surpris>>

\* The device itself proves what it is, revoked meanwhile or not.
AttesterAppareil(r, qui) ==
  LET d == qui.appareil IN
  /\ d \in DOMAIN appareils[r] /\ ~appareils[r][d].prouve
  /\ appareils' = [appareils EXCEPT ![r][d].prouve = TRUE]
  /\ Journaliser(r, [quoi |-> "atteste", estampille |-> Suivante(r), appareil |-> d])
  /\ Rendue(r)
  /\ UNCHANGED <<comptes, reclamations, descriptions, points, surpris>>

\* poser_description does not look at the device again.
PoserDescription(r, qui) ==
  LET d == qui.appareil IN
  /\ d # Aucune
  /\ descriptions' = [descriptions EXCEPT ![r] = Poser(@, d, Suivante(r))]
  /\ Journaliser(r, [quoi |-> "description", estampille |-> Suivante(r), appareil |-> d])
  /\ Rendue(r)
  /\ UNCHANGED <<comptes, reclamations, appareils, points, surpris>>

\* A push point is kept only for a device that is there and not revoked.
Joignable(r, d) == d \in DOMAIN appareils[r] /\ ~Revoque(r, d)

PoserPoint(r, qui) ==
  LET d == qui.appareil IN
  /\ Joignable(r, d)
  /\ points' = [points EXCEPT ![r] = Poser(@, d, Suivante(r))]
  /\ Journaliser(r, [quoi |-> "point", estampille |-> Suivante(r), appareil |-> d])
  /\ Rendue(r)
  /\ UNCHANGED <<comptes, reclamations, appareils, descriptions, surpris>>

-----------------------------------------------------------------------------
(* What comes from the peer, applied by the puller's task.                 *)

\* A row that is there is never taken back, an erased one neither.
AppliquerCompte(r, operation) ==
  /\ IF operation.compte \in DOMAIN comptes[r]
       THEN UNCHANGED <<comptes, reclamations>>
       ELSE Ranger(r, operation.compte, operation.enregistrement, {})
  /\ UNCHANGED <<appareils, descriptions, points>>

\* Mutant of Reclamante: the last claim applied is the one that stays.
ReclamanteToujours(r, c, e) == c \in DOMAIN comptes[r] /\ ~Efface(r, c)

\* The last claim of an account that is alive.
Reclamante(r, c, e) ==
  c \in DOMAIN comptes[r] /\ ~Efface(r, c) /\ Avant(comptes[r][c].reclamation, e)

AppliquerAlias(r, operation) ==
  LET c == operation.compte IN
  /\ IF Reclamante(r, c, operation.estampille)
       THEN Ranger(r, c,
              [estampille  |-> PlusTard(comptes[r][c].estampille, operation.estampille),
               alias       |-> operation.alias,
               reclamation |-> operation.estampille,
               efface      |-> "non"], Tenue(r, c))
       ELSE UNCHANGED <<comptes, reclamations>>
  /\ UNCHANGED <<appareils, descriptions, points>>

\* Erased on both sides: the first erasure is the one that is kept.
AppliquerCompteEfface(r, operation) ==
  LET c == operation.compte IN
  IF Efface(r, c)
    THEN /\ comptes' = [comptes EXCEPT ![r][c] =
              IF Avant(operation.estampille, @.estampille)
                THEN [@ EXCEPT !.estampille = operation.estampille,
                               !.reclamation = operation.estampille,
                               !.efface = operation.cause]
                ELSE @]
         /\ UNCHANGED <<reclamations, appareils, descriptions, points>>
    ELSE EffacerDans(r, c, operation.cause, operation.estampille)

\* Mutant of Admis: the account is not looked at.
AdmisSansCompte(r, operation) == operation.appareil \notin DOMAIN appareils[r]

\* A device enters unless it is there, or its account is erased here.
Admis(r, operation) ==
  /\ operation.appareil \notin DOMAIN appareils[r]
  /\ ~Efface(r, operation.enregistrement.proprietaire)

AppliquerAppareil(r, operation) ==
  /\ appareils' = [appareils EXCEPT ![r] =
       IF Admis(r, operation) THEN Poser(@, operation.appareil, operation.enregistrement)
                              ELSE @]
  /\ UNCHANGED <<comptes, reclamations, descriptions, points>>

\* Mutant of PremiereDate: the last revocation received gives the date.
DerniereDate(tenue, recue) == recue

PremiereDate(tenue, recue) == IF tenue = Aucune THEN recue ELSE PlusTot(tenue, recue)

AppliquerAppareilRevoque(r, operation) ==
  LET d == operation.appareil IN
  /\ IF d \in DOMAIN appareils[r]
       THEN /\ appareils' = [appareils EXCEPT ![r][d].revoque =
                               PremiereDate(@, operation.le)]
            /\ points' = [points EXCEPT ![r] = Sans(@, {d})]
       ELSE UNCHANGED <<appareils, points>>
  /\ UNCHANGED <<comptes, reclamations, descriptions>>

AppliquerAppareilAtteste(r, operation) ==
  LET d == operation.appareil IN
  /\ appareils' = IF d \in DOMAIN appareils[r]
                    THEN [appareils EXCEPT ![r][d].prouve = TRUE] ELSE appareils
  /\ UNCHANGED <<comptes, reclamations, descriptions, points>>

\* The last one written, for a description and for a point.
Derniere(f, d, e) == IF d \in DOMAIN f /\ ~Avant(f[d], e) THEN f ELSE Poser(f, d, e)

AppliquerDescription(r, operation) ==
  LET d == operation.appareil IN
  /\ descriptions' = [descriptions EXCEPT ![r] =
       IF d \in DOMAIN appareils[r] THEN Derniere(@, d, operation.estampille) ELSE @]
  /\ UNCHANGED <<comptes, reclamations, appareils, points>>

AppliquerPoint(r, operation) ==
  LET d == operation.appareil IN
  /\ points' = [points EXCEPT ![r] =
       IF Joignable(r, d) THEN Derniere(@, d, operation.estampille) ELSE @]
  /\ UNCHANGED <<comptes, reclamations, appareils, descriptions>>

Appliquer(r, operation) ==
  \/ operation.quoi = "compte"      /\ AppliquerCompte(r, operation)
  \/ operation.quoi = "alias"       /\ AppliquerAlias(r, operation)
  \/ operation.quoi = "efface"      /\ AppliquerCompteEfface(r, operation)
  \/ operation.quoi = "appareil"    /\ AppliquerAppareil(r, operation)
  \/ operation.quoi = "revoque"     /\ AppliquerAppareilRevoque(r, operation)
  \/ operation.quoi = "atteste"     /\ AppliquerAppareilAtteste(r, operation)
  \/ operation.quoi = "description" /\ AppliquerDescription(r, operation)
  \/ operation.quoi = "point"       /\ AppliquerPoint(r, operation)
  \/ operation.quoi = "fin"         /\ UNCHANGED tables

Recevoir(r) ==
  /\ Retirer(r)
  /\ LET operation == Head(enRoute[r]) IN
       /\ Appliquer(r, operation)
       /\ surpris' = [surpris EXCEPT ![r] = @ \cup
            (IF operation.quoi = "efface" THEN {demande[r].compte} \cap {operation.compte}
                                          ELSE {})]
  /\ UNCHANGED <<demande, lentes>>

\* What a snapshot of q says of an account, and of a device.
DuCompte(q, c) ==
  LET compte == comptes[q][c] IN
  IF compte.efface # "non"
    THEN <<[quoi |-> "efface", estampille |-> compte.estampille, compte |-> c,
            cause |-> compte.efface]>>
    ELSE <<[quoi |-> "compte", estampille |-> compte.estampille, compte |-> c,
            enregistrement |-> compte],
           [quoi |-> "alias", estampille |-> compte.reclamation, compte |-> c,
            alias |-> compte.alias]>>

DeLAppareil(q, d) ==
  LET appareil == appareils[q][d] IN
  <<[quoi |-> "appareil", estampille |-> d, appareil |-> d,
     enregistrement |-> appareil]>>
  \o (IF Revoque(q, d)
        THEN <<[quoi |-> "revoque", estampille |-> appareil.revoque, appareil |-> d,
                le |-> appareil.revoque]>> ELSE <<>>)
  \o (IF appareil.prouve
        THEN <<[quoi |-> "atteste", estampille |-> d, appareil |-> d]>> ELSE <<>>)

\* Every table in turn, then the end frame.
Instantane(q) ==
  LET dits(f, quoi) == [i \in 1..Cardinality(DOMAIN f) |->
        LET d == SetToSeq(DOMAIN f)[i] IN
        [quoi |-> quoi, estampille |-> f[d], appareil |-> d]] IN
  FlattenSeq([i \in 1..Cardinality(DOMAIN comptes[q]) |->
                DuCompte(q, SetToSeq(DOMAIN comptes[q])[i])])
  \o FlattenSeq([i \in 1..Cardinality(DOMAIN appareils[q]) |->
                   DeLAppareil(q, SetToSeq(DOMAIN appareils[q])[i])])
  \o dits(descriptions[q], "description") \o dits(points[q], "point")

Amorcer(r) ==
  /\ lentes + amorcages < EcartsMax
  /\ AmorcerPar(r, Instantane(Pair[r]))
  /\ UNCHANGED <<tables, demande, surpris, lentes>>

-----------------------------------------------------------------------------
Demander(r) ==
  \E qui \in Demandeurs(r) :
    \/ CreerAppareil(r, qui) \/ ReclamerAlias(r, qui) \/ EffacerCompte(r, qui)
    \/ RevoquerAppareil(r, qui) \/ AttesterAppareil(r, qui)
    \/ PoserDescription(r, qui) \/ PoserPoint(r, qui)

Next ==
  \E r \in Racine :
    \/ Tarder(r) \/ Rendre(r) \/ CreerCompte(r) \/ Demander(r)
    \/ EffacerUnOrphelin(r) \/ Recevoir(r) \/ Amorcer(r)

Spec == Init /\ [][Next]_vars
-----------------------------------------------------------------------------
(* Properties.                                                             *)

TypeOK ==
  /\ compteur \in [Racine -> Nat] /\ amorcages \in Nat /\ lentes \in Nat
  /\ \A r \in Racine :
       /\ \A i \in DOMAIN enRoute[r] : enRoute[r][i] \in Operation
       /\ EstTable(comptes[r], Estampille, Compte)
       /\ reclamations[r] \subseteq
            [alias : Alias, estampille : Estampille, compte : Estampille]
       /\ EstTable(appareils[r], Estampille, Appareil)
       /\ EstTable(descriptions[r], Estampille, Estampille)
       /\ EstTable(points[r], Estampille, Estampille)
       /\ demande[r] \in [appareil : Estampille \cup {Aucune},
                          compte : Estampille \cup {Aucune}]
       /\ surpris[r] \subseteq Estampille

\* Nothing is on its way and no request is in hand.
ToutRecu == RienEnRoute /\ \A r \in Racine : demande[r] = Repos

SansSurprise == \A r \in Racine : surpris[r] = {}

\* Once everything is received, both roots hold the same accounts, aliases,
\* devices, descriptions and push points, whatever crossed on the way: claims of
\* one alias, erasures, revocations, attestations, snapshots (replication.md 3.2:
\* the result depends on the set of operations, not on their order).
RacinesDAccord ==
  ToutRecu /\ SansSurprise => \A r \in Racine :
    /\ comptes[r] = comptes[Pair[r]]
    /\ reclamations[r] = reclamations[Pair[r]]
    /\ appareils[r] = appareils[Pair[r]]
    /\ descriptions[r] = descriptions[Pair[r]]
    /\ points[r] = points[Pair[r]]

\* The index of aliases is what the rows say: no claim is left behind by an
\* account that changed or lost its alias, so that its former alias is free, and
\* none is missing.
AliasJuste ==
  \A r \in Racine :
    reclamations[r] = UNION {Reclamation(c, comptes[r][c]) : c \in DOMAIN comptes[r]}

\* Nothing of an erased account survives its erasure, nor comes back with an
\* operation of the peer or a snapshot (lib.rs 3875, effacer_dans), unless the
\* erasure came between the two transactions of a request.
RienNeSurvit ==
  \A r \in Racine :
    /\ \A d \in DOMAIN appareils[r] :
         Efface(r, appareils[r][d].proprietaire) =>
           appareils[r][d].proprietaire \in surpris[r]
    /\ surpris[r] = {} => DOMAIN descriptions[r] \subseteq DOMAIN appareils[r]

\* A push point is never kept for a device that is revoked or gone: no wake-up
\* goes to it (lib.rs 4393 and 4544).
PointsJustes ==
  \A r \in Racine : \A d \in DOMAIN points[r] :
    d \in DOMAIN appareils[r] /\ appareils[r][d].revoque = Aucune

\* Every row is one of its table, the index of aliases says what the rows say, and
\* no push point outlives its device (the three parts above).
TablesJustes == TypeOK /\ AliasJuste /\ PointsJustes

\* An erased account is erased for good, under the mark of its first erasure; a
\* revoked device is revoked for good, at the first date known, and an attested
\* one stays attested.
Irreversible ==
  [][\A r \in Racine :
       /\ \A c \in DOMAIN comptes[r] : Efface(r, c) =>
            /\ c \in DOMAIN comptes'[r] /\ comptes'[r][c].efface # "non"
            /\ ~Avant(comptes[r][c].estampille, comptes'[r][c].estampille)
       /\ \A d \in DOMAIN appareils[r] \cap DOMAIN appareils'[r] :
            /\ Revoque(r, d) =>
                 /\ appareils'[r][d].revoque # Aucune
                 /\ ~Avant(appareils[r][d].revoque, appareils'[r][d].revoque)
            /\ appareils[r][d].prouve => appareils'[r][d].prouve]_vars
=============================================================================
