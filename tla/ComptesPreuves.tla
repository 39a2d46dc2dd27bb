--------------------------- MODULE ComptesPreuves ---------------------------
(***************************************************************************)
(* Proofs about Comptes.tla: its tables, that nothing of an erased account *)
(* survives, that what is irreversible on a root is never taken back       *)
(* there, that two roots that received everything hold the same.           *)
(*                                                                         *)
(* The inductive invariant IInv bounds every stamp by the clock of the     *)
(* root that gave it (Emise): a stamp that a root gives next is then new   *)
(* in every table, in every request in hand and on every path.             *)
(*                                                                         *)
(* For convergence, Accord speaks of facts: what a table holds, what an    *)
(* operation says.  A root knows all that the other one holds or it is on  *)
(* its way, and the other one knows all that is on its way.                *)
(***************************************************************************)
EXTENDS Comptes, RepliquePreuves

-----------------------------------------------------------------------------
(* The rows and the operations, over the stamps that are given: none of     *)
(* them bears a stamp that a root has still to give.                        *)

\* Why an account was erased, seen from the peer.
Cause == {"titulaire", "orphelin"}

\* An erased account has released its alias.
CompteDe(E) ==
  {compte \in [estampille : E, alias : Alias \cup {SansAlias}, reclamation : E,
               efface : {"non"} \cup Cause] :
     compte.efface # "non" => compte.alias = SansAlias}

\* A device, revoked at a stamp or not.
AppareilDe(E) == [proprietaire : E, prouve : BOOLEAN, revoque : E \cup {Aucune}]

\* What travels: an account is journaled before it is erased.
OperationDe(E) ==
  [quoi : {"compte"}, estampille : E, compte : E,
   enregistrement : {compte \in CompteDe(E) : compte.efface = "non"}]
    \cup [quoi : {"alias"}, estampille : E, compte : E, alias : Alias \cup {SansAlias}]
    \cup [quoi : {"efface"}, estampille : E, compte : E, cause : Cause]
    \cup [quoi : {"appareil"}, estampille : E, appareil : E, enregistrement : AppareilDe(E)]
    \cup [quoi : {"revoque"}, estampille : E, appareil : E, le : E]
    \cup [quoi : {"atteste", "description", "point"}, estampille : E, appareil : E]
    \cup [quoi : {"fin"}, estampille : E]

Demandes(E) == [appareil : E \cup {Aucune}, compte : E] \cup {Repos}

\* The rows of a root.
Rangees(r, E) ==
  /\ TableDe(comptes[r], E, CompteDe(E))
  /\ TableDe(appareils[r], E, AppareilDe(E))
  /\ TableDe(descriptions[r], E, E)
  /\ TableDe(points[r], E, E)
  /\ demande[r] \in Demandes(E)
  /\ surpris[r] \subseteq E

\* The clocks and the paths.
Voies ==
  /\ compteur \in [Racine -> Nat] /\ amorcages \in Nat /\ lentes \in Nat
  /\ enRoute \in [Racine -> Seq(OperationDe(Emise))]

Racines ==
  /\ DOMAIN comptes = Racine /\ DOMAIN reclamations = Racine
  /\ DOMAIN appareils = Racine /\ DOMAIN descriptions = Racine
  /\ DOMAIN points = Racine /\ DOMAIN demande = Racine /\ DOMAIN surpris = Racine

\* The index of aliases is made of the claims of the rows.
AliasDe(r) ==
  reclamations[r] = UNION {Reclamation(c, comptes[r][c]) : c \in DOMAIN comptes[r]}

\* A push point is the one of a device that is there and not revoked.
PointsDe(r) ==
  \A d \in DOMAIN points[r] :
    d \in DOMAIN appareils[r] /\ appareils[r][d].revoque = Aucune

\* No device of an erased account, nor a description without its device, and what
\* a request in hand still believes, unless its account was erased meanwhile.
SurvieDe(r) ==
  /\ \A d \in DOMAIN appareils[r] :
       Efface(r, appareils[r][d].proprietaire) =>
         appareils[r][d].proprietaire \in surpris[r]
  /\ surpris[r] = {} => DOMAIN descriptions[r] \subseteq DOMAIN appareils[r]
  /\ demande[r] # Repos =>
       /\ Efface(r, demande[r].compte) => demande[r].compte \in surpris[r]
       /\ demande[r].appareil # Aucune /\ demande[r].compte \notin surpris[r] =>
            /\ demande[r].appareil \in DOMAIN appareils[r]
            /\ appareils[r][demande[r].appareil].proprietaire = demande[r].compte

Locale(r) == Rangees(r, Emise) /\ AliasDe(r) /\ PointsDe(r) /\ SurvieDe(r)

IInv == Voies /\ Racines /\ \A r \in Racine : Locale(r)

-----------------------------------------------------------------------------
(* Lemmas.                                                                 *)

\* A stamp that is given stays given: what is typed over fewer stamps is over more.
LEMMA Larges ==
  ASSUME NEW E, NEW F, E \subseteq F
  PROVE  /\ CompteDe(E) \subseteq CompteDe(F)
         /\ AppareilDe(E) \subseteq AppareilDe(F)
         /\ OperationDe(E) \subseteq OperationDe(F)
         /\ Demandes(E) \subseteq Demandes(F)
<1>1. CompteDe(E) \subseteq CompteDe(F) BY DEF CompteDe
<1>2. AppareilDe(E) \subseteq AppareilDe(F) BY DEF AppareilDe
<1>3. Demandes(E) \subseteq Demandes(F) BY DEF Demandes
<1>4. OperationDe(E) \subseteq OperationDe(F) BY <1>1, <1>2 DEF OperationDe
<1> QED BY <1>1, <1>2, <1>3, <1>4

LEMMA RangeesLarges ==
  ASSUME NEW r \in Racine, NEW E, NEW F, E \subseteq F, Rangees(r, E)
  PROVE  Rangees(r, F)
<1>1. TableDe(comptes[r], F, CompteDe(F)) BY Larges, TableLarge DEF Rangees
<1>2. TableDe(appareils[r], F, AppareilDe(F)) BY Larges, TableLarge DEF Rangees
<1>3. TableDe(descriptions[r], F, F) /\ TableDe(points[r], F, F)
  BY TableLarge DEF Rangees
<1> QED BY <1>1, <1>2, <1>3, Larges DEF Rangees

\* What a step of root r leaves alone.
Ailleurs(r) ==
  \A q \in Racine \ {r} :
    /\ comptes'[q] = comptes[q] /\ reclamations'[q] = reclamations[q]
    /\ appareils'[q] = appareils[q] /\ descriptions'[q] = descriptions[q]
    /\ points'[q] = points[q] /\ demande'[q] = demande[q] /\ surpris'[q] = surpris[q]

LEMMA ResteLocale ==
  ASSUME NEW q \in Racine, Locale(q), Emise \subseteq Emise',
         comptes'[q] = comptes[q], reclamations'[q] = reclamations[q],
         appareils'[q] = appareils[q], descriptions'[q] = descriptions[q],
         points'[q] = points[q], demande'[q] = demande[q], surpris'[q] = surpris[q]
  PROVE  Locale(q)'
<1>1. Rangees(q, Emise') BY RangeesLarges DEF Locale
<1>2. Rangees(q, Emise)' BY <1>1 DEF Rangees
<1>3. AliasDe(q)' BY DEF Locale, AliasDe
<1>4. PointsDe(q)' BY DEF Locale, PointsDe
<1>5. SurvieDe(q)' BY DEF Locale, SurvieDe, Efface
<1> QED BY <1>2, <1>3, <1>4, <1>5 DEF Locale

LEMMA Pas ==
  ASSUME IInv, NEW r \in Racine, Emise \subseteq Emise', Voies', Racines', Ailleurs(r),
         Locale(r)'
  PROVE  IInv'
<1>1. ASSUME NEW q \in Racine PROVE Locale(q)'
  <2>1. CASE q = r BY <2>1
  <2>2. CASE q # r
    <3>1. q \in Racine \ {r} BY <2>2
    <3> QED BY <3>1, ResteLocale DEF IInv, Ailleurs
  <2> QED BY <2>1, <2>2
<1> QED BY <1>1 DEF IInv

\* The clock and the queue after an operation is written.
LEMMA Estampillee ==
  ASSUME IInv, NEW r \in Racine, NEW operation, Journaliser(r, operation)
  PROVE  /\ compteur' \in [Racine -> Nat]
         /\ Emise \subseteq Emise'
         /\ Suivante(r) \in Emise' /\ Suivante(r) \notin Emise
         /\ amorcages' = amorcages
<1>1. Len(<<operation>>) = 1 OBVIOUS
<1>2. compteur' = [compteur EXCEPT ![r] = @ + 1] /\ amorcages' = amorcages
  BY <1>1 DEF Journaliser, JournaliserTout
<1> QED BY <1>2, SuivanteNeuve DEF IInv, Voies

LEMMA VoiesEcrites ==
  ASSUME IInv, NEW r \in Racine, NEW operation \in OperationDe(Emise'),
         Journaliser(r, operation), lentes' \in Nat
  PROVE  Voies'
<1>1. /\ compteur' \in [Racine -> Nat] /\ Emise \subseteq Emise'
      /\ amorcages' = amorcages
  BY Estampillee
<1>2. OperationDe(Emise) \subseteq OperationDe(Emise') BY <1>1, Larges
<1> DEFINE T == OperationDe(Emise')
<1>3. enRoute \in [Racine -> Seq(T)] BY <1>2 DEF IInv, Voies
<1>4. <<operation>> \in Seq(T) OBVIOUS
<1>5. compteur \in [Racine -> Nat] /\ amorcages \in Nat BY DEF IInv, Voies
<1>6. JournaliserTout(r, <<operation>>) BY DEF Journaliser
<1> HIDE DEF T
<1>7. enRoute' \in [Racine -> Seq(T)] BY <1>3, <1>4, <1>5, <1>6, Journalisee
<1>8. (enRoute \in [Racine -> Seq(OperationDe(Emise))])' BY <1>7 DEF T
<1> QED BY <1>1, <1>5, <1>8 DEF Voies

\* A row and its claim.
LEMMA Rangee ==
  ASSUME NEW r \in Racine, Locale(r), Racines, Emise \subseteq Emise', NEW c \in Emise',
         NEW compte \in CompteDe(Emise'), NEW partie, Ranger(r, c, compte, partie),
         \/ partie = Tenue(r, c)
         \/ partie = {} /\ c \notin DOMAIN comptes[r]
  PROVE  /\ TableDe(comptes'[r], Emise', CompteDe(Emise'))
         /\ AliasDe(r)'
         /\ DOMAIN comptes'[r] = DOMAIN comptes[r] \cup {c} /\ comptes'[r][c] = compte
         /\ \A k \in DOMAIN comptes[r] : k # c => comptes'[r][k] = comptes[r][k]
         /\ DOMAIN comptes' = Racine /\ DOMAIN reclamations' = Racine
         /\ \A q \in Racine \ {r} :
              comptes'[q] = comptes[q] /\ reclamations'[q] = reclamations[q]
<1>1. /\ comptes'[r] = Poser(comptes[r], c, compte)
      /\ reclamations'[r] = (reclamations[r] \ partie) \cup Reclamation(c, compte)
      /\ DOMAIN comptes' = Racine /\ DOMAIN reclamations' = Racine
      /\ \A q \in Racine \ {r} :
           comptes'[q] = comptes[q] /\ reclamations'[q] = reclamations[q]
  BY DEF Ranger, Racines
<1>2. Rangees(r, Emise') BY RangeesLarges DEF Locale
<1>3. TableDe(comptes'[r], Emise', CompteDe(Emise')) BY <1>1, <1>2, PoseeTable DEF Rangees
<1>4. /\ DOMAIN comptes'[r] = DOMAIN comptes[r] \cup {c} /\ comptes'[r][c] = compte
      /\ \A k \in DOMAIN comptes[r] : k # c => comptes'[r][k] = comptes[r][k]
  BY <1>1 DEF Poser
<1>5. partie = Tenue(r, c) BY DEF Tenue
<1>6. AliasDe(r)'
  <2>1. \A k \in DOMAIN comptes[r] : \A a \in Reclamation(k, comptes[r][k]) :
          a.compte = k
    BY DEF Reclamation
  <2>2. \A a : a \in reclamations[r] <=>
          \E k \in DOMAIN comptes[r] : a \in Reclamation(k, comptes[r][k])
    BY DEF Locale, AliasDe
  <2>3. \A a : a \in reclamations[r] \ partie <=>
          \E k \in DOMAIN comptes[r] : k # c /\ a \in Reclamation(k, comptes[r][k])
    <3>1. CASE c \in DOMAIN comptes[r]
      <4>1. partie = Reclamation(c, comptes[r][c]) BY <1>5, <3>1 DEF Tenue
      <4> QED BY <4>1, <2>1, <2>2, <3>1
    <3>2. CASE c \notin DOMAIN comptes[r]
      <4>1. partie = {} BY <1>5, <3>2 DEF Tenue
      <4> QED BY <4>1, <2>2, <3>2
    <3> QED BY <3>1, <3>2
  <2>4. \A a : a \in reclamations'[r] <=>
          \E k \in DOMAIN comptes'[r] : a \in Reclamation(k, comptes'[r][k])
    BY <2>3, <1>1, <1>4
  <2> QED BY <2>4 DEF AliasDe
<1> QED BY <1>1, <1>3, <1>4, <1>6

\* The tables that an erasure leaves.
LEMMA Effacee ==
  ASSUME NEW r \in Racine, Locale(r), Racines, Emise \subseteq Emise', NEW c \in Emise',
         NEW e \in Emise', NEW cause \in Cause, EffacerDans(r, c, cause, e)
  PROVE  /\ TableDe(comptes'[r], Emise', CompteDe(Emise'))
         /\ TableDe(appareils'[r], Emise', AppareilDe(Emise'))
         /\ TableDe(descriptions'[r], Emise', Emise')
         /\ TableDe(points'[r], Emise', Emise')
         /\ AliasDe(r)' /\ PointsDe(r)'
         /\ DOMAIN appareils'[r] =
              {d \in DOMAIN appareils[r] : appareils[r][d].proprietaire # c}
         /\ \A d \in DOMAIN appareils'[r] : appareils'[r][d] = appareils[r][d]
         /\ \A k : Efface(r, k)' =>
              k \in surpris[r] \/ \A d \in DOMAIN appareils'[r] :
                                    appareils'[r][d].proprietaire # k
         /\ surpris[r] = {} => DOMAIN descriptions'[r] \subseteq DOMAIN appareils'[r]
         /\ \A k : k # c => (Efface(r, k)' <=> Efface(r, k))
         /\ DOMAIN comptes' = Racine /\ DOMAIN reclamations' = Racine
         /\ DOMAIN appareils' = Racine /\ DOMAIN descriptions' = Racine
         /\ DOMAIN points' = Racine
         /\ \A q \in Racine \ {r} :
              /\ comptes'[q] = comptes[q] /\ reclamations'[q] = reclamations[q]
              /\ appareils'[q] = appareils[q] /\ descriptions'[q] = descriptions[q]
              /\ points'[q] = points[q]
<1> DEFINE X == Possede(r, c)
           compte == [estampille |-> e, alias |-> SansAlias, reclamation |-> e,
                      efface |-> cause]
<1>1. /\ appareils'[r] = Sans(appareils[r], X)
      /\ descriptions'[r] = Sans(descriptions[r], X)
      /\ points'[r] = Sans(points[r], X)
      /\ DOMAIN appareils' = Racine /\ DOMAIN descriptions' = Racine
      /\ DOMAIN points' = Racine
      /\ \A q \in Racine \ {r} :
           /\ appareils'[q] = appareils[q] /\ descriptions'[q] = descriptions[q]
           /\ points'[q] = points[q]
  BY DEF EffacerDans, Racines
<1>2. Rangees(r, Emise') BY RangeesLarges DEF Locale
<1>3. /\ TableDe(appareils'[r], Emise', AppareilDe(Emise'))
      /\ TableDe(descriptions'[r], Emise', Emise')
      /\ TableDe(points'[r], Emise', Emise')
  BY <1>1, <1>2, RestreinteTable DEF Rangees
<1>4. compte \in CompteDe(Emise') BY DEF CompteDe, Cause
<1>5. /\ TableDe(comptes'[r], Emise', CompteDe(Emise')) /\ AliasDe(r)'
      /\ DOMAIN comptes'[r] = DOMAIN comptes[r] \cup {c}
      /\ \A k \in DOMAIN comptes[r] : k # c => comptes'[r][k] = comptes[r][k]
      /\ DOMAIN comptes' = Racine /\ DOMAIN reclamations' = Racine
      /\ \A q \in Racine \ {r} :
           comptes'[q] = comptes[q] /\ reclamations'[q] = reclamations[q]
  <2>1. Ranger(r, c, compte, Tenue(r, c)) BY DEF EffacerDans
  <2> HIDE DEF compte
  <2> QED BY <2>1, <1>4, Rangee
<1>6. /\ DOMAIN appareils'[r] =
           {d \in DOMAIN appareils[r] : appareils[r][d].proprietaire # c}
      /\ \A d \in DOMAIN appareils'[r] : appareils'[r][d] = appareils[r][d]
  BY <1>1 DEF Sans, Possede
<1>7. /\ DOMAIN descriptions'[r] = DOMAIN descriptions[r] \ X
      /\ DOMAIN points'[r] = DOMAIN points[r] \ X
      /\ DOMAIN appareils'[r] = DOMAIN appareils[r] \ X
  BY <1>1 DEF Sans
<1>8. PointsDe(r)'
  <2>1. \A d \in DOMAIN points[r] :
          d \in DOMAIN appareils[r] /\ appareils[r][d].revoque = Aucune
    BY DEF Locale, PointsDe
  <2>2. ASSUME NEW d \in DOMAIN points'[r]
        PROVE  d \in DOMAIN appareils'[r] /\ appareils'[r][d].revoque = Aucune
    <3> HIDE DEF X
    <3> QED BY <2>1, <1>6, <1>7
  <2> QED BY <2>2 DEF PointsDe
<1>9. \A k : k # c => (Efface(r, k)' <=> Efface(r, k)) BY <1>5 DEF Efface
<1>10. \A k : Efface(r, k)' =>
         k \in surpris[r] \/ \A d \in DOMAIN appareils'[r] :
                               appareils'[r][d].proprietaire # k
  <2> SUFFICES ASSUME NEW k, Efface(r, k)', NEW d \in DOMAIN appareils'[r],
                      appareils'[r][d].proprietaire = k
               PROVE  k \in surpris[r]
    OBVIOUS
  <2>1. d \in DOMAIN appareils[r] /\ appareils[r][d].proprietaire = k /\ k # c
    BY <1>6
  <2>2. Efface(r, k) BY <2>1, <1>5 DEF Efface
  <2> QED BY <2>1, <2>2 DEF Locale, SurvieDe
<1>11. surpris[r] = {} => DOMAIN descriptions'[r] \subseteq DOMAIN appareils'[r]
  <2> HIDE DEF X
  <2> QED BY <1>7 DEF Locale, SurvieDe
<1> QED BY <1>1, <1>3, <1>5, <1>6, <1>8, <1>9, <1>10, <1>11

\* Who a transaction is for.
LEMMA Demandeur ==
  ASSUME NEW r \in Racine, Locale(r), NEW qui \in Demandeurs(r)
  PROVE  /\ qui.compte \in Emise /\ qui.appareil \in Emise \cup {Aucune}
         /\ Efface(r, qui.compte) => qui.compte \in surpris[r]
         /\ qui.appareil # Aucune /\ qui.compte \notin surpris[r] =>
              /\ qui.appareil \in DOMAIN appareils[r]
              /\ appareils[r][qui.appareil].proprietaire = qui.compte
<1>1. CASE demande[r] = Repos
  <2>1. PICK d \in DOMAIN appareils[r] :
          qui = [appareil |-> d, compte |-> appareils[r][d].proprietaire]
    BY <1>1 DEF Demandeurs, Identifies
  <2>2. d \in Emise /\ appareils[r][d].proprietaire \in Emise
    BY DEF Locale, Rangees, TableDe, AppareilDe
  <2> QED BY <2>1, <2>2 DEF Locale, SurvieDe
<1>2. CASE demande[r] # Repos
  <2>1. qui = demande[r] BY <1>2 DEF Demandeurs
  <2>2. qui.compte \in Emise /\ qui.appareil \in Emise \cup {Aucune}
    BY <2>1, <1>2 DEF Locale, Rangees, Demandes
  <2> QED BY <2>1, <2>2, <1>2 DEF Locale, SurvieDe
<1> QED BY <1>1, <1>2

-----------------------------------------------------------------------------
(* What the loop writes.                                                   *)

LEMMA PasTarder ==
  ASSUME IInv, NEW r \in Racine, Tarder(r)
  PROVE  IInv'
<1>1. PICK qui \in Identifies(r) : demande' = [demande EXCEPT ![r] = qui]
  BY DEF Tarder
<1>2. /\ UNCHANGED <<voie, tables, surpris>> /\ demande[r] = Repos /\ lentes' = lentes + 1
  BY DEF Tarder
<1>3. Emise' = Emise BY <1>2 DEF voie, Emise
<1>4. Voies' BY <1>2, <1>3 DEF IInv, Voies, voie
<1>5. Racines' /\ Ailleurs(r) /\ demande'[r] = qui
  BY <1>1, <1>2 DEF IInv, Racines, Ailleurs, tables
<1>6. qui \in Demandeurs(r) BY <1>2 DEF Demandeurs
<1>7. Locale(r) BY DEF IInv
<1>8. /\ qui.compte \in Emise /\ qui.appareil \in Emise
      /\ qui = [appareil |-> qui.appareil, compte |-> qui.compte]
  BY <1>7 DEF Identifies, Locale, Rangees, TableDe, AppareilDe
<1>9. Rangees(r, Emise)' BY <1>2, <1>3, <1>5, <1>7, <1>8 DEF Locale, Rangees, Demandes, tables
<1>10. AliasDe(r)' /\ PointsDe(r)' BY <1>2, <1>7 DEF Locale, AliasDe, PointsDe, tables
<1>11. SurvieDe(r)'
  <2>1. /\ Efface(r, qui.compte) => qui.compte \in surpris[r]
        /\ qui.appareil # Aucune /\ qui.compte \notin surpris[r] =>
              /\ qui.appareil \in DOMAIN appareils[r]
              /\ appareils[r][qui.appareil].proprietaire = qui.compte
    BY <1>6, <1>7, Demandeur
  <2> QED BY <2>1, <1>2, <1>5, <1>7 DEF Locale, SurvieDe, Efface, tables
<1> QED BY <1>3, <1>4, <1>5, <1>9, <1>10, <1>11, Pas DEF Locale

LEMMA PasRendre ==
  ASSUME IInv, NEW r \in Racine, Rendre(r)
  PROVE  IInv'
<1>1. /\ UNCHANGED <<voie, tables, surpris>> /\ lentes' = lentes
      /\ demande' = [demande EXCEPT ![r] = Repos]
  BY DEF Rendre, Rendue
<1>2. Emise' = Emise BY <1>1 DEF voie, Emise
<1>3. Voies' BY <1>1, <1>2 DEF IInv, Voies, voie
<1>4. Racines' /\ Ailleurs(r) /\ demande'[r] = Repos
  BY <1>1 DEF IInv, Racines, Ailleurs, tables
<1>5. Locale(r) BY DEF IInv
<1>6. Rangees(r, Emise)' BY <1>1, <1>2, <1>4, <1>5 DEF Locale, Rangees, Demandes, tables
<1>7. AliasDe(r)' /\ PointsDe(r)' BY <1>1, <1>5 DEF Locale, AliasDe, PointsDe, tables
<1>8. SurvieDe(r)' BY <1>1, <1>4, <1>5 DEF Locale, SurvieDe, Efface, tables
<1> QED BY <1>2, <1>3, <1>4, <1>6, <1>7, <1>8, Pas DEF Locale

LEMMA PasCreerCompte ==
  ASSUME IInv, NEW r \in Racine, CreerCompte(r)
  PROVE  IInv'
<1> DEFINE e == Suivante(r)
           compte == [estampille |-> e, alias |-> SansAlias, reclamation |-> e,
                      efface |-> "non"]
           operation == [quoi |-> "compte", estampille |-> e, compte |-> e,
                         enregistrement |-> compte]
<1>1. /\ Ranger(r, e, compte, {}) /\ Journaliser(r, operation)
      /\ demande' = [demande EXCEPT ![r] = [appareil |-> Aucune, compte |-> e]]
      /\ UNCHANGED <<appareils, descriptions, points, surpris, lentes>>
  BY DEF CreerCompte
<1>2. Emise \subseteq Emise' /\ e \in Emise' /\ e \notin Emise
  <2> HIDE DEF operation
  <2> QED BY <1>1, Estampillee
<1>3. Locale(r) /\ Racines /\ Voies BY DEF IInv
<1> HIDE DEF e
<1>4. compte \in CompteDe(Emise') /\ compte.efface = "non" BY <1>2 DEF CompteDe
<1>5. operation \in OperationDe(Emise')
  <2> HIDE DEF compte
  <2> QED BY <1>2, <1>4 DEF OperationDe
<1>6. Voies'
  <2> HIDE DEF operation
  <2> QED BY <1>1, <1>3, <1>5, VoiesEcrites DEF Voies
<1>7. e \notin DOMAIN comptes[r] BY <1>2, <1>3 DEF Locale, Rangees, TableDe
<1>8. /\ TableDe(comptes'[r], Emise', CompteDe(Emise')) /\ AliasDe(r)'
      /\ DOMAIN comptes'[r] = DOMAIN comptes[r] \cup {e} /\ comptes'[r][e] = compte
      /\ \A k \in DOMAIN comptes[r] : k # e => comptes'[r][k] = comptes[r][k]
      /\ DOMAIN comptes' = Racine /\ DOMAIN reclamations' = Racine
      /\ \A q \in Racine \ {r} :
           comptes'[q] = comptes[q] /\ reclamations'[q] = reclamations[q]
  <2> HIDE DEF compte
  <2> QED BY <1>1, <1>2, <1>3, <1>4, <1>7, Rangee
<1>9. Racines' /\ Ailleurs(r) /\ demande'[r] = [appareil |-> Aucune, compte |-> e]
  BY <1>1, <1>3, <1>8 DEF Racines, Ailleurs
<1>10. Rangees(r, Emise)'
  <2>1. Rangees(r, Emise') BY <1>2, <1>3, RangeesLarges DEF Locale
  <2> QED BY <2>1, <1>1, <1>2, <1>8, <1>9 DEF Rangees, Demandes
<1>11. PointsDe(r)' BY <1>1, <1>3 DEF Locale, PointsDe
<1>12. SurvieDe(r)'
  <2>1. \A k : Efface(r, k)' => Efface(r, k) BY <1>7, <1>8 DEF Efface
  <2>2. \A k : k = e => ~ Efface(r, k)' BY <1>8 DEF Efface
  <2> QED BY <2>1, <2>2, <1>1, <1>3, <1>9 DEF Locale, SurvieDe
<1> QED BY <1>2, <1>6, <1>8, <1>9, <1>10, <1>11, <1>12, Pas DEF Locale

\* Accounts and their aliases are not touched.
LEMMA MemesComptes ==
  ASSUME NEW r \in Racine, Locale(r), Emise \subseteq Emise', UNCHANGED <<comptes, reclamations>>
  PROVE  /\ TableDe(comptes'[r], Emise', CompteDe(Emise')) /\ AliasDe(r)'
         /\ \A k : Efface(r, k)' <=> Efface(r, k)
<1>1. Rangees(r, Emise') BY RangeesLarges DEF Locale
<1> QED BY <1>1 DEF Rangees, Locale, AliasDe, Efface

\* Once the request is answered, only what is written is left to look at.
LEMMA PasRendu ==
  ASSUME IInv, NEW r \in Racine, NEW operation \in OperationDe(Emise'),
         Journaliser(r, operation), Rendue(r), UNCHANGED surpris,
         Racines', Ailleurs(r), AliasDe(r)', PointsDe(r)',
         TableDe(comptes'[r], Emise', CompteDe(Emise')),
         TableDe(appareils'[r], Emise', AppareilDe(Emise')),
         TableDe(descriptions'[r], Emise', Emise'),
         TableDe(points'[r], Emise', Emise'),
         \A k : Efface(r, k)' => k \in surpris[r] \/ \A d \in DOMAIN appareils'[r] :
                                                       appareils'[r][d].proprietaire # k,
         surpris[r] = {} => DOMAIN descriptions'[r] \subseteq DOMAIN appareils'[r]
  PROVE  IInv'
<1>1. Emise \subseteq Emise' BY Estampillee
<1>2. Voies' BY VoiesEcrites DEF IInv, Voies, Rendue
<1>3. demande'[r] = Repos BY DEF Rendue, IInv, Racines
<1>4. Rangees(r, Emise)'
  <2>1. Rangees(r, Emise') BY <1>1, RangeesLarges DEF Locale, IInv
  <2> QED BY <2>1, <1>3 DEF Rangees, Demandes
<1>5. SurvieDe(r)' BY <1>3 DEF SurvieDe
<1> QED BY <1>1, <1>2, <1>4, <1>5, Pas DEF Locale

LEMMA PasCreerAppareil ==
  ASSUME IInv, NEW r \in Racine, NEW qui \in Demandeurs(r), CreerAppareil(r, qui)
  PROVE  IInv'
<1> DEFINE e == Suivante(r)
           appareil == [proprietaire |-> qui.compte, prouve |-> FALSE, revoque |-> Aucune]
           operation == [quoi |-> "appareil", estampille |-> e, appareil |-> e,
                         enregistrement |-> appareil]
<1>1. /\ appareils' = [appareils EXCEPT ![r] = Poser(@, e, appareil)]
      /\ Journaliser(r, operation) /\ Rendue(r)
      /\ UNCHANGED <<comptes, reclamations, descriptions, points, surpris>>
  BY DEF CreerAppareil
<1>2. Emise \subseteq Emise' /\ e \in Emise' /\ e \notin Emise
  <2> HIDE DEF operation
  <2> QED BY <1>1, Estampillee
<1>3. Locale(r) /\ Racines /\ Voies BY DEF IInv
<1> HIDE DEF e
<1>4. qui.compte \in Emise /\ (Efface(r, qui.compte) => qui.compte \in surpris[r])
  BY <1>3, Demandeur
<1>5. appareil \in AppareilDe(Emise') BY <1>2, <1>4 DEF AppareilDe
<1>6. operation \in OperationDe(Emise')
  <2> HIDE DEF appareil
  <2> QED BY <1>2, <1>5 DEF OperationDe
<1>7. Rangees(r, Emise') BY <1>2, <1>3, RangeesLarges DEF Locale
<1>8. e \notin DOMAIN appareils[r] BY <1>2, <1>3 DEF Locale, Rangees, TableDe
<1>9. /\ appareils'[r] = Poser(appareils[r], e, appareil) /\ DOMAIN appareils' = Racine
      /\ \A q \in Racine \ {r} : appareils'[q] = appareils[q]
  BY <1>1, <1>3 DEF Racines
<1>10. /\ DOMAIN appareils'[r] = DOMAIN appareils[r] \cup {e}
       /\ appareils'[r][e] = appareil
       /\ \A d \in DOMAIN appareils[r] : appareils'[r][d] = appareils[r][d]
  BY <1>8, <1>9 DEF Poser
<1>11. TableDe(appareils'[r], Emise', AppareilDe(Emise'))
  <2> HIDE DEF appareil
  <2> QED BY <1>2, <1>5, <1>7, <1>9, PoseeTable DEF Rangees
<1>12. Racines' /\ Ailleurs(r) BY <1>1, <1>3, <1>9 DEF Racines, Ailleurs, Rendue
<1>13. /\ TableDe(comptes'[r], Emise', CompteDe(Emise')) /\ AliasDe(r)'
       /\ \A k : Efface(r, k)' <=> Efface(r, k)
  BY <1>1, <1>2, <1>3, MemesComptes
<1>14. PointsDe(r)' BY <1>1, <1>3, <1>10 DEF Locale, PointsDe
<1>15. TableDe(descriptions'[r], Emise', Emise') /\ TableDe(points'[r], Emise', Emise')
  BY <1>1, <1>7 DEF Rangees
<1>16. \A k : Efface(r, k)' => k \in surpris[r] \/ \A d \in DOMAIN appareils'[r] :
                                                     appareils'[r][d].proprietaire # k
  BY <1>3, <1>4, <1>10, <1>13 DEF Locale, SurvieDe
<1>17. surpris[r] = {} => DOMAIN descriptions'[r] \subseteq DOMAIN appareils'[r]
  BY <1>1, <1>3, <1>10 DEF Locale, SurvieDe
<1> HIDE DEF operation, appareil
<1> QED BY <1>1, <1>6, <1>11, <1>12, <1>13, <1>14, <1>15, <1>16, <1>17, PasRendu

LEMMA PasReclamerAlias ==
  ASSUME IInv, NEW r \in Racine, NEW qui \in Demandeurs(r), ReclamerAlias(r, qui)
  PROVE  IInv'
<1> DEFINE e == Suivante(r)
           c == qui.compte
<1>1. PICK x \in Alias \cup {SansAlias} :
        /\ Ranger(r, c, [comptes[r][c] EXCEPT !.estampille = e, !.alias = x,
                                              !.reclamation = e], Tenue(r, c))
        /\ Journaliser(r, [quoi |-> "alias", estampille |-> e, compte |-> c, alias |-> x])
  BY DEF ReclamerAlias
<1>2. /\ c \in DOMAIN comptes[r] /\ ~Efface(r, c) /\ Rendue(r)
      /\ UNCHANGED <<appareils, descriptions, points, surpris>>
  BY DEF ReclamerAlias
<1>3. Locale(r) /\ Racines /\ Voies BY DEF IInv
<1> DEFINE compte == [comptes[r][c] EXCEPT !.estampille = e, !.alias = x, !.reclamation = e]
           operation == [quoi |-> "alias", estampille |-> e, compte |-> c, alias |-> x]
<1>4. Ranger(r, c, compte, Tenue(r, c)) /\ Journaliser(r, operation) BY <1>1
<1>5. Emise \subseteq Emise' /\ e \in Emise'
  <2> HIDE DEF operation
  <2> QED BY <1>4, Estampillee
<1>6. c \in Emise' BY <1>2, <1>3, <1>5 DEF Locale, Rangees, TableDe
<1> HIDE DEF e, c
<1>7. compte \in CompteDe(Emise') /\ compte.efface = "non"
  <2>1. comptes[r][c] \in CompteDe(Emise) /\ comptes[r][c].efface = "non"
    BY <1>2, <1>3 DEF Locale, Rangees, TableDe, Efface
  <2> QED BY <2>1, <1>5 DEF CompteDe
<1>8. operation \in OperationDe(Emise') BY <1>5, <1>6 DEF OperationDe
<1> HIDE DEF compte, operation
<1>9. /\ TableDe(comptes'[r], Emise', CompteDe(Emise')) /\ AliasDe(r)'
      /\ DOMAIN comptes'[r] = DOMAIN comptes[r] \cup {c} /\ comptes'[r][c] = compte
      /\ \A k \in DOMAIN comptes[r] : k # c => comptes'[r][k] = comptes[r][k]
      /\ DOMAIN comptes' = Racine /\ DOMAIN reclamations' = Racine
      /\ \A q \in Racine \ {r} :
           comptes'[q] = comptes[q] /\ reclamations'[q] = reclamations[q]
  BY <1>3, <1>4, <1>5, <1>6, <1>7, Rangee
<1>10. Racines' /\ Ailleurs(r) BY <1>2, <1>3, <1>9 DEF Racines, Ailleurs, Rendue
<1>11. \A k : Efface(r, k)' <=> Efface(r, k) BY <1>2, <1>7, <1>9 DEF Efface
<1>12. Rangees(r, Emise') BY <1>3, <1>5, RangeesLarges DEF Locale
<1>13. /\ TableDe(appareils'[r], Emise', AppareilDe(Emise'))
       /\ TableDe(descriptions'[r], Emise', Emise') /\ TableDe(points'[r], Emise', Emise')
  BY <1>2, <1>12 DEF Rangees
<1>14. PointsDe(r)' BY <1>2, <1>3 DEF Locale, PointsDe
<1>15. \A k : Efface(r, k)' => k \in surpris[r] \/ \A d \in DOMAIN appareils'[r] :
                                                     appareils'[r][d].proprietaire # k
  BY <1>2, <1>3, <1>11 DEF Locale, SurvieDe
<1>16. surpris[r] = {} => DOMAIN descriptions'[r] \subseteq DOMAIN appareils'[r]
  BY <1>2, <1>3 DEF Locale, SurvieDe
<1> QED BY <1>2, <1>4, <1>8, <1>9, <1>10, <1>13, <1>14, <1>15, <1>16, PasRendu

\* An erasure decided here, of an account that is there.
LEMMA Effacement ==
  ASSUME IInv, NEW r \in Racine, NEW c, NEW cause \in Cause, Effacer(r, c, cause),
         demande'[r] = Repos, DOMAIN demande' = Racine, UNCHANGED lentes,
         \A q \in Racine \ {r} : demande'[q] = demande[q]
  PROVE  IInv'
<1> DEFINE e == Suivante(r)
           operation == [quoi |-> "efface", estampille |-> e, compte |-> c, cause |-> cause]
<1>1. /\ c \in DOMAIN comptes[r] /\ UNCHANGED surpris
      /\ EffacerDans(r, c, cause, e) /\ Journaliser(r, operation)
  BY DEF Effacer
<1>2. Emise \subseteq Emise' /\ e \in Emise'
  <2> HIDE DEF operation
  <2> QED BY <1>1, Estampillee
<1>3. Locale(r) /\ Racines /\ Voies BY DEF IInv
<1>4. c \in Emise' BY <1>1, <1>2, <1>3 DEF Locale, Rangees, TableDe
<1>5. operation \in OperationDe(Emise')
  <2> HIDE DEF e
  <2> QED BY <1>2, <1>4 DEF OperationDe, Cause
<1>6. Voies'
  <2> HIDE DEF operation
  <2> QED BY <1>1, <1>3, <1>5, VoiesEcrites DEF Voies
<1> HIDE DEF e, operation
<1>7. /\ TableDe(comptes'[r], Emise', CompteDe(Emise'))
      /\ TableDe(appareils'[r], Emise', AppareilDe(Emise'))
      /\ TableDe(descriptions'[r], Emise', Emise')
      /\ TableDe(points'[r], Emise', Emise')
      /\ AliasDe(r)' /\ PointsDe(r)'
  BY <1>1, <1>2, <1>3, <1>4, Effacee
<1>8. /\ \A k : Efface(r, k)' =>
           k \in surpris[r] \/ \A d \in DOMAIN appareils'[r] :
                                 appareils'[r][d].proprietaire # k
      /\ surpris[r] = {} => DOMAIN descriptions'[r] \subseteq DOMAIN appareils'[r]
  BY <1>1, <1>2, <1>3, <1>4, Effacee
<1>9. Racines' /\ Ailleurs(r)
  BY <1>1, <1>2, <1>3, <1>4, Effacee DEF Racines, Ailleurs
<1>10. Rangees(r, Emise)'
  <2>1. Rangees(r, Emise') BY <1>2, <1>3, RangeesLarges DEF Locale
  <2> QED BY <2>1, <1>1, <1>7 DEF Rangees, Demandes
<1>11. SurvieDe(r)' BY <1>1, <1>8 DEF SurvieDe
<1> QED BY <1>2, <1>6, <1>7, <1>9, <1>10, <1>11, Pas DEF Locale

LEMMA PasEffacerCompte ==
  ASSUME IInv, NEW r \in Racine, NEW qui \in Demandeurs(r), EffacerCompte(r, qui)
  PROVE  IInv'
<1>1. Effacer(r, qui.compte, "titulaire") /\ Rendue(r) /\ "titulaire" \in Cause
  BY DEF EffacerCompte, Cause
<1>2. DOMAIN demande = Racine BY DEF IInv, Racines
<1> QED BY <1>1, <1>2, Effacement DEF Rendue

LEMMA PasEffacerUnOrphelin ==
  ASSUME IInv, NEW r \in Racine, EffacerUnOrphelin(r)
  PROVE  IInv'
<1>1. PICK c \in DOMAIN comptes[r] : Effacer(r, c, "orphelin") BY DEF EffacerUnOrphelin
<1>2. "orphelin" \in Cause BY DEF Cause
<1>3. demande[r] = Repos /\ UNCHANGED <<demande, lentes>> BY DEF EffacerUnOrphelin
<1>4. DOMAIN demande = Racine BY DEF IInv, Racines
<1> QED BY <1>1, <1>2, <1>3, <1>4, Effacement

\* The row of a device changes, its owner does not.
LEMMA Retouchee ==
  ASSUME NEW r \in Racine, Locale(r), Racines, Emise \subseteq Emise',
         NEW d \in DOMAIN appareils[r], NEW appareil \in AppareilDe(Emise'),
         appareil.proprietaire = appareils[r][d].proprietaire,
         appareils' = [appareils EXCEPT ![r] = [@ EXCEPT ![d] = appareil]]
  PROVE  /\ TableDe(appareils'[r], Emise', AppareilDe(Emise'))
         /\ DOMAIN appareils'[r] = DOMAIN appareils[r]
         /\ appareils'[r][d] = appareil
         /\ \A x \in DOMAIN appareils[r] :
              /\ x # d => appareils'[r][x] = appareils[r][x]
              /\ appareils'[r][x].proprietaire = appareils[r][x].proprietaire
         /\ DOMAIN appareils' = Racine
         /\ \A q \in Racine \ {r} : appareils'[q] = appareils[q]
<1>1. /\ appareils'[r] = [appareils[r] EXCEPT ![d] = appareil]
      /\ DOMAIN appareils' = Racine
      /\ \A q \in Racine \ {r} : appareils'[q] = appareils[q]
  BY DEF Racines
<1>2. Rangees(r, Emise') BY RangeesLarges DEF Locale
<1>3. TableDe(appareils'[r], Emise', AppareilDe(Emise'))
  BY <1>1, <1>2, ChangeeTable DEF Rangees
<1>4. /\ DOMAIN appareils'[r] = DOMAIN appareils[r]
      /\ appareils'[r][d] = appareil
      /\ \A x \in DOMAIN appareils[r] : x # d => appareils'[r][x] = appareils[r][x]
  BY <1>1
<1> QED BY <1>1, <1>3, <1>4

LEMMA PasRevoquerAppareil ==
  ASSUME IInv, NEW r \in Racine, NEW qui \in Demandeurs(r), RevoquerAppareil(r, qui)
  PROVE  IInv'
<1> DEFINE e == Suivante(r)
<1>1. PICK d \in Possede(r, qui.compte) \ {qui.appareil} :
        /\ ~Revoque(r, d)
        /\ appareils' = [appareils EXCEPT ![r][d].revoque = e]
        /\ points'    = [points    EXCEPT ![r] = Sans(@, {d})]
        /\ Journaliser(r, [quoi |-> "revoque", estampille |-> e, appareil |-> d, le |-> e])
  BY DEF RevoquerAppareil
<1> DEFINE appareil == [appareils[r][d] EXCEPT !.revoque = e]
           operation == [quoi |-> "revoque", estampille |-> e, appareil |-> d, le |-> e]
<1>2. Rendue(r) /\ UNCHANGED <<comptes, reclamations, descriptions, surpris>>
  BY DEF RevoquerAppareil
<1>3. Locale(r) /\ Racines /\ Voies BY DEF IInv
<1>4. d \in DOMAIN appareils[r] BY DEF Possede
<1>5. Emise \subseteq Emise' /\ e \in Emise'
  <2> HIDE DEF operation
  <2> QED BY <1>1, Estampillee DEF operation
<1>6. appareils' = [appareils EXCEPT ![r] = [@ EXCEPT ![d] = appareil]]
  BY <1>1, <1>3, <1>4 DEF Racines
<1> HIDE DEF e
<1>7. /\ d \in Emise' /\ appareils[r][d] \in AppareilDe(Emise)
      /\ appareil \in AppareilDe(Emise')
      /\ appareil.proprietaire = appareils[r][d].proprietaire
  BY <1>3, <1>4, <1>5 DEF Locale, Rangees, TableDe, AppareilDe
<1>8. operation \in OperationDe(Emise') BY <1>5, <1>7 DEF OperationDe
<1> HIDE DEF appareil
<1>9. /\ TableDe(appareils'[r], Emise', AppareilDe(Emise'))
      /\ DOMAIN appareils'[r] = DOMAIN appareils[r]
      /\ \A x \in DOMAIN appareils[r] :
           /\ x # d => appareils'[r][x] = appareils[r][x]
           /\ appareils'[r][x].proprietaire = appareils[r][x].proprietaire
      /\ DOMAIN appareils' = Racine
      /\ \A q \in Racine \ {r} : appareils'[q] = appareils[q]
  BY <1>3, <1>4, <1>5, <1>6, <1>7, Retouchee
<1>10. /\ TableDe(comptes'[r], Emise', CompteDe(Emise')) /\ AliasDe(r)'
       /\ \A k : Efface(r, k)' <=> Efface(r, k)
  BY <1>2, <1>3, <1>5, MemesComptes
<1>11. /\ points'[r] = Sans(points[r], {d}) /\ DOMAIN points' = Racine
       /\ \A q \in Racine \ {r} : points'[q] = points[q]
  BY <1>1, <1>3 DEF Racines
<1>12. Racines' /\ Ailleurs(r) BY <1>2, <1>3, <1>9, <1>11 DEF Racines, Ailleurs, Rendue
<1>13. Rangees(r, Emise') BY <1>3, <1>5, RangeesLarges DEF Locale
<1>14. TableDe(descriptions'[r], Emise', Emise') BY <1>2, <1>13 DEF Rangees
<1>15. TableDe(points'[r], Emise', Emise') BY <1>11, <1>13, RestreinteTable DEF Rangees
<1>16. PointsDe(r)'
  <2>1. DOMAIN points'[r] = DOMAIN points[r] \ {d} BY <1>11 DEF Sans
  <2> QED BY <2>1, <1>3, <1>9 DEF Locale, PointsDe
<1>17. \A k : Efface(r, k)' => k \in surpris[r] \/ \A x \in DOMAIN appareils'[r] :
                                                     appareils'[r][x].proprietaire # k
  BY <1>3, <1>9, <1>10 DEF Locale, SurvieDe
<1>18. surpris[r] = {} => DOMAIN descriptions'[r] \subseteq DOMAIN appareils'[r]
  BY <1>2, <1>3, <1>9 DEF Locale, SurvieDe
<1>19. Journaliser(r, operation) BY <1>1
<1> HIDE DEF operation
<1> QED BY <1>2, <1>8, <1>9, <1>10, <1>12, <1>14, <1>15, <1>16, <1>17, <1>18, <1>19, PasRendu

LEMMA PasAttesterAppareil ==
  ASSUME IInv, NEW r \in Racine, NEW qui \in Demandeurs(r), AttesterAppareil(r, qui)
  PROVE  IInv'
<1> DEFINE e == Suivante(r)
           d == qui.appareil
           appareil == [appareils[r][d] EXCEPT !.prouve = TRUE]
           operation == [quoi |-> "atteste", estampille |-> e, appareil |-> d]
<1>1. /\ d \in DOMAIN appareils[r]
      /\ appareils' = [appareils EXCEPT ![r][d].prouve = TRUE]
      /\ Journaliser(r, operation) /\ Rendue(r)
      /\ UNCHANGED <<comptes, reclamations, descriptions, points, surpris>>
  BY DEF AttesterAppareil
<1>2. Locale(r) /\ Racines /\ Voies BY DEF IInv
<1>3. Emise \subseteq Emise' /\ e \in Emise'
  <2> HIDE DEF operation
  <2> QED BY <1>1, Estampillee
<1>4. appareils' = [appareils EXCEPT ![r] = [@ EXCEPT ![d] = appareil]]
  BY <1>1, <1>2 DEF Racines
<1> HIDE DEF e, d
<1>5. /\ d \in Emise' /\ appareils[r][d] \in AppareilDe(Emise)
      /\ appareil \in AppareilDe(Emise')
      /\ appareil.proprietaire = appareils[r][d].proprietaire
      /\ appareil.revoque = appareils[r][d].revoque
  BY <1>1, <1>2, <1>3 DEF Locale, Rangees, TableDe, AppareilDe
<1>6. operation \in OperationDe(Emise') BY <1>3, <1>5 DEF OperationDe
<1> HIDE DEF appareil, operation
<1>7. /\ TableDe(appareils'[r], Emise', AppareilDe(Emise'))
      /\ DOMAIN appareils'[r] = DOMAIN appareils[r] /\ appareils'[r][d] = appareil
      /\ \A x \in DOMAIN appareils[r] :
           /\ x # d => appareils'[r][x] = appareils[r][x]
           /\ appareils'[r][x].proprietaire = appareils[r][x].proprietaire
      /\ DOMAIN appareils' = Racine
      /\ \A q \in Racine \ {r} : appareils'[q] = appareils[q]
  <2>1. Locale(r) /\ Racines /\ d \in DOMAIN appareils[r] BY <1>1, <1>2
  <2> QED BY <2>1, <1>3, <1>4, <1>5, Retouchee
<1>8. /\ TableDe(comptes'[r], Emise', CompteDe(Emise')) /\ AliasDe(r)'
      /\ \A k : Efface(r, k)' <=> Efface(r, k)
  BY <1>1, <1>2, <1>3, MemesComptes
<1>9. Racines' /\ Ailleurs(r) BY <1>1, <1>2, <1>7 DEF Racines, Ailleurs, Rendue
<1>10. Rangees(r, Emise') BY <1>2, <1>3, RangeesLarges DEF Locale
<1>11. TableDe(descriptions'[r], Emise', Emise') /\ TableDe(points'[r], Emise', Emise')
  BY <1>1, <1>10 DEF Rangees
<1>12. PointsDe(r)' BY <1>1, <1>2, <1>5, <1>7 DEF Locale, PointsDe
<1>13. \A k : Efface(r, k)' => k \in surpris[r] \/ \A x \in DOMAIN appareils'[r] :
                                                     appareils'[r][x].proprietaire # k
  BY <1>2, <1>7, <1>8 DEF Locale, SurvieDe
<1>14. surpris[r] = {} => DOMAIN descriptions'[r] \subseteq DOMAIN appareils'[r]
  BY <1>1, <1>2, <1>7 DEF Locale, SurvieDe
<1> QED BY <1>1, <1>6, <1>7, <1>8, <1>9, <1>11, <1>12, <1>13, <1>14, PasRendu

LEMMA PasPoserDescription ==
  ASSUME IInv, NEW r \in Racine, NEW qui \in Demandeurs(r), PoserDescription(r, qui)
  PROVE  IInv'
<1> DEFINE e == Suivante(r)
           d == qui.appareil
           operation == [quoi |-> "description", estampille |-> e, appareil |-> d]
<1>1. /\ d # Aucune
      /\ descriptions' = [descriptions EXCEPT ![r] = Poser(@, d, e)]
      /\ Journaliser(r, operation) /\ Rendue(r)
      /\ UNCHANGED <<comptes, reclamations, appareils, points, surpris>>
  BY DEF PoserDescription
<1>2. Locale(r) /\ Racines /\ Voies BY DEF IInv
<1>3. Emise \subseteq Emise' /\ e \in Emise'
  <2> HIDE DEF operation
  <2> QED BY <1>1, Estampillee
<1>4. /\ d \in Emise /\ qui.compte \in Emise
      /\ Efface(r, qui.compte) => qui.compte \in surpris[r]
      /\ qui.compte \notin surpris[r] => d \in DOMAIN appareils[r]
  BY <1>1, <1>2, Demandeur
<1> HIDE DEF e, d
<1>5. operation \in OperationDe(Emise') BY <1>3, <1>4 DEF OperationDe
<1> HIDE DEF operation
<1>6. /\ descriptions'[r] = Poser(descriptions[r], d, e) /\ DOMAIN descriptions' = Racine
      /\ \A q \in Racine \ {r} : descriptions'[q] = descriptions[q]
  BY <1>1, <1>2 DEF Racines
<1>7. Racines' /\ Ailleurs(r) BY <1>1, <1>2, <1>6 DEF Racines, Ailleurs, Rendue
<1>8. Rangees(r, Emise') BY <1>2, <1>3, RangeesLarges DEF Locale
<1>9. TableDe(descriptions'[r], Emise', Emise')
  BY <1>3, <1>4, <1>6, <1>8, PoseeTable DEF Rangees
<1>10. /\ TableDe(appareils'[r], Emise', AppareilDe(Emise'))
       /\ TableDe(points'[r], Emise', Emise')
  BY <1>1, <1>8 DEF Rangees
<1>11. /\ TableDe(comptes'[r], Emise', CompteDe(Emise')) /\ AliasDe(r)'
       /\ \A k : Efface(r, k)' <=> Efface(r, k)
  BY <1>1, <1>2, <1>3, MemesComptes
<1>12. PointsDe(r)' BY <1>1, <1>2 DEF Locale, PointsDe
<1>13. \A k : Efface(r, k)' => k \in surpris[r] \/ \A x \in DOMAIN appareils'[r] :
                                                     appareils'[r][x].proprietaire # k
  BY <1>1, <1>2, <1>11 DEF Locale, SurvieDe
<1>14. surpris[r] = {} => DOMAIN descriptions'[r] \subseteq DOMAIN appareils'[r]
  <2>1. DOMAIN descriptions'[r] = DOMAIN descriptions[r] \cup {d} BY <1>6 DEF Poser
  <2> QED BY <2>1, <1>1, <1>2, <1>4 DEF Locale, SurvieDe
<1> QED BY <1>1, <1>5, <1>7, <1>9, <1>10, <1>11, <1>12, <1>13, <1>14, PasRendu

LEMMA PasPoserPoint ==
  ASSUME IInv, NEW r \in Racine, NEW qui \in Demandeurs(r), PoserPoint(r, qui)
  PROVE  IInv'
<1> DEFINE e == Suivante(r)
           d == qui.appareil
           operation == [quoi |-> "point", estampille |-> e, appareil |-> d]
<1>1. /\ Joignable(r, d)
      /\ points' = [points EXCEPT ![r] = Poser(@, d, e)]
      /\ Journaliser(r, operation) /\ Rendue(r)
      /\ UNCHANGED <<comptes, reclamations, appareils, descriptions, surpris>>
  BY DEF PoserPoint
<1>2. Locale(r) /\ Racines /\ Voies BY DEF IInv
<1>3. Emise \subseteq Emise' /\ e \in Emise'
  <2> HIDE DEF operation
  <2> QED BY <1>1, Estampillee
<1> HIDE DEF e, d
<1>4. d \in DOMAIN appareils[r] /\ appareils[r][d].revoque = Aucune /\ d \in Emise'
  BY <1>1, <1>2, <1>3 DEF Joignable, Revoque, Locale, Rangees, TableDe
<1>5. operation \in OperationDe(Emise') BY <1>3, <1>4 DEF OperationDe
<1> HIDE DEF operation
<1>6. /\ points'[r] = Poser(points[r], d, e) /\ DOMAIN points' = Racine
      /\ \A q \in Racine \ {r} : points'[q] = points[q]
  BY <1>1, <1>2 DEF Racines
<1>7. Racines' /\ Ailleurs(r) BY <1>1, <1>2, <1>6 DEF Racines, Ailleurs, Rendue
<1>8. Rangees(r, Emise') BY <1>2, <1>3, RangeesLarges DEF Locale
<1>9. TableDe(points'[r], Emise', Emise') BY <1>3, <1>4, <1>6, <1>8, PoseeTable DEF Rangees
<1>10. /\ TableDe(appareils'[r], Emise', AppareilDe(Emise'))
       /\ TableDe(descriptions'[r], Emise', Emise')
  BY <1>1, <1>8 DEF Rangees
<1>11. /\ TableDe(comptes'[r], Emise', CompteDe(Emise')) /\ AliasDe(r)'
       /\ \A k : Efface(r, k)' <=> Efface(r, k)
  BY <1>1, <1>2, <1>3, MemesComptes
<1>12. PointsDe(r)'
  <2>1. DOMAIN points'[r] = DOMAIN points[r] \cup {d} BY <1>6 DEF Poser
  <2> QED BY <2>1, <1>1, <1>2, <1>4 DEF Locale, PointsDe
<1>13. \A k : Efface(r, k)' => k \in surpris[r] \/ \A x \in DOMAIN appareils'[r] :
                                                     appareils'[r][x].proprietaire # k
  BY <1>1, <1>2, <1>11 DEF Locale, SurvieDe
<1>14. surpris[r] = {} => DOMAIN descriptions'[r] \subseteq DOMAIN appareils'[r]
  BY <1>1, <1>2 DEF Locale, SurvieDe
<1> QED BY <1>1, <1>5, <1>7, <1>9, <1>10, <1>11, <1>12, <1>13, <1>14, PasRendu

-----------------------------------------------------------------------------
(* What comes from the peer.                                               *)

\* The operation that root r applies, and what is known of its tables.
Recue(r, operation) ==
  /\ Locale(r) /\ Racines /\ Emise \subseteq Emise'
  /\ operation \in OperationDe(Emise')
  /\ demande' = demande

\* No erasure: who is erased, who is surprised and who owns what stays so.
Anodine(r) ==
  /\ DOMAIN surpris' = Racine /\ \A q \in Racine : surpris'[q] = surpris[q]
  /\ \A k : Efface(r, k)' <=> Efface(r, k)
  /\ \A d \in DOMAIN appareils[r] :
       /\ d \in DOMAIN appareils'[r]
       /\ appareils'[r][d].proprietaire = appareils[r][d].proprietaire
  /\ \A d \in DOMAIN appareils'[r] \ DOMAIN appareils[r] :
       ~Efface(r, appareils'[r][d].proprietaire)
  /\ DOMAIN descriptions'[r] \subseteq DOMAIN descriptions[r] \cup DOMAIN appareils[r]

LEMMA RecueSansEffet ==
  ASSUME NEW r \in Racine, NEW operation, Recue(r, operation), Anodine(r),
         DOMAIN comptes' = Racine, DOMAIN reclamations' = Racine,
         DOMAIN appareils' = Racine, DOMAIN descriptions' = Racine,
         DOMAIN points' = Racine,
         \A q \in Racine \ {r} :
           /\ comptes'[q] = comptes[q] /\ reclamations'[q] = reclamations[q]
           /\ appareils'[q] = appareils[q] /\ descriptions'[q] = descriptions[q]
           /\ points'[q] = points[q],
         AliasDe(r)', PointsDe(r)',
         TableDe(comptes'[r], Emise', CompteDe(Emise')),
         TableDe(appareils'[r], Emise', AppareilDe(Emise')),
         TableDe(descriptions'[r], Emise', Emise'),
         TableDe(points'[r], Emise', Emise')
  PROVE  Racines' /\ Ailleurs(r) /\ Locale(r)'
<1>1. Racines' /\ Ailleurs(r) BY DEF Recue, Anodine, Racines, Ailleurs
<1>2. Rangees(r, Emise') BY RangeesLarges DEF Recue, Locale
<1>3. Rangees(r, Emise)' BY <1>2 DEF Recue, Anodine, Rangees
<1>4. SurvieDe(r)'
  <2>1. /\ SurvieDe(r) /\ demande'[r] = demande[r] /\ surpris'[r] = surpris[r]
        /\ \A k : Efface(r, k)' <=> Efface(r, k)
    BY DEF Recue, Anodine, Locale
  <2>2. ASSUME NEW d \in DOMAIN appareils'[r], NEW k,
               k = appareils'[r][d].proprietaire, Efface(r, k)'
        PROVE  k \in surpris[r]
    <3>1. Efface(r, k) BY <2>1, <2>2
    <3>2. d \in DOMAIN appareils[r] /\ appareils[r][d].proprietaire = k
      BY <2>2, <3>1 DEF Anodine
    <3> QED BY <2>1, <3>1, <3>2 DEF SurvieDe
  <2>3. surpris[r] = {} => DOMAIN descriptions'[r] \subseteq DOMAIN appareils'[r]
    BY <2>1 DEF Anodine, SurvieDe
  <2>4. demande[r] # Repos =>
       /\ \A k : k = demande[r].compte /\ Efface(r, k)' => k \in surpris[r]
       /\ demande[r].appareil # Aucune /\ demande[r].compte \notin surpris[r] =>
            /\ demande[r].appareil \in DOMAIN appareils'[r]
            /\ appareils'[r][demande[r].appareil].proprietaire = demande[r].compte
    BY <2>1 DEF SurvieDe, Anodine
  <2> QED BY <2>1, <2>2, <2>3, <2>4 DEF SurvieDe
<1> QED BY <1>1, <1>3, <1>4 DEF Locale

\* What the kind of an operation says of its fields.
LEMMA Champs ==
  ASSUME NEW E, NEW operation \in OperationDe(E)
  PROVE  /\ operation.estampille \in E
         /\ operation.quoi = "compte" =>
              /\ operation.compte \in E /\ operation.enregistrement \in CompteDe(E)
              /\ operation.enregistrement.efface = "non"
         /\ operation.quoi = "alias" =>
              operation.compte \in E /\ operation.alias \in Alias \cup {SansAlias}
         /\ operation.quoi = "efface" => operation.compte \in E /\ operation.cause \in Cause
         /\ operation.quoi = "appareil" =>
              operation.appareil \in E /\ operation.enregistrement \in AppareilDe(E)
         /\ operation.quoi = "revoque" => operation.appareil \in E /\ operation.le \in E
         /\ operation.quoi \in {"atteste", "description", "point"} => operation.appareil \in E
<1> HIDE DEF CompteDe, AppareilDe
<1> QED BY DEF OperationDe

\* The tables of devices are not touched.
LEMMA MemesAppareils ==
  ASSUME NEW r \in Racine, Locale(r), Emise \subseteq Emise',
         UNCHANGED <<appareils, descriptions, points>>
  PROVE  /\ TableDe(appareils'[r], Emise', AppareilDe(Emise'))
         /\ TableDe(descriptions'[r], Emise', Emise')
         /\ TableDe(points'[r], Emise', Emise') /\ PointsDe(r)'
<1>1. Rangees(r, Emise') BY RangeesLarges DEF Locale
<1> QED BY <1>1 DEF Rangees, Locale, PointsDe

Calme == DOMAIN surpris' = Racine /\ \A q \in Racine : surpris'[q] = surpris[q]

LEMMA RecevoirCompte ==
  ASSUME NEW r \in Racine, NEW operation, operation.quoi = "compte", Recue(r, operation),
         Calme, AppliquerCompte(r, operation)
  PROVE  Racines' /\ Ailleurs(r) /\ Locale(r)'
<1> DEFINE c == operation.compte
           compte == operation.enregistrement
<1>1. /\ c \in Emise' /\ compte \in CompteDe(Emise') /\ compte.efface = "non"
      /\ Locale(r) /\ Racines /\ Emise \subseteq Emise'
  BY Champs DEF Recue
<1>2. UNCHANGED <<appareils, descriptions, points>> BY DEF AppliquerCompte
<1>3. /\ TableDe(appareils'[r], Emise', AppareilDe(Emise'))
      /\ TableDe(descriptions'[r], Emise', Emise')
      /\ TableDe(points'[r], Emise', Emise') /\ PointsDe(r)'
  BY <1>1, <1>2, MemesAppareils
<1>4. CASE c \in DOMAIN comptes[r]
  <2>1. UNCHANGED <<comptes, reclamations>> BY <1>4 DEF AppliquerCompte
  <2>2. /\ TableDe(comptes'[r], Emise', CompteDe(Emise')) /\ AliasDe(r)'
        /\ \A k : Efface(r, k)' <=> Efface(r, k)
    BY <1>1, <2>1, MemesComptes
  <2>3. Anodine(r) BY <1>2, <2>2 DEF Anodine, Calme
  <2> QED BY <1>1, <1>2, <1>3, <2>1, <2>2, <2>3, RecueSansEffet DEF Racines
<1>5. CASE c \notin DOMAIN comptes[r]
  <2>1. Ranger(r, c, compte, {}) BY <1>5 DEF AppliquerCompte
  <2> HIDE DEF c, compte
  <2>2. /\ TableDe(comptes'[r], Emise', CompteDe(Emise')) /\ AliasDe(r)'
        /\ DOMAIN comptes'[r] = DOMAIN comptes[r] \cup {c} /\ comptes'[r][c] = compte
        /\ \A k \in DOMAIN comptes[r] : k # c => comptes'[r][k] = comptes[r][k]
        /\ DOMAIN comptes' = Racine /\ DOMAIN reclamations' = Racine
        /\ \A q \in Racine \ {r} :
             comptes'[q] = comptes[q] /\ reclamations'[q] = reclamations[q]
    BY <1>1, <1>5, <2>1, Rangee
  <2>3. \A k : Efface(r, k)' <=> Efface(r, k) BY <1>1, <1>5, <2>2 DEF Efface
  <2>4. Anodine(r) BY <1>2, <2>3 DEF Anodine, Calme
  <2> QED BY <1>1, <1>2, <1>3, <2>2, <2>4, RecueSansEffet DEF Racines
<1> QED BY <1>4, <1>5

LEMMA RecevoirAlias ==
  ASSUME NEW r \in Racine, NEW operation, operation.quoi = "alias", Recue(r, operation),
         Calme, AppliquerAlias(r, operation)
  PROVE  Racines' /\ Ailleurs(r) /\ Locale(r)'
<1> DEFINE c == operation.compte
           e == operation.estampille
           compte == [estampille |-> PlusTard(comptes[r][c].estampille, e),
                      alias |-> operation.alias, reclamation |-> e, efface |-> "non"]
<1>1. /\ c \in Emise' /\ e \in Emise' /\ operation.alias \in Alias \cup {SansAlias}
      /\ Locale(r) /\ Racines /\ Emise \subseteq Emise'
  BY Champs DEF Recue
<1>2. UNCHANGED <<appareils, descriptions, points>> BY DEF AppliquerAlias
<1>3. /\ TableDe(appareils'[r], Emise', AppareilDe(Emise'))
      /\ TableDe(descriptions'[r], Emise', Emise')
      /\ TableDe(points'[r], Emise', Emise') /\ PointsDe(r)'
  BY <1>1, <1>2, MemesAppareils
<1>4. CASE ~Reclamante(r, c, e)
  <2>1. UNCHANGED <<comptes, reclamations>> BY <1>4 DEF AppliquerAlias
  <2>2. /\ TableDe(comptes'[r], Emise', CompteDe(Emise')) /\ AliasDe(r)'
        /\ \A k : Efface(r, k)' <=> Efface(r, k)
    BY <1>1, <2>1, MemesComptes
  <2>3. Anodine(r) BY <1>2, <2>2 DEF Anodine, Calme
  <2> QED BY <1>1, <1>2, <1>3, <2>1, <2>2, <2>3, RecueSansEffet DEF Racines
<1>5. CASE Reclamante(r, c, e)
  <2>1. Ranger(r, c, compte, Tenue(r, c)) BY <1>5 DEF AppliquerAlias
  <2>2. c \in DOMAIN comptes[r] /\ ~Efface(r, c) BY <1>5 DEF Reclamante
  <2>3. comptes[r][c].estampille \in Emise
    BY <1>1, <2>2 DEF Locale, Rangees, TableDe, CompteDe
  <2>4. compte \in CompteDe(Emise') /\ compte.efface = "non"
    BY <1>1, <2>3 DEF CompteDe, PlusTard
  <2> HIDE DEF c, compte
  <2>5. /\ TableDe(comptes'[r], Emise', CompteDe(Emise')) /\ AliasDe(r)'
        /\ DOMAIN comptes'[r] = DOMAIN comptes[r] \cup {c} /\ comptes'[r][c] = compte
        /\ \A k \in DOMAIN comptes[r] : k # c => comptes'[r][k] = comptes[r][k]
        /\ DOMAIN comptes' = Racine /\ DOMAIN reclamations' = Racine
        /\ \A q \in Racine \ {r} :
             comptes'[q] = comptes[q] /\ reclamations'[q] = reclamations[q]
    BY <1>1, <2>1, <2>4, Rangee
  <2>6. \A k : Efface(r, k)' <=> Efface(r, k) BY <2>2, <2>4, <2>5 DEF Efface
  <2>7. Anodine(r) BY <1>2, <2>6 DEF Anodine, Calme
  <2> QED BY <1>1, <1>2, <1>3, <2>5, <2>7, RecueSansEffet DEF Racines
<1> QED BY <1>4, <1>5

\* Erased on both sides: the mark of the erasure moves, the account has no alias.
LEMMA RecevoirSecondEffacement ==
  ASSUME NEW r \in Racine, NEW operation, operation.quoi = "efface", Recue(r, operation),
         DOMAIN surpris' = Racine,
         \A q \in Racine \ {r} : surpris'[q] = surpris[q],
         surpris'[r] = surpris[r] \cup ({demande[r].compte} \cap {operation.compte}),
         AppliquerCompteEfface(r, operation), Efface(r, operation.compte)
  PROVE  Racines' /\ Ailleurs(r) /\ Locale(r)'
<1> DEFINE c == operation.compte
           tenu == comptes[r][c]
           compte == IF Avant(operation.estampille, tenu.estampille)
                       THEN [tenu EXCEPT !.estampille = operation.estampille,
                                         !.reclamation = operation.estampille,
                                         !.efface = operation.cause]
                       ELSE tenu
<1>1. /\ c \in Emise' /\ operation.estampille \in Emise' /\ operation.cause \in Cause
      /\ Locale(r) /\ Racines /\ Emise \subseteq Emise' /\ demande' = demande
  BY Champs DEF Recue
<1>2. UNCHANGED <<reclamations, appareils, descriptions, points>>
  BY DEF AppliquerCompteEfface
<1>3. /\ TableDe(appareils'[r], Emise', AppareilDe(Emise'))
      /\ TableDe(descriptions'[r], Emise', Emise')
      /\ TableDe(points'[r], Emise', Emise') /\ PointsDe(r)'
  BY <1>1, <1>2, MemesAppareils
<1>4. c \in DOMAIN comptes[r] /\ tenu.efface # "non" BY DEF Efface
<1>5. comptes' = [comptes EXCEPT ![r] = [@ EXCEPT ![c] = compte]]
  BY <1>1, <1>4 DEF AppliquerCompteEfface, Racines
<1>6. Rangees(r, Emise') BY <1>1, RangeesLarges DEF Locale
<1>7. tenu \in CompteDe(Emise') BY <1>4, <1>6 DEF Rangees, TableDe
<1>8. /\ compte \in CompteDe(Emise') /\ compte.efface # "non"
      /\ tenu.alias = SansAlias /\ compte.alias = SansAlias
  BY <1>1, <1>4, <1>7 DEF CompteDe, Cause
<1> HIDE DEF c, compte
<1>9. /\ comptes'[r] = [comptes[r] EXCEPT ![c] = compte] /\ DOMAIN comptes' = Racine
      /\ \A q \in Racine \ {r} : comptes'[q] = comptes[q]
  BY <1>1, <1>5 DEF Racines
<1>10. /\ TableDe(comptes'[r], Emise', CompteDe(Emise'))
       /\ DOMAIN comptes'[r] = DOMAIN comptes[r] /\ comptes'[r][c] = compte
       /\ \A k \in DOMAIN comptes[r] : k # c => comptes'[r][k] = comptes[r][k]
  BY <1>4, <1>6, <1>8, <1>9, ChangeeTable DEF Rangees
<1>11. AliasDe(r)'
  <2>1. \A k \in DOMAIN comptes[r] :
          Reclamation(k, comptes'[r][k]) = Reclamation(k, comptes[r][k])
    BY <1>8, <1>10 DEF Reclamation
  <2>2. \A a : a \in reclamations[r] <=>
          \E k \in DOMAIN comptes[r] : a \in Reclamation(k, comptes[r][k])
    BY <1>1 DEF Locale, AliasDe
  <2>3. \A a : a \in reclamations'[r] <=>
          \E k \in DOMAIN comptes'[r] : a \in Reclamation(k, comptes'[r][k])
    BY <2>1, <2>2, <1>2, <1>10
  <2> QED BY <2>3 DEF AliasDe
<1>12. \A k : Efface(r, k)' <=> Efface(r, k) BY <1>4, <1>8, <1>10 DEF Efface
<1>13. Racines' /\ Ailleurs(r) BY <1>1, <1>2, <1>9 DEF Racines, Ailleurs
<1>14. Rangees(r, Emise)'
  <2>1. surpris'[r] \subseteq Emise' BY <1>1, <1>6 DEF Rangees, c
  <2> QED BY <2>1, <1>1, <1>3, <1>6, <1>10 DEF Rangees
<1>15. SurvieDe(r)'
  <2>1. SurvieDe(r) /\ surpris[r] \subseteq surpris'[r] BY <1>1 DEF Locale
  <2>2. \A d \in DOMAIN appareils[r] : \A k :
          k = appareils[r][d].proprietaire /\ Efface(r, k)' => k \in surpris'[r]
    BY <2>1, <1>12 DEF SurvieDe
  <2>3. demande[r] # Repos =>
          \A k : k = demande[r].compte /\ Efface(r, k)' => k \in surpris'[r]
    BY <2>1, <1>12 DEF SurvieDe
  <2> QED BY <2>1, <2>2, <2>3, <1>1, <1>2 DEF SurvieDe
<1> QED BY <1>3, <1>11, <1>13, <1>14, <1>15 DEF Locale

LEMMA RecevoirEffacement ==
  ASSUME NEW r \in Racine, NEW operation, operation.quoi = "efface", Recue(r, operation),
         DOMAIN surpris' = Racine,
         \A q \in Racine \ {r} : surpris'[q] = surpris[q],
         surpris'[r] = surpris[r] \cup ({demande[r].compte} \cap {operation.compte}),
         AppliquerCompteEfface(r, operation), ~Efface(r, operation.compte)
  PROVE  Racines' /\ Ailleurs(r) /\ Locale(r)'
<1> DEFINE c == operation.compte
           e == operation.estampille
           cause == operation.cause
<1>1. /\ c \in Emise' /\ e \in Emise' /\ cause \in Cause
      /\ Locale(r) /\ Racines /\ Emise \subseteq Emise' /\ demande' = demande
  BY Champs DEF Recue
<1>2. EffacerDans(r, c, cause, e) BY DEF AppliquerCompteEfface
<1>3. surpris[r] \subseteq surpris'[r] /\ (demande[r].compte = c => c \in surpris'[r])
  OBVIOUS
<1>4. Rangees(r, Emise') BY <1>1, RangeesLarges DEF Locale
<1>5. surpris'[r] \subseteq Emise' BY <1>1, <1>4 DEF Rangees
<1> HIDE DEF c, e, cause
<1>6. /\ TableDe(comptes'[r], Emise', CompteDe(Emise'))
      /\ TableDe(appareils'[r], Emise', AppareilDe(Emise'))
      /\ TableDe(descriptions'[r], Emise', Emise')
      /\ TableDe(points'[r], Emise', Emise')
      /\ AliasDe(r)' /\ PointsDe(r)'
  BY <1>1, <1>2, Effacee
<1>7. /\ DOMAIN appareils'[r] =
           {d \in DOMAIN appareils[r] : appareils[r][d].proprietaire # c}
      /\ \A d \in DOMAIN appareils'[r] : appareils'[r][d] = appareils[r][d]
      /\ \A k : Efface(r, k)' =>
           k \in surpris[r] \/ \A d \in DOMAIN appareils'[r] :
                                 appareils'[r][d].proprietaire # k
      /\ surpris[r] = {} => DOMAIN descriptions'[r] \subseteq DOMAIN appareils'[r]
      /\ \A k : k # c => (Efface(r, k)' <=> Efface(r, k))
  BY <1>1, <1>2, Effacee
<1>8. Racines' /\ Ailleurs(r) BY <1>1, <1>2, Effacee DEF Racines, Ailleurs
<1>9. Rangees(r, Emise)' BY <1>1, <1>4, <1>5, <1>6 DEF Rangees
<1>10. SurvieDe(r)'
  <2>1. SurvieDe(r) BY <1>1 DEF Locale
  <2>2. demande[r] # Repos =>
       /\ \A k : k = demande[r].compte /\ Efface(r, k)' => k \in surpris'[r]
       /\ demande[r].appareil # Aucune /\ demande[r].compte \notin surpris'[r] =>
            /\ demande[r].appareil \in DOMAIN appareils'[r]
            /\ appareils'[r][demande[r].appareil].proprietaire = demande[r].compte
    BY <2>1, <1>3, <1>7 DEF SurvieDe
  <2>3. \A d \in DOMAIN appareils'[r] : \A k :
          k = appareils'[r][d].proprietaire /\ Efface(r, k)' => k \in surpris'[r]
    BY <1>3, <1>7
  <2>4. surpris'[r] = {} => DOMAIN descriptions'[r] \subseteq DOMAIN appareils'[r]
    BY <1>3, <1>7
  <2> QED BY <2>2, <2>3, <2>4, <1>1 DEF SurvieDe
<1> QED BY <1>6, <1>8, <1>9, <1>10 DEF Locale

LEMMA RecevoirAppareil ==
  ASSUME NEW r \in Racine, NEW operation, operation.quoi = "appareil", Recue(r, operation),
         Calme, AppliquerAppareil(r, operation)
  PROVE  Racines' /\ Ailleurs(r) /\ Locale(r)'
<1> DEFINE d == operation.appareil
           appareil == operation.enregistrement
<1>1. /\ d \in Emise' /\ appareil \in AppareilDe(Emise')
      /\ Locale(r) /\ Racines /\ Emise \subseteq Emise'
  BY Champs DEF Recue
<1>2. UNCHANGED <<comptes, reclamations, descriptions, points>> BY DEF AppliquerAppareil
<1>3. /\ appareils'[r] = IF Admis(r, operation) THEN Poser(appareils[r], d, appareil)
                                               ELSE appareils[r]
      /\ DOMAIN appareils' = Racine
      /\ \A q \in Racine \ {r} : appareils'[q] = appareils[q]
  BY <1>1 DEF AppliquerAppareil, Racines
<1>4. Admis(r, operation) => d \notin DOMAIN appareils[r] /\ ~Efface(r, appareil.proprietaire)
  BY DEF Admis
<1> HIDE DEF d, appareil
<1>5. Rangees(r, Emise') BY <1>1, RangeesLarges DEF Locale
<1>6. TableDe(appareils'[r], Emise', AppareilDe(Emise'))
  BY <1>1, <1>3, <1>5, PoseeTable DEF Rangees
<1>7. /\ \A x \in DOMAIN appareils[r] :
           x \in DOMAIN appareils'[r] /\ appareils'[r][x] = appareils[r][x]
      /\ \A x \in DOMAIN appareils'[r] \ DOMAIN appareils[r] :
           ~Efface(r, appareils'[r][x].proprietaire)
  BY <1>3, <1>4 DEF Poser
<1>8. /\ TableDe(comptes'[r], Emise', CompteDe(Emise')) /\ AliasDe(r)'
      /\ \A k : Efface(r, k)' <=> Efface(r, k)
  BY <1>1, <1>2, MemesComptes
<1>9. PointsDe(r)' BY <1>1, <1>2, <1>7 DEF Locale, PointsDe
<1>10. TableDe(descriptions'[r], Emise', Emise') /\ TableDe(points'[r], Emise', Emise')
  BY <1>2, <1>5 DEF Rangees
<1>11. Anodine(r) BY <1>2, <1>7, <1>8 DEF Anodine, Calme
<1> QED BY <1>1, <1>2, <1>3, <1>6, <1>8, <1>9, <1>10, <1>11, RecueSansEffet DEF Racines

LEMMA RecevoirRevocation ==
  ASSUME NEW r \in Racine, NEW operation, operation.quoi = "revoque", Recue(r, operation),
         Calme, AppliquerAppareilRevoque(r, operation)
  PROVE  Racines' /\ Ailleurs(r) /\ Locale(r)'
<1> DEFINE d == operation.appareil
           appareil == [appareils[r][d] EXCEPT !.revoque = PremiereDate(@, operation.le)]
<1>1. /\ d \in Emise' /\ operation.le \in Emise'
      /\ Locale(r) /\ Racines /\ Emise \subseteq Emise'
  BY Champs DEF Recue
<1>2. UNCHANGED <<comptes, reclamations, descriptions>> BY DEF AppliquerAppareilRevoque
<1>3. /\ TableDe(comptes'[r], Emise', CompteDe(Emise')) /\ AliasDe(r)'
      /\ \A k : Efface(r, k)' <=> Efface(r, k)
  BY <1>1, <1>2, MemesComptes
<1>4. Rangees(r, Emise') BY <1>1, RangeesLarges DEF Locale
<1>5. TableDe(descriptions'[r], Emise', Emise') BY <1>2, <1>4 DEF Rangees
<1>6. CASE d \notin DOMAIN appareils[r]
  <2>1. UNCHANGED <<appareils, points>> BY <1>6 DEF AppliquerAppareilRevoque
  <2>2. /\ TableDe(appareils'[r], Emise', AppareilDe(Emise'))
        /\ TableDe(points'[r], Emise', Emise') /\ PointsDe(r)'
    BY <1>1, <1>2, <2>1, MemesAppareils
  <2>3. Anodine(r) BY <1>2, <1>3, <2>1 DEF Anodine, Calme
  <2> QED BY <1>1, <1>2, <1>3, <1>5, <2>1, <2>2, <2>3, RecueSansEffet DEF Racines
<1>7. CASE d \in DOMAIN appareils[r]
  <2>1. /\ appareils' = [appareils EXCEPT ![r] = [@ EXCEPT ![d] = appareil]]
        /\ points' = [points EXCEPT ![r] = Sans(@, {d})]
    BY <1>1, <1>7 DEF AppliquerAppareilRevoque, Racines
  <2>2. /\ appareil \in AppareilDe(Emise')
        /\ appareil.proprietaire = appareils[r][d].proprietaire
    <3>1. appareils[r][d] \in AppareilDe(Emise') BY <1>4, <1>7 DEF Rangees, TableDe
    <3> QED BY <3>1, <1>1 DEF AppareilDe, PremiereDate, PlusTot
  <2> HIDE DEF d, appareil
  <2>3. /\ TableDe(appareils'[r], Emise', AppareilDe(Emise'))
        /\ DOMAIN appareils'[r] = DOMAIN appareils[r]
        /\ \A x \in DOMAIN appareils[r] :
             /\ x # d => appareils'[r][x] = appareils[r][x]
             /\ appareils'[r][x].proprietaire = appareils[r][x].proprietaire
        /\ DOMAIN appareils' = Racine
        /\ \A q \in Racine \ {r} : appareils'[q] = appareils[q]
    BY <1>1, <1>7, <2>1, <2>2, Retouchee
  <2>4. /\ points'[r] = Sans(points[r], {d}) /\ DOMAIN points' = Racine
        /\ \A q \in Racine \ {r} : points'[q] = points[q]
    BY <1>1, <2>1 DEF Racines
  <2>5. TableDe(points'[r], Emise', Emise') BY <1>4, <2>4, RestreinteTable DEF Rangees
  <2>6. PointsDe(r)'
    <3>1. DOMAIN points'[r] = DOMAIN points[r] \ {d} BY <2>4 DEF Sans
    <3> QED BY <3>1, <1>1, <2>3 DEF Locale, PointsDe
  <2>7. Anodine(r) BY <1>2, <1>3, <2>3 DEF Anodine, Calme
  <2> QED BY <1>1, <1>2, <1>3, <1>5, <2>3, <2>4, <2>5, <2>6, <2>7, RecueSansEffet
          DEF Racines
<1> QED BY <1>6, <1>7

LEMMA RecevoirAttestation ==
  ASSUME NEW r \in Racine, NEW operation, operation.quoi = "atteste", Recue(r, operation),
         Calme, AppliquerAppareilAtteste(r, operation)
  PROVE  Racines' /\ Ailleurs(r) /\ Locale(r)'
<1> DEFINE d == operation.appareil
           appareil == [appareils[r][d] EXCEPT !.prouve = TRUE]
<1>1. d \in Emise' /\ Locale(r) /\ Racines /\ Emise \subseteq Emise'
  BY Champs DEF Recue
<1>2. UNCHANGED <<comptes, reclamations, descriptions, points>>
  BY DEF AppliquerAppareilAtteste
<1>3. /\ TableDe(comptes'[r], Emise', CompteDe(Emise')) /\ AliasDe(r)'
      /\ \A k : Efface(r, k)' <=> Efface(r, k)
  BY <1>1, <1>2, MemesComptes
<1>4. Rangees(r, Emise') BY <1>1, RangeesLarges DEF Locale
<1>5. TableDe(descriptions'[r], Emise', Emise') /\ TableDe(points'[r], Emise', Emise')
  BY <1>2, <1>4 DEF Rangees
<1>6. CASE d \notin DOMAIN appareils[r]
  <2>1. UNCHANGED appareils BY <1>6 DEF AppliquerAppareilAtteste
  <2>2. TableDe(appareils'[r], Emise', AppareilDe(Emise')) /\ PointsDe(r)'
    BY <1>1, <1>2, <2>1, MemesAppareils
  <2>3. Anodine(r) BY <1>2, <1>3, <2>1 DEF Anodine, Calme
  <2> QED BY <1>1, <1>2, <1>3, <1>5, <2>1, <2>2, <2>3, RecueSansEffet DEF Racines
<1>7. CASE d \in DOMAIN appareils[r]
  <2>1. appareils' = [appareils EXCEPT ![r] = [@ EXCEPT ![d] = appareil]]
    BY <1>1, <1>7 DEF AppliquerAppareilAtteste, Racines
  <2>2. /\ appareil \in AppareilDe(Emise')
        /\ appareil.proprietaire = appareils[r][d].proprietaire
        /\ appareil.revoque = appareils[r][d].revoque
    <3>1. appareils[r][d] \in AppareilDe(Emise') BY <1>4, <1>7 DEF Rangees, TableDe
    <3> QED BY <3>1 DEF AppareilDe
  <2> HIDE DEF d, appareil
  <2>3. /\ TableDe(appareils'[r], Emise', AppareilDe(Emise'))
        /\ DOMAIN appareils'[r] = DOMAIN appareils[r] /\ appareils'[r][d] = appareil
        /\ \A x \in DOMAIN appareils[r] :
             /\ x # d => appareils'[r][x] = appareils[r][x]
             /\ appareils'[r][x].proprietaire = appareils[r][x].proprietaire
        /\ DOMAIN appareils' = Racine
        /\ \A q \in Racine \ {r} : appareils'[q] = appareils[q]
    BY <1>1, <1>7, <2>1, <2>2, Retouchee
  <2>4. PointsDe(r)' BY <1>1, <1>2, <2>2, <2>3 DEF Locale, PointsDe
  <2>5. Anodine(r) BY <1>2, <1>3, <2>3 DEF Anodine, Calme
  <2> QED BY <1>1, <1>2, <1>3, <1>5, <2>3, <2>4, <2>5, RecueSansEffet DEF Racines
<1> QED BY <1>6, <1>7

LEMMA TableDerniere ==
  ASSUME NEW f, NEW E, TableDe(f, E, E), NEW d \in E, NEW e \in E
  PROVE  TableDe(Derniere(f, d, e), E, E)
BY PoseeTable DEF Derniere

LEMMA RecevoirDescription ==
  ASSUME NEW r \in Racine, NEW operation, operation.quoi = "description",
         Recue(r, operation), Calme, AppliquerDescription(r, operation)
  PROVE  Racines' /\ Ailleurs(r) /\ Locale(r)'
<1> DEFINE d == operation.appareil
           e == operation.estampille
<1>1. d \in Emise' /\ e \in Emise' /\ Locale(r) /\ Racines /\ Emise \subseteq Emise'
  BY Champs DEF Recue
<1>2. UNCHANGED <<comptes, reclamations, appareils, points>> BY DEF AppliquerDescription
<1>3. /\ descriptions'[r] = IF d \in DOMAIN appareils[r]
                              THEN Derniere(descriptions[r], d, e) ELSE descriptions[r]
      /\ DOMAIN descriptions' = Racine
      /\ \A q \in Racine \ {r} : descriptions'[q] = descriptions[q]
  BY <1>1 DEF AppliquerDescription, Racines
<1>4. /\ TableDe(comptes'[r], Emise', CompteDe(Emise')) /\ AliasDe(r)'
      /\ \A k : Efface(r, k)' <=> Efface(r, k)
  BY <1>1, <1>2, MemesComptes
<1>5. Rangees(r, Emise') BY <1>1, RangeesLarges DEF Locale
<1>6. /\ TableDe(appareils'[r], Emise', AppareilDe(Emise'))
      /\ TableDe(points'[r], Emise', Emise') /\ PointsDe(r)'
  BY <1>1, <1>2, <1>5 DEF Rangees, Locale, PointsDe
<1> HIDE DEF d, e
<1> DEFINE E == Emise'
           ecrites == Derniere(descriptions[r], d, e)
<1>7. TableDe(descriptions[r], E, E) /\ d \in E /\ e \in E BY <1>1, <1>5 DEF Rangees
<1> HIDE DEF E
<1>8. TableDe(ecrites, E, E) /\ DOMAIN ecrites = DOMAIN descriptions[r] \cup {d}
  <2>1. TableDe(ecrites, E, E) BY <1>7, TableDerniere
  <2>2. DOMAIN ecrites = DOMAIN descriptions[r] \cup {d} BY DEF Derniere, Poser
  <2> QED BY <2>1, <2>2
<1> HIDE DEF ecrites
<1>9. TableDe(descriptions'[r], E, E) BY <1>3, <1>7, <1>8 DEF ecrites
<1>10. DOMAIN descriptions'[r] \subseteq DOMAIN descriptions[r] \cup DOMAIN appareils[r]
  BY <1>3, <1>8 DEF ecrites
<1>11. Anodine(r) BY <1>2, <1>4, <1>10 DEF Anodine, Calme
<1> QED BY <1>1, <1>2, <1>3, <1>4, <1>6, <1>9, <1>11, RecueSansEffet DEF Racines, E

LEMMA RecevoirPoint ==
  ASSUME NEW r \in Racine, NEW operation, operation.quoi = "point", Recue(r, operation),
         Calme, AppliquerPoint(r, operation)
  PROVE  Racines' /\ Ailleurs(r) /\ Locale(r)'
<1> DEFINE d == operation.appareil
           e == operation.estampille
<1>1. d \in Emise' /\ e \in Emise' /\ Locale(r) /\ Racines /\ Emise \subseteq Emise'
  BY Champs DEF Recue
<1>2. UNCHANGED <<comptes, reclamations, appareils, descriptions>> BY DEF AppliquerPoint
<1>3. /\ points'[r] = IF Joignable(r, d) THEN Derniere(points[r], d, e) ELSE points[r]
      /\ DOMAIN points' = Racine /\ \A q \in Racine \ {r} : points'[q] = points[q]
  BY <1>1 DEF AppliquerPoint, Racines
<1>4. /\ TableDe(comptes'[r], Emise', CompteDe(Emise')) /\ AliasDe(r)'
      /\ \A k : Efface(r, k)' <=> Efface(r, k)
  BY <1>1, <1>2, MemesComptes
<1>5. Rangees(r, Emise') BY <1>1, RangeesLarges DEF Locale
<1>6. /\ TableDe(appareils'[r], Emise', AppareilDe(Emise'))
      /\ TableDe(descriptions'[r], Emise', Emise')
  BY <1>2, <1>5 DEF Rangees
<1> HIDE DEF d, e
<1> DEFINE E == Emise'
           ecrits == Derniere(points[r], d, e)
<1>7. TableDe(points[r], E, E) /\ d \in E /\ e \in E BY <1>1, <1>5 DEF Rangees
<1> HIDE DEF E
<1>8. TableDe(ecrits, E, E) /\ DOMAIN ecrits = DOMAIN points[r] \cup {d}
  <2>1. TableDe(ecrits, E, E) BY <1>7, TableDerniere
  <2>2. DOMAIN ecrits = DOMAIN points[r] \cup {d} BY DEF Derniere, Poser
  <2> QED BY <2>1, <2>2
<1> HIDE DEF ecrits
<1>9. /\ TableDe(points'[r], E, E)
      /\ \A x \in DOMAIN points'[r] : x \in DOMAIN points[r] \/ (x = d /\ Joignable(r, d))
  BY <1>3, <1>7, <1>8 DEF ecrits
<1>10. PointsDe(r)' BY <1>1, <1>2, <1>9 DEF Locale, PointsDe, Joignable, Revoque
<1>11. Anodine(r) BY <1>2, <1>4 DEF Anodine, Calme
<1> QED BY <1>1, <1>2, <1>3, <1>4, <1>6, <1>9, <1>10, <1>11, RecueSansEffet
        DEF Racines, E

LEMMA RecevoirFin ==
  ASSUME NEW r \in Racine, NEW operation, Recue(r, operation), Calme, UNCHANGED tables
  PROVE  Racines' /\ Ailleurs(r) /\ Locale(r)'
<1>1. /\ Locale(r) /\ Racines /\ Emise \subseteq Emise' /\ demande' = demande
      /\ UNCHANGED <<comptes, reclamations, appareils, descriptions, points>>
  BY DEF Recue, tables
<1>2. Racines' /\ Ailleurs(r) BY <1>1 DEF Racines, Ailleurs, Calme
<1> QED BY <1>1, <1>2, ResteLocale DEF Calme

LEMMA PasRecevoir ==
  ASSUME IInv, NEW r \in Racine, Recevoir(r)
  PROVE  IInv'
<1> DEFINE T == OperationDe(Emise)
           operation == Head(enRoute[r])
<1>1. /\ Retirer(r) /\ Appliquer(r, operation) /\ UNCHANGED <<demande, lentes>>
      /\ surpris' = [surpris EXCEPT ![r] = @ \cup
            (IF operation.quoi = "efface" THEN {demande[r].compte} \cap {operation.compte}
                                          ELSE {})]
  BY DEF Recevoir
<1>2. /\ Locale(r) /\ Racines /\ compteur \in [Racine -> Nat]
      /\ amorcages \in Nat /\ lentes \in Nat /\ enRoute \in [Racine -> Seq(T)]
  BY DEF IInv, Voies
<1>3. \A o \in T : o.estampille.compteur \in Nat BY Champs DEF Emise, Estampille
<1> HIDE DEF T
<1>4. /\ operation \in T /\ enRoute' \in [Racine -> Seq(T)]
      /\ compteur' \in [Racine -> Nat] /\ Emise \subseteq Emise'
      /\ amorcages' = amorcages
  BY <1>1, <1>2, <1>3, Retiree
<1>5. T \subseteq OperationDe(Emise') BY <1>4, Larges DEF T
<1>6. Voies'
  <2>1. enRoute' \in [Racine -> Seq(OperationDe(Emise'))] BY <1>4, <1>5
  <2> QED BY <2>1, <1>1, <1>2, <1>4 DEF Voies
<1>7. Recue(r, operation) BY <1>1, <1>2, <1>4, <1>5 DEF Recue
<1> HIDE DEF operation
<1>8. /\ DOMAIN surpris' = Racine /\ \A q \in Racine \ {r} : surpris'[q] = surpris[q]
      /\ operation.quoi = "efface" =>
           surpris'[r] = surpris[r] \cup ({demande[r].compte} \cap {operation.compte})
      /\ operation.quoi # "efface" => surpris'[r] = surpris[r]
  BY <1>1, <1>2 DEF Racines
<1>9. operation.quoi # "efface" => Calme BY <1>8 DEF Calme
<1>10. Racines' /\ Ailleurs(r) /\ Locale(r)'
  <2>1. CASE operation.quoi = "compte" /\ AppliquerCompte(r, operation)
    BY <2>1, <1>7, <1>9, RecevoirCompte
  <2>2. CASE operation.quoi = "alias" /\ AppliquerAlias(r, operation)
    BY <2>2, <1>7, <1>9, RecevoirAlias
  <2>3. CASE operation.quoi = "efface" /\ AppliquerCompteEfface(r, operation)
    BY <2>3, <1>7, <1>8, RecevoirEffacement, RecevoirSecondEffacement
  <2>4. CASE operation.quoi = "appareil" /\ AppliquerAppareil(r, operation)
    BY <2>4, <1>7, <1>9, RecevoirAppareil
  <2>5. CASE operation.quoi = "revoque" /\ AppliquerAppareilRevoque(r, operation)
    BY <2>5, <1>7, <1>9, RecevoirRevocation
  <2>6. CASE operation.quoi = "atteste" /\ AppliquerAppareilAtteste(r, operation)
    BY <2>6, <1>7, <1>9, RecevoirAttestation
  <2>7. CASE operation.quoi = "description" /\ AppliquerDescription(r, operation)
    BY <2>7, <1>7, <1>9, RecevoirDescription
  <2>8. CASE operation.quoi = "point" /\ AppliquerPoint(r, operation)
    BY <2>8, <1>7, <1>9, RecevoirPoint
  <2>9. CASE operation.quoi = "fin" /\ UNCHANGED tables
    BY <2>9, <1>7, <1>9, RecevoirFin
  <2> QED BY <1>1, <2>1, <2>2, <2>3, <2>4, <2>5, <2>6, <2>7, <2>8, <2>9 DEF Appliquer
<1> QED BY <1>4, <1>6, <1>10, Pas

-----------------------------------------------------------------------------
(* The snapshot of a root is made of operations.                           *)

LEMMA InstantaneTypee ==
  ASSUME NEW q \in Racine, Locale(q)
  PROVE  Instantane(q) \in Seq(OperationDe(Emise))
<1> DEFINE T == OperationDe(Emise)
           dits(f, quoi) == [i \in 1..Cardinality(DOMAIN f) |->
             LET d == SetToSeq(DOMAIN f)[i] IN
             [quoi |-> quoi, estampille |-> f[d], appareil |-> d]]
<1>1. Rangees(q, Emise) BY DEF Locale
<1>2. ASSUME NEW c \in DOMAIN comptes[q] PROVE DuCompte(q, c) \in Seq(T)
  <2>1. c \in Emise /\ comptes[q][c] \in CompteDe(Emise) BY <1>1 DEF Rangees, TableDe
  <2>2. CASE comptes[q][c].efface # "non"
    <3>1. [quoi |-> "efface", estampille |-> comptes[q][c].estampille, compte |-> c,
           cause |-> comptes[q][c].efface] \in T
      BY <2>1, <2>2 DEF OperationDe, CompteDe, Cause
    <3> HIDE DEF T
    <3> QED BY <3>1, <2>2 DEF DuCompte
  <2>3. CASE comptes[q][c].efface = "non"
    <3>1. /\ comptes[q][c].estampille \in Emise /\ comptes[q][c].reclamation \in Emise
          /\ comptes[q][c].alias \in Alias \cup {SansAlias}
      BY <2>1 DEF CompteDe
    <3>2. [quoi |-> "compte", estampille |-> comptes[q][c].estampille, compte |-> c,
           enregistrement |-> comptes[q][c]] \in T
      BY <2>1, <2>3, <3>1 DEF OperationDe
    <3>3. [quoi |-> "alias", estampille |-> comptes[q][c].reclamation, compte |-> c,
           alias |-> comptes[q][c].alias] \in T
      BY <2>1, <3>1 DEF OperationDe
    <3> HIDE DEF T
    <3> QED BY <3>2, <3>3, <2>3 DEF DuCompte
  <2> QED BY <2>2, <2>3
<1>3. ASSUME NEW d \in DOMAIN appareils[q] PROVE DeLAppareil(q, d) \in Seq(T)
  <2>1. d \in Emise /\ appareils[q][d] \in AppareilDe(Emise)
    BY <1>1 DEF Rangees, TableDe
  <2>2. [quoi |-> "appareil", estampille |-> d, appareil |-> d,
         enregistrement |-> appareils[q][d]] \in T
    BY <2>1 DEF OperationDe
  <2>3. Revoque(q, d) =>
          [quoi |-> "revoque", estampille |-> appareils[q][d].revoque, appareil |-> d,
           le |-> appareils[q][d].revoque] \in T
    BY <2>1 DEF OperationDe, AppareilDe, Revoque
  <2>4. [quoi |-> "atteste", estampille |-> d, appareil |-> d] \in T
    BY <2>1 DEF OperationDe
  <2> HIDE DEF T
  <2> QED BY <2>2, <2>3, <2>4 DEF DeLAppareil
<1>4. ASSUME NEW f, TableDe(f, Emise, Emise), NEW quoi \in {"description", "point"}
      PROVE  dits(f, quoi) \in Seq(T)
  <2>1. /\ Cardinality(DOMAIN f) \in Nat
        /\ SetToSeq(DOMAIN f) \in [1..Cardinality(DOMAIN f) -> DOMAIN f]
    BY <1>4, SuiteDe DEF TableDe
  <2>2. \A d \in DOMAIN f : [quoi |-> quoi, estampille |-> f[d], appareil |-> d] \in T
    BY <1>4 DEF TableDe, OperationDe
  <2> HIDE DEF T
  <2>3. dits(f, quoi) \in [1..Cardinality(DOMAIN f) -> T] BY <2>1, <2>2
  <2> HIDE DEF dits
  <2> QED BY <2>1, <2>3
<1>5. FlattenSeq([i \in 1..Cardinality(DOMAIN comptes[q]) |->
                    DuCompte(q, SetToSeq(DOMAIN comptes[q])[i])]) \in Seq(T)
  <2> DEFINE s == [i \in 1..Cardinality(DOMAIN comptes[q]) |->
                     DuCompte(q, SetToSeq(DOMAIN comptes[q])[i])]
  <2>1. /\ Cardinality(DOMAIN comptes[q]) \in Nat
        /\ SetToSeq(DOMAIN comptes[q]) \in
             [1..Cardinality(DOMAIN comptes[q]) -> DOMAIN comptes[q]]
    BY <1>1, SuiteDe DEF Rangees, TableDe
  <2> HIDE DEF T
  <2>2. s \in [1..Cardinality(DOMAIN comptes[q]) -> Seq(T)] BY <2>1, <1>2
  <2> HIDE DEF s
  <2>3. s \in Seq(Seq(T)) BY <2>1, <2>2
  <2>4. FlattenSeq(s) \in Seq(T) BY <2>3, Aplatie
  <2> QED BY <2>4 DEF s
<1>6. FlattenSeq([i \in 1..Cardinality(DOMAIN appareils[q]) |->
                    DeLAppareil(q, SetToSeq(DOMAIN appareils[q])[i])]) \in Seq(T)
  <2> DEFINE s == [i \in 1..Cardinality(DOMAIN appareils[q]) |->
                     DeLAppareil(q, SetToSeq(DOMAIN appareils[q])[i])]
  <2>1. /\ Cardinality(DOMAIN appareils[q]) \in Nat
        /\ SetToSeq(DOMAIN appareils[q]) \in
             [1..Cardinality(DOMAIN appareils[q]) -> DOMAIN appareils[q]]
    BY <1>1, SuiteDe DEF Rangees, TableDe
  <2> HIDE DEF T
  <2>2. s \in [1..Cardinality(DOMAIN appareils[q]) -> Seq(T)] BY <2>1, <1>3
  <2> HIDE DEF s
  <2>3. s \in Seq(Seq(T)) BY <2>1, <2>2
  <2>4. FlattenSeq(s) \in Seq(T) BY <2>3, Aplatie
  <2> QED BY <2>4 DEF s
<1>7. /\ dits(descriptions[q], "description") \in Seq(T)
      /\ dits(points[q], "point") \in Seq(T)
  BY <1>1, <1>4 DEF Rangees
<1> DEFINE dComptes == FlattenSeq([i \in 1..Cardinality(DOMAIN comptes[q]) |->
                                     DuCompte(q, SetToSeq(DOMAIN comptes[q])[i])])
           dAppareils == FlattenSeq([i \in 1..Cardinality(DOMAIN appareils[q]) |->
                                       DeLAppareil(q, SetToSeq(DOMAIN appareils[q])[i])])
           dDescriptions == dits(descriptions[q], "description")
           dPoints == dits(points[q], "point")
<1>8. Instantane(q) = dComptes \o dAppareils \o dDescriptions \o dPoints
  BY DEF Instantane
<1> HIDE DEF T, dits, dComptes, dAppareils, dDescriptions, dPoints
<1>9. /\ dComptes \in Seq(T) /\ dAppareils \in Seq(T)
      /\ dDescriptions \in Seq(T) /\ dPoints \in Seq(T)
  BY <1>5, <1>6, <1>7 DEF dComptes, dAppareils, dDescriptions, dPoints
<1>10. Instantane(q) \in Seq(T) BY <1>8, <1>9
<1> QED BY <1>10 DEF T

LEMMA PasAmorcer ==
  ASSUME IInv, NEW r \in Racine, Amorcer(r)
  PROVE  IInv'
<1> DEFINE T == OperationDe(Emise)
           q == Pair[r]
<1>1. AmorcerPar(r, Instantane(q)) /\ UNCHANGED <<tables, demande, surpris, lentes>>
  BY DEF Amorcer
<1>2. q \in Racine /\ Racines /\ \A x \in Racine : Locale(x) BY RepliqueAssumption DEF IInv
<1>3. /\ compteur \in [Racine -> Nat] /\ amorcages \in Nat /\ lentes \in Nat
      /\ enRoute \in [Racine -> Seq(T)]
  BY DEF IInv, Voies
<1>4. Instantane(q) \in Seq(T) BY <1>2, InstantaneTypee
<1>5. Fin(q) \in T
  <2>1. Fin(q).estampille \in Emise BY <1>2, <1>3, FinEmise
  <2> QED BY <2>1 DEF Fin, OperationDe
<1> HIDE DEF T
<1>6. enRoute' \in [Racine -> Seq(T)] /\ amorcages' \in Nat /\ compteur' = compteur
  BY <1>1, <1>3, <1>4, <1>5, Amorcee
<1>7. Emise' = Emise BY <1>6 DEF Emise
<1>8. Voies' BY <1>1, <1>3, <1>6, <1>7 DEF Voies, T
<1>9. Racines' /\ Ailleurs(r) BY <1>1, <1>2 DEF Racines, Ailleurs, tables
<1>10. Locale(r)'
  <2>1. /\ comptes'[r] = comptes[r] /\ reclamations'[r] = reclamations[r]
        /\ appareils'[r] = appareils[r] /\ descriptions'[r] = descriptions[r]
        /\ points'[r] = points[r] /\ demande'[r] = demande[r] /\ surpris'[r] = surpris[r]
    BY <1>1 DEF tables
  <2> QED BY <2>1, <1>2, <1>7, ResteLocale
<1> QED BY <1>7, <1>8, <1>9, <1>10, Pas

-----------------------------------------------------------------------------
(* The initial states.                                                     *)

LEMMA Ouverte ==
  ASSUME NEW c, NEW compte, compte = Ouvert(c)
  PROVE  /\ compte.estampille = c /\ compte.alias = SansAlias
         /\ compte.reclamation = c /\ compte.efface = "non"
BY DEF Ouvert

LEMMA UnCompteType ==
  ASSUME PremierCompte \in Emise
  PROVE  TableDe(UnCompte, Emise, CompteDe(Emise))
<1>1. Ouvert(PremierCompte) \in CompteDe(Emise) BY DEF Ouvert, CompteDe
<1> QED BY <1>1, SeuleTable DEF UnCompte

LEMMA Depart ==
  ASSUME Init
  PROVE  /\ compteur \in [Racine -> Nat]
         /\ PremierCompte \in Emise /\ PremierAppareil \in Emise /\ SecondAppareil \in Emise
         /\ enRoute \in [Racine -> Seq(OperationDe(Emise))] /\ amorcages = 0
         /\ DOMAIN comptes = Racine /\ DOMAIN appareils = Racine
         /\ \A r \in Racine : /\ TableDe(comptes[r], Emise, CompteDe(Emise))
                             /\ TableDe(appareils[r], Emise, AppareilDe(Emise))
<1>1. PremierCompte \in Estampille BY ComptesAssumption
<1>2. /\ PremierCompte.compteur \in Nat /\ PremierCompte.racine \in Racine
      /\ PremierAppareil \in Estampille /\ SecondAppareil \in Estampille
      /\ PremierAppareil.compteur = PremierCompte.compteur + 1
      /\ SecondAppareil.compteur = PremierCompte.compteur + 2
  BY <1>1 DEF Estampille, PremierAppareil, SecondAppareil
<1>3. CASE InitSeul
  <2>1. /\ compteur = [r \in Racine |-> SecondAppareil.compteur]
        /\ comptes = [r \in Racine |-> UnCompte]
        /\ enRoute = [r \in Racine |-> <<>>] /\ amorcages = 0
        /\ appareils = [r \in Racine |-> Seul(PremierAppareil, Joint(Aucune))]
    BY <1>3 DEF InitSeul, InitVoie
  <2>2. compteur \in [Racine -> Nat] BY <1>2, <2>1
  <2>3. PremierCompte \in Emise /\ PremierAppareil \in Emise /\ SecondAppareil \in Emise
    BY <1>1, <1>2, <2>1 DEF Emise, Estampille
  <2>4. Joint(Aucune) \in AppareilDe(Emise) BY <2>3 DEF Joint, AppareilDe
  <2>5. \A r \in Racine : TableDe(appareils[r], Emise, AppareilDe(Emise))
    BY <2>1, <2>3, <2>4, SeuleTable
  <2>6. enRoute \in [Racine -> Seq(OperationDe(Emise))] BY <2>1
  <2>7. \A r \in Racine : TableDe(comptes[r], Emise, CompteDe(Emise))
    BY <2>1, <2>3, UnCompteType
  <2> QED BY <2>1, <2>2, <2>3, <2>5, <2>6, <2>7
<1>4. CASE InitCroise
  <2> DEFINE ici == PremierCompte.racine
             le == [r \in Racine |-> [compteur |-> SecondAppareil.compteur + 1, racine |-> r]]
             revocation == [quoi |-> "revoque", estampille |-> le[ici],
                            appareil |-> SecondAppareil, le |-> le[ici]]
             un == Joint(le[Pair[ici]])
             deux(r) == Joint(IF r = ici THEN le[ici] ELSE Aucune)
  <2>1. /\ compteur = [r \in Racine |-> SecondAppareil.compteur + 1]
        /\ enRoute = [r \in Racine |-> IF r # Pair[ici] THEN <<>> ELSE <<revocation>>]
        /\ amorcages = 0 /\ comptes = [r \in Racine |-> UnCompte]
        /\ appareils = [r \in Racine |-> Poser(Seul(PremierAppareil, un),
                                               SecondAppareil, deux(r))]
    BY <1>4 DEF InitCroise
  <2>2. compteur \in [Racine -> Nat] BY <1>2, <2>1
  <2>3. PremierCompte \in Emise /\ PremierAppareil \in Emise /\ SecondAppareil \in Emise
    BY <1>1, <1>2, <2>1 DEF Emise, Estampille
  <2>4. \A r \in Racine : le[r] \in Emise BY <1>2, <2>1, <2>2 DEF Emise, Estampille
  <2>5. ici \in Racine /\ Pair[ici] \in Racine BY <1>2, RepliqueAssumption
  <2>6. le[ici] \in Emise /\ le[Pair[ici]] \in Emise BY <2>4, <2>5
  <2> HIDE DEF le
  <2>7. revocation \in OperationDe(Emise) BY <2>3, <2>6 DEF OperationDe
  <2>8. un \in AppareilDe(Emise) /\ \A r \in Racine : deux(r) \in AppareilDe(Emise)
    BY <2>3, <2>6 DEF Joint, AppareilDe
  <2> HIDE DEF un, deux, revocation
  <2>9. TableDe(Seul(PremierAppareil, un), Emise, AppareilDe(Emise))
    BY <2>3, <2>8, SeuleTable
  <2>10. \A r \in Racine : TableDe(appareils[r], Emise, AppareilDe(Emise))
    BY <2>1, <2>3, <2>8, <2>9, PoseeTable
  <2>11. enRoute \in [Racine -> Seq(OperationDe(Emise))]
    <3> DEFINE T == OperationDe(Emise)
    <3>1. revocation \in T BY <2>7
    <3> HIDE DEF T
    <3>2. <<revocation>> \in Seq(T) /\ <<>> \in Seq(T) BY <3>1
    <3>3. enRoute \in [Racine -> Seq(T)] BY <2>1, <3>2
    <3> QED BY <3>3 DEF T
  <2>12. \A r \in Racine : TableDe(comptes[r], Emise, CompteDe(Emise))
    BY <2>1, <2>3, UnCompteType
  <2> QED BY <2>1, <2>2, <2>3, <2>10, <2>11, <2>12
<1>5. CASE InitDeux
  <2> DEFINE un == Joint(Aucune)
             deux == [un EXCEPT !.proprietaire = SecondCompte]
  <2>1. /\ compteur = [r \in Racine |-> SecondAppareil.compteur + 1]
        /\ enRoute = [r \in Racine |-> <<>>] /\ amorcages = 0
        /\ comptes = [r \in Racine |->
                        Poser(UnCompte, SecondCompte, Ouvert(SecondCompte))]
        /\ appareils = [r \in Racine |-> Poser(Seul(PremierAppareil, un),
                                               AutreAppareil, deux)]
    BY <1>5 DEF InitDeux, InitVoie
  <2>2. compteur \in [Racine -> Nat] BY <1>2, <2>1
  <2>3. PremierCompte \in Emise /\ PremierAppareil \in Emise /\ SecondAppareil \in Emise
    BY <1>1, <1>2, <2>1 DEF Emise, Estampille
  <2>4. SecondCompte \in Emise /\ AutreAppareil \in Emise
    <3>1. Pair[PremierCompte.racine] \in Racine BY <1>2, RepliqueAssumption
    <3>2. PremierAppareil = [compteur |-> PremierCompte.compteur + 1,
                             racine |-> PremierCompte.racine]
      BY <1>1 DEF PremierAppareil, Estampille
    <3>3. /\ SecondCompte = [compteur |-> PremierCompte.compteur,
                             racine |-> Pair[PremierCompte.racine]]
          /\ AutreAppareil = [compteur |-> PremierCompte.compteur + 1,
                              racine |-> Pair[PremierCompte.racine]]
      BY <1>1, <3>2 DEF SecondCompte, AutreAppareil, Estampille
    <3>4. SecondCompte \in Estampille /\ AutreAppareil \in Estampille
      BY <1>2, <3>1, <3>3 DEF Estampille
    <3>5. /\ compteur[SecondCompte.racine] = PremierCompte.compteur + 3
          /\ compteur[AutreAppareil.racine] = PremierCompte.compteur + 3
      BY <1>2, <2>1, <3>1, <3>3
    <3>6. /\ SecondCompte.compteur <= compteur[SecondCompte.racine]
          /\ AutreAppareil.compteur <= compteur[AutreAppareil.racine]
      BY <1>2, <3>3, <3>5
    <3> QED BY <3>4, <3>6 DEF Emise
  <2>5. un \in AppareilDe(Emise) /\ deux \in AppareilDe(Emise)
    BY <2>3, <2>4 DEF Joint, AppareilDe
  <2> HIDE DEF un, deux
  <2>6. TableDe(Seul(PremierAppareil, un), Emise, AppareilDe(Emise))
    BY <2>3, <2>5, SeuleTable
  <2>7. \A r \in Racine : TableDe(appareils[r], Emise, AppareilDe(Emise))
    BY <2>1, <2>4, <2>5, <2>6, PoseeTable
  <2>8. TableDe(UnCompte, Emise, CompteDe(Emise)) BY <2>3, UnCompteType
  <2>9. Ouvert(SecondCompte) \in CompteDe(Emise) BY <2>4 DEF Ouvert, CompteDe
  <2>10. \A r \in Racine : TableDe(comptes[r], Emise, CompteDe(Emise))
    BY <2>1, <2>4, <2>8, <2>9, PoseeTable
  <2>11. enRoute \in [Racine -> Seq(OperationDe(Emise))] BY <2>1
  <2> QED BY <2>1, <2>2, <2>3, <2>7, <2>10, <2>11
<1> QED BY <1>3, <1>4, <1>5 DEF Init

\* The accounts there are at first were opened, and nothing more; each device is one of
\* theirs.
LEMMA DepartSimple ==
  ASSUME Init, NEW r \in Racine, NEW q \in Racine
  PROVE  /\ DOMAIN comptes[r] = DOMAIN comptes[q]
         /\ \A c \in DOMAIN comptes[r] :
              /\ comptes[r][c].estampille = c /\ comptes[r][c].alias = SansAlias
              /\ comptes[r][c].reclamation = c /\ comptes[r][c].efface = "non"
              /\ c \in Estampille /\ c.compteur <= compteur[r]
         /\ DOMAIN descriptions[r] = {} /\ DOMAIN points[r] = {}
         /\ \A d \in DOMAIN appareils[r] :
              /\ ~appareils[r][d].prouve
              /\ d \in DOMAIN appareils[q] =>
                   appareils[q][d].proprietaire = appareils[r][d].proprietaire
<1>1. PremierCompte \in Estampille BY ComptesAssumption
<1>2. /\ PremierCompte.compteur \in Nat /\ PremierCompte.racine \in Racine
      /\ PremierAppareil.compteur = PremierCompte.compteur + 1
      /\ SecondAppareil.compteur = PremierCompte.compteur + 2
  BY <1>1 DEF Estampille, PremierAppareil, SecondAppareil
<1>3. DOMAIN descriptions[r] = {} /\ DOMAIN points[r] = {}
  <2>1. descriptions[r] = <<>> /\ points[r] = <<>> BY DEF Init
  <2> QED BY <2>1
<1>4. PICK t, compte : t = UnCompte /\ compte = Ouvert(PremierCompte) OBVIOUS
<1>5. DOMAIN t = {PremierCompte} /\ t[PremierCompte] = compte
  BY <1>4, Seule DEF UnCompte
<1>6. /\ compte.estampille = PremierCompte /\ compte.alias = SansAlias
       /\ compte.reclamation = PremierCompte /\ compte.efface = "non"
  BY <1>4, Ouverte
<1>7. CASE InitSeul
  <2>1. PICK a, joint : a = appareils[r] /\ joint = Joint(Aucune) OBVIOUS
  <2>2. a = Seul(PremierAppareil, joint) BY <1>7, <2>1 DEF InitSeul
  <2>3. DOMAIN a = {PremierAppareil} /\ a[PremierAppareil] = joint BY <2>2, Seule
  <2>4. ~joint.prouve BY <2>1 DEF Joint
  <2>5. /\ compteur[r] = SecondAppareil.compteur
        /\ comptes[r] = t /\ comptes[q] = t /\ appareils[q] = a
    BY <1>4, <1>7, <2>1 DEF InitSeul, InitVoie
  <2> QED BY <1>1, <1>2, <1>3, <1>5, <1>6, <2>1, <2>3, <2>4, <2>5
<1>8. CASE InitCroise
  <2>1. PICK ici, le :
          /\ ici = PremierCompte.racine
          /\ le = [x \in Racine |-> [compteur |-> SecondAppareil.compteur + 1, racine |-> x]]
    OBVIOUS
  <2>2. PICK s, un : un = Joint(le[Pair[ici]]) /\ s = Seul(PremierAppareil, un) OBVIOUS
  <2>3. DOMAIN s = {PremierAppareil} /\ s[PremierAppareil] = un BY <2>2, Seule
  <2>4. ASSUME NEW p \in Racine, NEW d \in DOMAIN appareils[p]
        PROVE  appareils[p][d].proprietaire = PremierCompte /\ ~appareils[p][d].prouve
    <3>1. PICK a, deux : /\ a = appareils[p]
                         /\ deux = Joint(IF p = ici THEN le[ici] ELSE Aucune)
      OBVIOUS
    <3>2. a = Poser(s, SecondAppareil, deux) BY <1>8, <2>1, <2>2, <3>1 DEF InitCroise
    <3>3. a[d] = un \/ a[d] = deux BY <2>3, <2>4, <3>1, <3>2 DEF Poser
    <3>4. /\ un.proprietaire = PremierCompte /\ ~un.prouve
          /\ deux.proprietaire = PremierCompte /\ ~deux.prouve
      BY <2>2, <3>1 DEF Joint
    <3> QED BY <3>1, <3>3, <3>4
  <2>5. /\ compteur[r] = SecondAppareil.compteur + 1
        /\ comptes[r] = t /\ comptes[q] = t
    BY <1>4, <1>8 DEF InitCroise
  <2> QED BY <1>1, <1>2, <1>3, <1>5, <1>6, <2>4, <2>5
<1>9. CASE InitDeux
  <2>1. PICK un, deux, autre :
          /\ un = Joint(Aucune) /\ deux = [un EXCEPT !.proprietaire = SecondCompte]
          /\ autre = Ouvert(SecondCompte)
    OBVIOUS
  <2>2. ~un.prouve /\ ~deux.prouve BY <2>1 DEF Joint
  <2>3. PICK s : s = Seul(PremierAppareil, un) OBVIOUS
  <2>4. DOMAIN s = {PremierAppareil} /\ s[PremierAppareil] = un BY <2>3, Seule
  <2>5. PICK a, u : a = appareils[r] /\ u = comptes[r] OBVIOUS
  <2>6. /\ compteur[r] = SecondAppareil.compteur + 1
        /\ u = Poser(t, SecondCompte, autre) /\ comptes[q] = u
        /\ a = Poser(s, AutreAppareil, deux) /\ appareils[q] = a
    BY <1>4, <1>9, <2>1, <2>3, <2>5 DEF InitDeux, InitVoie
  <2>7. \A d \in DOMAIN a : a[d] = un \/ a[d] = deux BY <2>4, <2>6 DEF Poser
  <2>8. /\ DOMAIN u = {PremierCompte, SecondCompte}
        /\ u[SecondCompte] = autre
        /\ PremierCompte # SecondCompte => u[PremierCompte] = compte
    BY <1>5, <2>6 DEF Poser
  <2>9. SecondCompte \in Estampille /\ SecondCompte.compteur = PremierCompte.compteur
    <3>1. Pair[PremierCompte.racine] \in Racine BY <1>2, RepliqueAssumption
    <3>2. SecondCompte = [compteur |-> PremierCompte.compteur,
                          racine |-> Pair[PremierCompte.racine]]
      BY <1>1 DEF SecondCompte, Estampille
    <3> QED BY <1>2, <3>1, <3>2 DEF Estampille
  <2>10. /\ autre.estampille = SecondCompte /\ autre.alias = SansAlias
         /\ autre.reclamation = SecondCompte /\ autre.efface = "non"
    BY <2>1, Ouverte
  <2>11. ASSUME NEW c \in DOMAIN u
         PROVE  /\ u[c].estampille = c /\ u[c].alias = SansAlias
                /\ u[c].reclamation = c /\ u[c].efface = "non"
                /\ c \in Estampille /\ c.compteur <= compteur[r]
    BY <1>1, <1>2, <1>6, <2>6, <2>8, <2>9, <2>10
  <2> QED BY <1>3, <2>2, <2>5, <2>6, <2>7, <2>11
<1> QED BY <1>7, <1>8, <1>9 DEF Init

LEMMA InitIInv == Init => IInv
<1> SUFFICES ASSUME Init PROVE IInv OBVIOUS
<1>1. /\ compteur \in [Racine -> Nat]
      /\ enRoute \in [Racine -> Seq(OperationDe(Emise))] /\ amorcages = 0
      /\ DOMAIN comptes = Racine /\ DOMAIN appareils = Racine
      /\ \A r \in Racine : /\ TableDe(comptes[r], Emise, CompteDe(Emise))
                          /\ TableDe(appareils[r], Emise, AppareilDe(Emise))
  BY Depart
<1>2. /\ reclamations = [r \in Racine |-> {}]
      /\ descriptions = [r \in Racine |-> <<>>] /\ points = [r \in Racine |-> <<>>]
      /\ demande = [r \in Racine |-> Repos] /\ surpris = [r \in Racine |-> {}]
      /\ lentes = 0
  BY DEF Init
<1>3. Voies BY <1>1, <1>2 DEF Voies
<1>4. Racines BY <1>1, <1>2 DEF Racines
<1>5. ASSUME NEW r \in Racine PROVE Locale(r)
  <2>1. \A c \in DOMAIN comptes[r] :
          comptes[r][c].efface = "non" /\ comptes[r][c].alias = SansAlias
    BY DepartSimple
  <2>2. TableDe(descriptions[r], Emise, Emise) /\ TableDe(points[r], Emise, Emise)
    BY <1>2, Vide
  <2>3. DOMAIN descriptions[r] = {} /\ DOMAIN points[r] = {} BY DepartSimple
  <2>4. demande[r] = Repos /\ surpris[r] = {} /\ reclamations[r] = {} BY <1>2
  <2>5. Rangees(r, Emise) BY <1>1, <2>2, <2>4 DEF Rangees, Demandes
  <2>6. \A k : ~Efface(r, k) BY <2>1 DEF Efface
  <2>7. AliasDe(r)
    <3>1. \A c \in DOMAIN comptes[r] : Reclamation(c, comptes[r][c]) = {}
      BY <2>1 DEF Reclamation
    <3> QED BY <3>1, <2>4 DEF AliasDe
  <2>8. PointsDe(r) BY <2>3 DEF PointsDe
  <2>9. SurvieDe(r) BY <2>3, <2>4, <2>6 DEF SurvieDe
  <2> QED BY <2>5, <2>7, <2>8, <2>9 DEF Locale
<1> QED BY <1>3, <1>4, <1>5 DEF IInv

-----------------------------------------------------------------------------
(* Every step.                                                             *)

LEMMA PasIInv == IInv /\ [Next]_vars => IInv'
<1> SUFFICES ASSUME IInv, [Next]_vars PROVE IInv' OBVIOUS
<1>1. ASSUME NEW r \in Racine, Tarder(r) PROVE IInv' BY <1>1, PasTarder
<1>2. ASSUME NEW r \in Racine, Rendre(r) PROVE IInv' BY <1>2, PasRendre
<1>3. ASSUME NEW r \in Racine, CreerCompte(r) PROVE IInv' BY <1>3, PasCreerCompte
<1>4. ASSUME NEW r \in Racine, Demander(r) PROVE IInv'
  BY <1>4, PasCreerAppareil, PasReclamerAlias, PasEffacerCompte, PasRevoquerAppareil,
     PasAttesterAppareil, PasPoserDescription, PasPoserPoint DEF Demander
<1>5. ASSUME NEW r \in Racine, EffacerUnOrphelin(r) PROVE IInv'
  BY <1>5, PasEffacerUnOrphelin
<1>6. ASSUME NEW r \in Racine, Recevoir(r) PROVE IInv' BY <1>6, PasRecevoir
<1>7. ASSUME NEW r \in Racine, Amorcer(r) PROVE IInv' BY <1>7, PasAmorcer
<1>8. CASE UNCHANGED vars
  <2>1. UNCHANGED <<compteur, enRoute, amorcages, lentes>> /\ Emise' = Emise
    BY <1>8 DEF vars, voie, Emise
  <2>2. UNCHANGED <<comptes, reclamations, appareils, descriptions, points, demande, surpris>>
    BY <1>8 DEF vars, tables
  <2>3. Voies' /\ Racines' BY <2>1, <2>2 DEF IInv, Voies, Racines
  <2>4. ASSUME NEW r \in Racine PROVE Locale(r)'
    <3>1. Emise \subseteq Emise' BY <2>1
    <3> QED BY <3>1, <2>2, ResteLocale DEF IInv
  <2> QED BY <2>3, <2>4 DEF IInv
<1> QED BY <1>1, <1>2, <1>3, <1>4, <1>5, <1>6, <1>7, <1>8 DEF Next

LEMMA SpecIInv == Spec => []IInv
<1> QED BY InitIInv, PasIInv, PTL DEF Spec

-----------------------------------------------------------------------------
(* What follows from the invariant.                                        *)

LEMMA IInvTablesJustes == IInv => TablesJustes
<1> SUFFICES ASSUME IInv PROVE TablesJustes OBVIOUS
<1>1. /\ compteur \in [Racine -> Nat] /\ amorcages \in Nat /\ lentes \in Nat
      /\ enRoute \in [Racine -> Seq(OperationDe(Emise))]
  BY DEF IInv, Voies
<1>2. Emise \subseteq Estampille BY DEF Emise
<1>3. CompteDe(Emise) \subseteq Compte BY <1>2 DEF CompteDe, Compte, Cause
<1>4. AppareilDe(Emise) \subseteq Appareil BY <1>2 DEF AppareilDe, Appareil
<1>5. OperationDe(Emise) \subseteq Operation
  BY <1>2, <1>3, <1>4 DEF OperationDe, Operation, Cause
<1>6. ASSUME NEW r \in Racine
      PROVE  /\ \A i \in DOMAIN enRoute[r] : enRoute[r][i] \in Operation
             /\ EstTable(comptes[r], Estampille, Compte)
             /\ reclamations[r] \subseteq
                  [alias : Alias, estampille : Estampille, compte : Estampille]
             /\ EstTable(appareils[r], Estampille, Appareil)
             /\ EstTable(descriptions[r], Estampille, Estampille)
             /\ EstTable(points[r], Estampille, Estampille)
             /\ demande[r] \in [appareil : Estampille \cup {Aucune},
                                compte : Estampille \cup {Aucune}]
             /\ surpris[r] \subseteq Estampille
  <2>1. Rangees(r, Emise) /\ AliasDe(r) BY DEF IInv, Locale
  <2>2. \A i \in DOMAIN enRoute[r] : enRoute[r][i] \in Operation
    <3> DEFINE T == OperationDe(Emise)
    <3>1. enRoute[r] \in Seq(T) BY <1>1
    <3> HIDE DEF T
    <3>2. \A i \in DOMAIN enRoute[r] : enRoute[r][i] \in T BY <3>1
    <3> QED BY <3>2, <1>5 DEF T
  <2>3. /\ EstTable(comptes[r], Estampille, Compte)
        /\ EstTable(appareils[r], Estampille, Appareil)
        /\ EstTable(descriptions[r], Estampille, Estampille)
        /\ EstTable(points[r], Estampille, Estampille)
        /\ surpris[r] \subseteq Estampille
    BY <1>2, <1>3, <1>4, <2>1 DEF Rangees, TableDe, EstTable
  <2>4. \A c \in DOMAIN comptes[r] :
          /\ c \in Estampille /\ comptes[r][c].reclamation \in Estampille
          /\ comptes[r][c].alias \in Alias \cup {SansAlias}
    BY <2>3 DEF EstTable, Compte
  <2>5. reclamations[r] \subseteq [alias : Alias, estampille : Estampille, compte : Estampille]
    BY <2>1, <2>4 DEF AliasDe, Reclamation
  <2>6. demande[r] \in [appareil : Estampille \cup {Aucune},
                        compte : Estampille \cup {Aucune}]
    BY <1>2, <2>1 DEF Rangees, Demandes, Repos
  <2> QED BY <2>2, <2>3, <2>5, <2>6
<1>7. TypeOK BY <1>1, <1>6 DEF TypeOK
<1>8. AliasJuste /\ PointsJustes
  BY DEF IInv, Locale, AliasDe, PointsDe, AliasJuste, PointsJustes
<1> QED BY <1>7, <1>8 DEF TablesJustes

\* On a root, the index of aliases always says what the rows say, and no push point
\* outlives its device (comptes, reclamations, points).
THEOREM ComptesTablesJustes == Spec => []TablesJustes
<1> QED BY SpecIInv, IInvTablesJustes, PTL

\* What an erased account owned does not come back, with an operation of the peer or
\* a snapshot, unless the erasure came between the two transactions of a request.
THEOREM ComptesRienNeSurvit == Spec => []RienNeSurvit
<1>1. IInv => RienNeSurvit BY DEF IInv, Locale, SurvieDe, RienNeSurvit
<1> QED BY <1>1, SpecIInv, PTL

-----------------------------------------------------------------------------
(* What no step takes back.                                                *)

\* On root r: an erasure, a revocation, an attestation.
Tenace(r) ==
  /\ \A c \in DOMAIN comptes[r] : Efface(r, c) =>
       /\ c \in DOMAIN comptes'[r] /\ comptes'[r][c].efface # "non"
       /\ ~Avant(comptes[r][c].estampille, comptes'[r][c].estampille)
  /\ \A d \in DOMAIN appareils[r] \cap DOMAIN appareils'[r] :
       /\ Revoque(r, d) =>
            /\ appareils'[r][d].revoque # Aucune
            /\ ~Avant(appareils[r][d].revoque, appareils'[r][d].revoque)
       /\ appareils[r][d].prouve => appareils'[r][d].prouve

LEMMA RangeesTypees ==
  ASSUME IInv, NEW r \in Racine
  PROVE  /\ \A c \in DOMAIN comptes[r] : c \in Emise /\ comptes[r][c].estampille \in Estampille
         /\ \A d \in DOMAIN appareils[r] :
              /\ d \in Emise /\ appareils[r][d] \in AppareilDe(Emise)
              /\ Revoque(r, d) => appareils[r][d].revoque \in Estampille
         /\ \A e \in Estampille : ~Avant(e, e)
<1>1. Emise \subseteq Estampille BY DEF Emise
<1>2. \A c \in DOMAIN comptes[r] : c \in Emise /\ comptes[r][c].estampille \in Emise
  BY DEF IInv, Locale, Rangees, TableDe, CompteDe
<1>3. \A d \in DOMAIN appareils[r] : d \in Emise /\ appareils[r][d] \in AppareilDe(Emise)
  BY DEF IInv, Locale, Rangees, TableDe
<1>4. \A d \in DOMAIN appareils[r] : Revoque(r, d) => appareils[r][d].revoque \in Emise
  BY <1>3 DEF AppareilDe, Revoque
<1>5. \A e \in Estampille : ~Avant(e, e) BY OrdreTotal
<1> QED BY <1>1, <1>2, <1>3, <1>4, <1>5

LEMMA MemesTablesTenaces ==
  ASSUME IInv, NEW r \in Racine, comptes'[r] = comptes[r], appareils'[r] = appareils[r]
  PROVE  Tenace(r)
BY RangeesTypees DEF Tenace, Efface, Revoque

\* Rows of accounts that are not erased are written, and no device.
LEMMA EcrituresTenaces ==
  ASSUME IInv, NEW r \in Racine, NEW c, NEW compte, NEW partie,
         Ranger(r, c, compte, partie), ~Efface(r, c), UNCHANGED appareils
  PROVE  Tenace(r)
<1>1. comptes'[r] = Poser(comptes[r], c, compte) BY DEF Ranger, IInv, Racines
<1> QED BY <1>1, RangeesTypees DEF Tenace, Efface, Revoque, Poser

LEMMA EffacementsTenaces ==
  ASSUME IInv, NEW r \in Racine, NEW c, NEW cause, NEW e,
         EffacerDans(r, c, cause, e), ~Efface(r, c)
  PROVE  Tenace(r)
<1> DEFINE compte == [estampille |-> e, alias |-> SansAlias, reclamation |-> e,
                      efface |-> cause]
<1>1. comptes'[r] = Poser(comptes[r], c, compte)
  BY DEF EffacerDans, Ranger, IInv, Racines
<1>2. appareils'[r] = Sans(appareils[r], Possede(r, c)) BY DEF EffacerDans, IInv, Racines
<1>3. \A d \in DOMAIN appareils[r] \cap DOMAIN appareils'[r] :
        appareils'[r][d] = appareils[r][d]
  BY <1>2 DEF Sans
<1>4. \A k \in DOMAIN comptes[r] : Efface(r, k) =>
        k \in DOMAIN comptes'[r] /\ comptes'[r][k] = comptes[r][k]
  BY <1>1 DEF Poser
<1> QED BY <1>3, <1>4, RangeesTypees DEF Tenace, Efface, Revoque

\* A device is written where there is none, or keeps what is not taken back.
LEMMA AppareilsTenaces ==
  ASSUME IInv, NEW r \in Racine, comptes'[r] = comptes[r],
         \A d \in DOMAIN appareils[r] : d \in DOMAIN appareils'[r] =>
           /\ appareils[r][d].prouve => appareils'[r][d].prouve
           /\ Revoque(r, d) =>
                /\ appareils'[r][d].revoque # Aucune
                /\ ~Avant(appareils[r][d].revoque, appareils'[r][d].revoque)
  PROVE  Tenace(r)
BY RangeesTypees DEF Tenace, Efface

LEMMA DemandeTenace ==
  ASSUME IInv, NEW r \in Racine, NEW qui \in Demandeurs(r),
         \/ CreerAppareil(r, qui) \/ ReclamerAlias(r, qui) \/ EffacerCompte(r, qui)
         \/ RevoquerAppareil(r, qui) \/ AttesterAppareil(r, qui)
         \/ PoserDescription(r, qui) \/ PoserPoint(r, qui)
  PROVE  Tenace(r)
<1>0. Racines BY DEF IInv
<1>1. CASE CreerAppareil(r, qui)
  <2>1. PICK appareil, operation :
          /\ appareils' = [appareils EXCEPT ![r] = Poser(@, Suivante(r), appareil)]
          /\ Journaliser(r, operation) /\ UNCHANGED comptes
    BY <1>1 DEF CreerAppareil
  <2>2. Suivante(r) \notin Emise BY <2>1, Estampillee
  <2>3. appareils'[r] = Poser(appareils[r], Suivante(r), appareil) BY <1>0, <2>1 DEF Racines
  <2>4. \A d \in DOMAIN appareils[r] : appareils'[r][d] = appareils[r][d]
    BY <2>2, <2>3, RangeesTypees DEF Poser
  <2> QED BY <2>1, <2>4, RangeesTypees, AppareilsTenaces DEF Revoque
<1>2. CASE ReclamerAlias(r, qui)
  <2>1. PICK compte, partie : Ranger(r, qui.compte, compte, partie)
    BY <1>2 DEF ReclamerAlias
  <2> QED BY <1>2, <2>1, EcrituresTenaces DEF ReclamerAlias
<1>3. CASE EffacerCompte(r, qui)
  BY <1>3, EffacementsTenaces DEF EffacerCompte, Effacer
<1>4. CASE RevoquerAppareil(r, qui)
  <2>1. PICK d \in Possede(r, qui.compte) \ {qui.appareil} :
          /\ ~Revoque(r, d) /\ appareils' = [appareils EXCEPT ![r][d].revoque = Suivante(r)]
    BY <1>4 DEF RevoquerAppareil
  <2>2. comptes'[r] = comptes[r] BY <1>4 DEF RevoquerAppareil
  <2>3. \A x \in DOMAIN appareils[r] :
          /\ appareils'[r][x].prouve = appareils[r][x].prouve
          /\ x # d => appareils'[r][x] = appareils[r][x]
    BY <1>0, <2>1, RangeesTypees DEF Racines, AppareilDe
  <2> QED BY <2>1, <2>2, <2>3, RangeesTypees, AppareilsTenaces DEF Revoque
<1>5. CASE AttesterAppareil(r, qui)
  <2> DEFINE d == qui.appareil
  <2>1. /\ appareils' = [appareils EXCEPT ![r][d].prouve = TRUE] /\ d \in DOMAIN appareils[r]
        /\ comptes'[r] = comptes[r]
    BY <1>5 DEF AttesterAppareil
  <2>2. \A x \in DOMAIN appareils[r] :
          /\ appareils[r][x].prouve => appareils'[r][x].prouve
          /\ appareils'[r][x].revoque = appareils[r][x].revoque
    BY <1>0, <2>1, RangeesTypees DEF Racines, AppareilDe
  <2> QED BY <2>1, <2>2, RangeesTypees, AppareilsTenaces DEF Revoque
<1>6. CASE PoserDescription(r, qui)
  BY <1>6, MemesTablesTenaces DEF PoserDescription
<1>7. CASE PoserPoint(r, qui)
  BY <1>7, MemesTablesTenaces DEF PoserPoint
<1> QED BY <1>1, <1>2, <1>3, <1>4, <1>5, <1>6, <1>7

LEMMA ReceptionTenace ==
  ASSUME IInv, NEW r \in Racine, Recevoir(r)
  PROVE  Tenace(r)
<1> DEFINE T == OperationDe(Emise)
           operation == Head(enRoute[r])
<1>1. Racines BY DEF IInv
<1>2. Appliquer(r, operation) BY DEF Recevoir
<1>3. operation \in T
  <2>1. enRoute[r] \in Seq(T) /\ enRoute[r] # <<>> BY DEF IInv, Voies, Recevoir, Retirer
  <2> HIDE DEF T
  <2> QED BY <2>1
<1>4. /\ operation.estampille \in Estampille
      /\ operation.quoi = "efface" => operation.cause # "non"
      /\ operation.quoi = "revoque" => operation.le \in Estampille
  BY <1>3, Champs DEF Emise, Cause
<1> HIDE DEF operation, T
<1>5. CASE operation.quoi = "compte" /\ AppliquerCompte(r, operation)
  <2>1. CASE operation.compte \in DOMAIN comptes[r]
    BY <1>5, <2>1, MemesTablesTenaces DEF AppliquerCompte
  <2>2. CASE operation.compte \notin DOMAIN comptes[r]
    <3>1. ~Efface(r, operation.compte) BY <2>2 DEF Efface
    <3> QED BY <1>5, <2>2, <3>1, EcrituresTenaces DEF AppliquerCompte
  <2> QED BY <2>1, <2>2
<1>6. CASE operation.quoi = "alias" /\ AppliquerAlias(r, operation)
  <2>1. CASE Reclamante(r, operation.compte, operation.estampille)
    <3>1. ~Efface(r, operation.compte) BY <2>1 DEF Reclamante
    <3> QED BY <1>6, <2>1, <3>1, EcrituresTenaces DEF AppliquerAlias
  <2>2. CASE ~Reclamante(r, operation.compte, operation.estampille)
    BY <1>6, <2>2, MemesTablesTenaces DEF AppliquerAlias
  <2> QED BY <2>1, <2>2
<1>7. CASE operation.quoi = "efface" /\ AppliquerCompteEfface(r, operation)
  <2> DEFINE c == operation.compte
             tenu == comptes[r][c]
  <2>1. CASE Efface(r, c)
    <3>1. /\ UNCHANGED appareils
          /\ comptes' = [comptes EXCEPT ![r][c] =
              IF Avant(operation.estampille, @.estampille)
                THEN [@ EXCEPT !.estampille = operation.estampille,
                               !.reclamation = operation.estampille,
                               !.efface = operation.cause]
                ELSE @]
      BY <1>7, <2>1 DEF AppliquerCompteEfface
    <3>2. c \in DOMAIN comptes[r] /\ tenu.efface # "non" BY <2>1 DEF Efface
    <3>3. tenu \in CompteDe(Emise)
      BY <3>2 DEF IInv, Locale, Rangees, TableDe
    <3>4. /\ DOMAIN comptes'[r] = DOMAIN comptes[r]
          /\ \A k \in DOMAIN comptes[r] : k # c => comptes'[r][k] = comptes[r][k]
          /\ comptes'[r][c].efface # "non"
          /\ comptes'[r][c].estampille = tenu.estampille
             \/ (comptes'[r][c].estampille = operation.estampille
                 /\ Avant(operation.estampille, tenu.estampille))
      BY <1>1, <1>4, <1>7, <3>1, <3>2, <3>3 DEF Racines, CompteDe
    <3>5. ~Avant(tenu.estampille, comptes'[r][c].estampille)
      BY <1>4, <3>2, <3>4, RangeesTypees, OrdreTotal
    <3> QED BY <3>1, <3>4, <3>5, RangeesTypees DEF Tenace, Efface, Revoque
  <2>2. CASE ~Efface(r, c)
    BY <1>7, <2>2, EffacementsTenaces DEF AppliquerCompteEfface
  <2> QED BY <2>1, <2>2
<1>8. CASE operation.quoi = "appareil" /\ AppliquerAppareil(r, operation)
  <2>1. appareils'[r] = IF Admis(r, operation)
                          THEN Poser(appareils[r], operation.appareil, operation.enregistrement)
                          ELSE appareils[r]
    BY <1>1, <1>8 DEF AppliquerAppareil, Racines
  <2>2. \A d \in DOMAIN appareils[r] : appareils'[r][d] = appareils[r][d]
    BY <2>1 DEF Admis, Poser
  <2>3. comptes'[r] = comptes[r] BY <1>8 DEF AppliquerAppareil
  <2> QED BY <2>2, <2>3, RangeesTypees, AppareilsTenaces DEF Revoque
<1>9. CASE operation.quoi = "revoque" /\ AppliquerAppareilRevoque(r, operation)
  <2> DEFINE d == operation.appareil
  <2>1. CASE d \notin DOMAIN appareils[r]
    BY <1>9, <2>1, MemesTablesTenaces DEF AppliquerAppareilRevoque
  <2>2. CASE d \in DOMAIN appareils[r]
    <3>1. /\ comptes'[r] = comptes[r]
          /\ appareils' = [appareils EXCEPT ![r][d].revoque = PremiereDate(@, operation.le)]
      BY <1>9, <2>2 DEF AppliquerAppareilRevoque
    <3>2. \A x \in DOMAIN appareils[r] :
            /\ appareils'[r][x].prouve = appareils[r][x].prouve
            /\ x # d => appareils'[r][x] = appareils[r][x]
            /\ x = d => appareils'[r][x].revoque =
                          PremiereDate(appareils[r][x].revoque, operation.le)
      BY <1>1, <2>2, <3>1, RangeesTypees DEF Racines, AppareilDe
    <3>3. Revoque(r, d) =>
            LET le == PremiereDate(appareils[r][d].revoque, operation.le) IN
            /\ le # Aucune /\ ~Avant(appareils[r][d].revoque, le)
      BY <1>4, <1>9, <2>2, RangeesTypees, Extremes, PasDEstampille
         DEF PremiereDate, Revoque
    <3> QED BY <3>1, <3>2, <3>3, RangeesTypees, AppareilsTenaces DEF Revoque
  <2> QED BY <2>1, <2>2
<1>10. CASE operation.quoi = "atteste" /\ AppliquerAppareilAtteste(r, operation)
  <2> DEFINE d == operation.appareil
  <2>1. CASE d \notin DOMAIN appareils[r]
    BY <1>10, <2>1, MemesTablesTenaces DEF AppliquerAppareilAtteste
  <2>2. CASE d \in DOMAIN appareils[r]
    <3>1. /\ comptes'[r] = comptes[r]
          /\ appareils' = [appareils EXCEPT ![r][d].prouve = TRUE]
      BY <1>10, <2>2 DEF AppliquerAppareilAtteste
    <3>2. \A x \in DOMAIN appareils[r] :
            /\ appareils[r][x].prouve => appareils'[r][x].prouve
            /\ appareils'[r][x].revoque = appareils[r][x].revoque
      BY <1>1, <2>2, <3>1, RangeesTypees DEF Racines, AppareilDe
    <3> QED BY <3>1, <3>2, RangeesTypees, AppareilsTenaces DEF Revoque
  <2> QED BY <2>1, <2>2
<1>11. CASE operation.quoi = "description" /\ AppliquerDescription(r, operation)
  BY <1>11, MemesTablesTenaces DEF AppliquerDescription
<1>12. CASE operation.quoi = "point" /\ AppliquerPoint(r, operation)
  BY <1>12, MemesTablesTenaces DEF AppliquerPoint
<1>13. CASE operation.quoi = "fin" /\ UNCHANGED tables
  BY <1>13, MemesTablesTenaces DEF tables
<1> QED BY <1>2, <1>5, <1>6, <1>7, <1>8, <1>9, <1>10, <1>11, <1>12, <1>13 DEF Appliquer

\* A step is a step of one root: the tables of the other do not move.
LEMMA UneSeuleRacine ==
  ASSUME IInv, NEW r \in Racine,
         \/ Tarder(r) \/ Rendre(r) \/ CreerCompte(r) \/ Demander(r)
         \/ EffacerUnOrphelin(r) \/ Recevoir(r) \/ Amorcer(r),
         NEW q \in Racine, q # r
  PROVE  comptes'[q] = comptes[q] /\ appareils'[q] = appareils[q]
<1>0. Racines BY DEF IInv
<1>1. CASE Tarder(r) \/ Rendre(r) \/ Amorcer(r)
  BY <1>1 DEF Tarder, Rendre, Amorcer, tables
<1>2. CASE CreerCompte(r) BY <1>0, <1>2 DEF CreerCompte, Ranger, Racines
<1>3. CASE Demander(r)
  <2>0. PICK qui : CreerAppareil(r, qui) \/ ReclamerAlias(r, qui) \/ EffacerCompte(r, qui)
                   \/ RevoquerAppareil(r, qui) \/ AttesterAppareil(r, qui)
                   \/ PoserDescription(r, qui) \/ PoserPoint(r, qui)
    BY <1>3 DEF Demander
  <2>1. CASE CreerAppareil(r, qui)
    BY <1>0, <2>1 DEF CreerAppareil, Racines
  <2>2. CASE ReclamerAlias(r, qui)
    BY <1>0, <2>2 DEF ReclamerAlias, Ranger, Racines
  <2>3. CASE EffacerCompte(r, qui)
    BY <1>0, <2>3 DEF EffacerCompte, Effacer, EffacerDans, Ranger, Racines
  <2>4. CASE RevoquerAppareil(r, qui)
    BY <1>0, <2>4 DEF RevoquerAppareil, Racines
  <2>5. CASE AttesterAppareil(r, qui)
    BY <1>0, <2>5 DEF AttesterAppareil, Racines
  <2>6. CASE PoserDescription(r, qui)
    BY <1>0, <2>6 DEF PoserDescription, Racines
  <2>7. CASE PoserPoint(r, qui)
    BY <1>0, <2>7 DEF PoserPoint, Racines
  <2> QED BY <2>0, <2>1, <2>2, <2>3, <2>4, <2>5, <2>6, <2>7
<1>4. CASE EffacerUnOrphelin(r)
  BY <1>0, <1>4 DEF EffacerUnOrphelin, Effacer, EffacerDans, Ranger, Racines
<1>5. CASE Recevoir(r)
  BY <1>0, <1>5 DEF Recevoir, Appliquer, AppliquerCompte, AppliquerAlias,
     AppliquerCompteEfface, AppliquerAppareil, AppliquerAppareilRevoque,
     AppliquerAppareilAtteste, AppliquerDescription, AppliquerPoint, EffacerDans,
     Ranger, Racines, tables
<1> QED BY <1>1, <1>2, <1>3, <1>4, <1>5

LEMMA PasTenace == IInv /\ [Next]_vars => \A r \in Racine : Tenace(r)
<1> SUFFICES ASSUME IInv, [Next]_vars, NEW q \in Racine PROVE Tenace(q) OBVIOUS
<1>1. CASE UNCHANGED vars BY <1>1, MemesTablesTenaces DEF vars, tables
<1>2. CASE Next
  <2>1. PICK r \in Racine :
          \/ Tarder(r) \/ Rendre(r) \/ CreerCompte(r) \/ Demander(r)
          \/ EffacerUnOrphelin(r) \/ Recevoir(r) \/ Amorcer(r)
    BY <1>2 DEF Next
  <2>2. CASE q # r BY <2>1, <2>2, UneSeuleRacine, MemesTablesTenaces
  <2>3. CASE q = r
    <3>1. CASE Tarder(r) \/ Rendre(r) \/ Amorcer(r)
      BY <2>3, <3>1, MemesTablesTenaces DEF Tarder, Rendre, Amorcer, tables
    <3>2. CASE CreerCompte(r)
      <4>1. PICK compte, operation :
              /\ Ranger(r, Suivante(r), compte, {}) /\ Journaliser(r, operation)
              /\ UNCHANGED appareils
        BY <3>2 DEF CreerCompte
      <4>2. Suivante(r) \notin Emise BY <4>1, Estampillee
      <4>3. ~Efface(r, Suivante(r)) BY <4>2, RangeesTypees DEF Efface
      <4> QED BY <2>3, <4>1, <4>3, EcrituresTenaces
    <3>3. CASE Demander(r) BY <2>3, <3>3, DemandeTenace DEF Demander
    <3>4. CASE EffacerUnOrphelin(r)
      BY <2>3, <3>4, EffacementsTenaces DEF EffacerUnOrphelin, Effacer
    <3>5. CASE Recevoir(r) BY <2>3, <3>5, ReceptionTenace
    <3> QED BY <2>1, <3>1, <3>2, <3>3, <3>4, <3>5
  <2> QED BY <2>2, <2>3
<1> QED BY <1>1, <1>2

\* No step of a root, and nothing of the peer, takes back an erasure, a revocation or
\* an attestation, nor moves the mark of the first two to a later one.
THEOREM ComptesIrreversible == Spec => Irreversible
<1>1. IInv /\ [Next]_vars =>
        \A r \in Racine :
          /\ \A c \in DOMAIN comptes[r] : Efface(r, c) =>
               /\ c \in DOMAIN comptes'[r] /\ comptes'[r][c].efface # "non"
               /\ ~Avant(comptes[r][c].estampille, comptes'[r][c].estampille)
          /\ \A d \in DOMAIN appareils[r] \cap DOMAIN appareils'[r] :
               /\ Revoque(r, d) =>
                    /\ appareils'[r][d].revoque # Aucune
                    /\ ~Avant(appareils[r][d].revoque, appareils'[r][d].revoque)
               /\ appareils[r][d].prouve => appareils'[r][d].prouve
  BY PasTenace DEF Tenace
<1> QED BY <1>1, SpecIInv, PTL DEF Spec, Irreversible

-----------------------------------------------------------------------------
(* Convergence.  A root knows facts: a kind g, a key k, a value v.          *)

\* The claim that a row of an account carries.  The one of its creation is left out:
\* both rows start with it.
Pretention(x, e) == [alias |-> x, estampille |-> e]

\* What the tables of a root hold.
TenuCompte(q, g, k, v) ==
  /\ k \in DOMAIN comptes[q]
  /\ \/ g = "compte" /\ v = k
     \/ /\ g = "alias" /\ ~Efface(q, k) /\ comptes[q][k].reclamation # k
        /\ v = Pretention(comptes[q][k].alias, comptes[q][k].reclamation)
     \/ /\ g = "efface" /\ Efface(q, k)
        /\ v = [cause |-> comptes[q][k].efface, estampille |-> comptes[q][k].estampille]

TenuAppareil(q, g, k, v) ==
  /\ k \in DOMAIN appareils[q]
  /\ \/ g = "appareil" /\ v = appareils[q][k].proprietaire
     \/ g = "revoque" /\ Revoque(q, k) /\ v = appareils[q][k].revoque
     \/ g = "atteste" /\ appareils[q][k].prouve /\ v = k

Tenu(q, g, k, v) ==
  \/ TenuCompte(q, g, k, v) \/ TenuAppareil(q, g, k, v)
  \/ g = "description" /\ k \in DOMAIN descriptions[q] /\ v = descriptions[q][k]
  \/ g = "point" /\ k \in DOMAIN points[q] /\ v = points[q][k]

\* What an operation makes known to whoever applies it.
Dit(op, g, k, v) ==
  \/ op.quoi = "compte" /\ k = op.compte /\ g = "compte" /\ v = k
  \/ /\ op.quoi = "alias" /\ k = op.compte /\ g = "alias" /\ op.estampille # k
     /\ v = Pretention(op.alias, op.estampille)
  \/ /\ op.quoi = "efface" /\ k = op.compte
     /\ \/ g = "compte" /\ v = k
        \/ g = "efface" /\ v = [cause |-> op.cause, estampille |-> op.estampille]
  \/ /\ op.quoi = "appareil" /\ k = op.appareil
     /\ g = "appareil" /\ v = op.enregistrement.proprietaire
  \/ op.quoi = "revoque" /\ k = op.appareil /\ g = "revoque" /\ v = op.le
  \/ op.quoi = "atteste" /\ k = op.appareil /\ g = "atteste" /\ v = k
  \/ /\ op.quoi \in {"description", "point"} /\ k = op.appareil /\ g = op.quoi
     /\ v = op.estampille

\* And what the record it carries says, where the row was not there.
Porte(op, g, k, v) ==
  \/ Dit(op, g, k, v)
  \/ /\ op.quoi = "compte" /\ k = op.compte /\ g = "alias"
     /\ op.enregistrement.reclamation # k
     /\ v = Pretention(op.enregistrement.alias, op.enregistrement.reclamation)
  \/ /\ op.quoi = "appareil" /\ k = op.appareil
     /\ \/ /\ g = "revoque" /\ op.enregistrement.revoque # Aucune
           /\ v = op.enregistrement.revoque
        \/ g = "atteste" /\ op.enregistrement.prouve /\ v = k

\* A fact that is somewhere: in a table or on its way.
Vu(g, k, v) ==
  \E q \in Racine :
    Tenu(q, g, k, v) \/ \E i \in DOMAIN enRoute[q] : Porte(enRoute[q][i], g, k, v)

\* The stamp of the operation that first said a fact.
Marque(g, k, v) == IF g = "appareil" THEN k ELSE v.estampille

\* A stamp was given to one operation.
Unicite ==
  \A g \in {"alias", "efface", "appareil"} : \A k, v, w :
    Vu(g, k, v) /\ Vu(g, k, w) /\ Marque(g, k, v) = Marque(g, k, w) => v = w

\* The account of the device is erased, as far as this root knows.
Delaisse(q, d) == \A c : Vu("appareil", d, c) => Efface(q, c)

Connu(q, d) == d \in DOMAIN appareils[q] \/ Delaisse(q, d)

\* The root knows at least this.
SuCompte(q, g, k, v) ==
  /\ k \in DOMAIN comptes[q]
  /\ g = "alias" => Efface(q, k) \/ ~Avant(comptes[q][k].reclamation, v.estampille)
  /\ g = "efface" => Efface(q, k) /\ ~Avant(v.estampille, comptes[q][k].estampille)

SuAppareil(q, g, k, v) ==
  /\ Connu(q, k)
  /\ g = "revoque" => Delaisse(q, k) \/ (Revoque(q, k) /\ ~Avant(v, appareils[q][k].revoque))
  /\ g = "atteste" => Delaisse(q, k) \/ appareils[q][k].prouve
  /\ g = "description" =>
       \/ Delaisse(q, k)
       \/ k \in DOMAIN descriptions[q] /\ ~Avant(descriptions[q][k], v)
  /\ g = "point" =>
       \/ Delaisse(q, k) \/ Revoque(q, k)
       \/ k \in DOMAIN points[q] /\ ~Avant(points[q][k], v)

Su(q, g, k, v) ==
  IF g \in {"compte", "alias", "efface"} THEN SuCompte(q, g, k, v) ELSE SuAppareil(q, g, k, v)

\* What r has still to apply is known to the root that sent it.
Verite(r) ==
  \A i \in DOMAIN enRoute[r] : \A g, k, v :
    Porte(enRoute[r][i], g, k, v) => Su(Pair[r], g, k, v)

\* What a root holds is known to the other one, or on its way to it.
Couverture(r) ==
  \A g, k, v : Tenu(Pair[r], g, k, v) =>
    Su(r, g, k, v) \/ \E i \in DOMAIN enRoute[r] : Dit(enRoute[r][i], g, k, v)

\* What is said of an account or a device comes after it.
Precedee(r, i) ==
  LET op == enRoute[r][i] IN
  /\ op.quoi = "alias" =>
       \/ op.compte \in DOMAIN comptes[r]
       \/ \E j \in 1..(i-1) : Dit(enRoute[r][j], "compte", op.compte, op.compte)
  /\ op.quoi \in {"revoque", "atteste", "description", "point"} =>
       \/ Connu(r, op.appareil)
       \/ \E j \in 1..(i-1) : \E c : Dit(enRoute[r][j], "appareil", op.appareil, c)

\* A row bears the stamp of its claim, that of its creation as long as there is none.
Saine(c, compte) ==
  /\ compte.estampille = compte.reclamation
  /\ compte.efface = "non" =>
       /\ ~Avant(compte.reclamation, c)
       /\ compte.reclamation = c => compte.alias = SansAlias

Saines(r) ==
  /\ \A c \in DOMAIN comptes[r] : Saine(c, comptes[r][c])
  /\ \A i \in DOMAIN enRoute[r] :
       enRoute[r][i].quoi = "compte" => Saine(enRoute[r][i].compte, enRoute[r][i].enregistrement)

Accord ==
  /\ Unicite
  /\ \A r \in Racine :
       /\ Verite(r) /\ Couverture(r) /\ Saines(r)
       /\ \A i \in DOMAIN enRoute[r] : Precedee(r, i)

-----------------------------------------------------------------------------
(* What is known is dated, and stays known.                                *)

\* The keys and the stamps of a fact are given.
Date(g, k, v) ==
  /\ k \in Emise
  /\ g \in {"alias", "efface"} => v.estampille \in Emise
  /\ g \in {"appareil", "revoque", "description", "point"} => v \in Emise

LEMMA TenusDates ==
  ASSUME IInv, NEW q \in Racine, NEW g, NEW k, NEW v, Tenu(q, g, k, v)
  PROVE  Date(g, k, v)
<1>1. Rangees(q, Emise) BY DEF IInv, Locale
<1>2. CASE TenuCompte(q, g, k, v)
  <2>1. /\ k \in Emise /\ comptes[q][k].estampille \in Emise
        /\ comptes[q][k].reclamation \in Emise
    BY <1>1, <1>2 DEF TenuCompte, Rangees, TableDe, CompteDe
  <2> QED BY <1>2, <2>1 DEF TenuCompte, Pretention, Date
<1>3. CASE TenuAppareil(q, g, k, v)
  <2>1. /\ k \in Emise /\ appareils[q][k].proprietaire \in Emise
        /\ Revoque(q, k) => appareils[q][k].revoque \in Emise
    BY <1>1, <1>3 DEF TenuAppareil, Rangees, TableDe, AppareilDe, Revoque
  <2> QED BY <1>3, <2>1 DEF TenuAppareil, Date
<1>4. CASE g = "description" /\ k \in DOMAIN descriptions[q] /\ v = descriptions[q][k]
  BY <1>1, <1>4 DEF Rangees, TableDe, Date
<1>5. CASE g = "point" /\ k \in DOMAIN points[q] /\ v = points[q][k]
  BY <1>1, <1>5 DEF Rangees, TableDe, Date
<1> QED BY <1>2, <1>3, <1>4, <1>5 DEF Tenu

LEMMA PortesDates ==
  ASSUME NEW op \in OperationDe(Emise), NEW g, NEW k, NEW v, Porte(op, g, k, v)
  PROVE  Date(g, k, v)
<1>1. /\ op.estampille \in Emise
      /\ op.quoi = "compte" =>
           op.compte \in Emise /\ op.enregistrement.reclamation \in Emise
      /\ op.quoi \in {"alias", "efface"} => op.compte \in Emise
      /\ op.quoi = "appareil" =>
           /\ op.appareil \in Emise /\ op.enregistrement.proprietaire \in Emise
           /\ op.enregistrement.revoque \in Emise \cup {Aucune}
      /\ op.quoi = "revoque" => op.appareil \in Emise /\ op.le \in Emise
      /\ op.quoi \in {"atteste", "description", "point"} => op.appareil \in Emise
  BY Champs DEF CompteDe, AppareilDe
<1>2. CASE Dit(op, g, k, v) BY <1>1, <1>2 DEF Dit, Pretention, Date
<1>3. CASE ~Dit(op, g, k, v) BY <1>1, <1>3 DEF Porte, Pretention, Date
<1> QED BY <1>2, <1>3

LEMMA EnRouteType ==
  ASSUME IInv, NEW r \in Racine
  PROVE  /\ enRoute[r] \in Seq(OperationDe(Emise))
         /\ \A i \in DOMAIN enRoute[r] : enRoute[r][i] \in OperationDe(Emise)
<1> DEFINE T == OperationDe(Emise)
<1>1. enRoute[r] \in Seq(T) BY DEF IInv, Voies
<1> HIDE DEF T
<1>2. \A i \in DOMAIN enRoute[r] : enRoute[r][i] \in T BY <1>1
<1> QED BY <1>1, <1>2 DEF T

LEMMA VusDates ==
  ASSUME IInv, NEW g, NEW k, NEW v, Vu(g, k, v)
  PROVE  Date(g, k, v)
BY TenusDates, PortesDates, EnRouteType DEF Vu

-----------------------------------------------------------------------------
(* Nothing is taken back.                                                  *)

\* Nothing that root q knows is taken back.
Progres(q) ==
  /\ \A k \in DOMAIN comptes[q] :
       /\ k \in DOMAIN comptes'[q]
       /\ Efface(q, k) =>
            /\ Efface(q, k)'
            /\ ~Avant(comptes[q][k].estampille, comptes'[q][k].estampille)
       /\ ~Efface(q, k)' =>
            ~Avant(comptes'[q][k].reclamation, comptes[q][k].reclamation)
  /\ \A d \in DOMAIN appareils[q] : \A c : c = appareils[q][d].proprietaire =>
       \/ Efface(q, c)'
       \/ /\ d \in DOMAIN appareils'[q]
          /\ appareils[q][d].prouve => appareils'[q][d].prouve
          /\ Revoque(q, d) =>
               /\ appareils'[q][d].revoque # Aucune
               /\ ~Avant(appareils[q][d].revoque, appareils'[q][d].revoque)
          /\ d \in DOMAIN descriptions[q] =>
               /\ d \in DOMAIN descriptions'[q]
               /\ ~Avant(descriptions'[q][d], descriptions[q][d])
          /\ d \in DOMAIN points[q] =>
               \/ appareils'[q][d].revoque # Aucune
               \/ d \in DOMAIN points'[q] /\ ~Avant(points'[q][d], points[q][d])

\* No device that is known gets another owner.
Ancien ==
  \A k \in Emise : \A c : Vu("appareil", k, c)' => Vu("appareil", k, c)

LEMMA Transitif ==
  ASSUME NEW a \in Emise, NEW b \in Emise', NEW c \in Emise, Emise \subseteq Emise',
         ~Avant(a, b), ~Avant(c, a)
  PROVE  ~Avant(c, b)
<1>1. Emise' \subseteq Estampille BY DEF Emise
<1> QED BY <1>1, OrdreTransitif

LEMMA DelaisseReste ==
  ASSUME NEW q \in Racine, Progres(q), Ancien, NEW d \in Emise, Delaisse(q, d)
  PROVE  Delaisse(q, d)'
<1> SUFFICES ASSUME NEW c, Vu("appareil", d, c)' PROVE Efface(q, c)' BY DEF Delaisse
<1>1. Vu("appareil", d, c) BY DEF Ancien
<1>2. Efface(q, c) BY <1>1 DEF Delaisse
<1> QED BY <1>2 DEF Progres, Efface

\* A device that is there stays, or its account is erased.
LEMMA LaOuDelaisse ==
  ASSUME IInv, Unicite, NEW q \in Racine, Progres(q), Ancien, NEW d \in DOMAIN appareils[q]
  PROVE  /\ d \in Emise
         /\ \E c : c = appareils[q][d].proprietaire /\ (Efface(q, c)' => Delaisse(q, d)')
<1>0. PICK c : c = appareils[q][d].proprietaire OBVIOUS
<1>1. d \in Emise BY DEF IInv, Locale, Rangees, TableDe
<1>2. Vu("appareil", d, c) BY <1>0 DEF Vu, Tenu, TenuAppareil
<1>3. ASSUME Efface(q, c)', NEW x, Vu("appareil", d, x)' PROVE Efface(q, x)'
  <2>1. Vu("appareil", d, x) BY <1>1, <1>3 DEF Ancien
  <2>2. Marque("appareil", d, x) = Marque("appareil", d, c) BY DEF Marque
  <2>3. x = c BY <1>2, <2>1, <2>2 DEF Unicite
  <2> QED BY <1>3, <2>3
<1>4. Efface(q, c)' => Delaisse(q, d)' BY <1>3 DEF Delaisse
<1> QED BY <1>0, <1>1, <1>4

LEMMA ConnuReste ==
  ASSUME IInv, Unicite, NEW q \in Racine, Progres(q), Ancien, NEW d \in Emise, Connu(q, d)
  PROVE  Connu(q, d)'
<1>1. CASE d \in DOMAIN appareils[q]
  <2>1. PICK c : c = appareils[q][d].proprietaire /\ (Efface(q, c)' => Delaisse(q, d)')
    BY <1>1, LaOuDelaisse
  <2>2. Efface(q, c)' \/ d \in DOMAIN appareils'[q] BY <1>1, <2>1 DEF Progres
  <2> QED BY <2>1, <2>2 DEF Connu
<1>2. CASE Delaisse(q, d) BY <1>2, DelaisseReste DEF Connu
<1> QED BY <1>1, <1>2 DEF Connu

LEMMA SuReste ==
  ASSUME IInv, IInv', Emise \subseteq Emise', Unicite, SansSurprise, Ancien,
         NEW q \in Racine, Progres(q), NEW g, NEW k, NEW v, Vu(g, k, v), Su(q, g, k, v)
  PROVE  Su(q, g, k, v)'
<1>1. Date(g, k, v) BY VusDates
<1>2. CASE g \in {"compte", "alias", "efface"}
  <2>1. SuCompte(q, g, k, v) BY <1>2 DEF Su
  <2>2. k \in DOMAIN comptes[q] /\ k \in DOMAIN comptes'[q] BY <2>1 DEF SuCompte, Progres
  <2>3. /\ comptes[q][k].estampille \in Emise /\ comptes[q][k].reclamation \in Emise
        /\ comptes'[q][k].estampille \in Emise' /\ comptes'[q][k].reclamation \in Emise'
    BY <2>2 DEF IInv, Locale, Rangees, TableDe, CompteDe
  <2>4. ASSUME g = "alias" PROVE Efface(q, k)' \/ ~Avant(comptes'[q][k].reclamation, v.estampille)
    <3>1. CASE Efface(q, k) BY <3>1, <2>2 DEF Progres
    <3>2. CASE ~Efface(q, k) /\ ~Efface(q, k)'
      <4>1. /\ ~Avant(comptes'[q][k].reclamation, comptes[q][k].reclamation)
            /\ ~Avant(comptes[q][k].reclamation, v.estampille) /\ v.estampille \in Emise
        BY <3>2, <2>1, <2>2, <2>4, <1>1 DEF Progres, SuCompte, Date
      <4>2. Emise' \subseteq Estampille BY DEF Emise
      <4> QED BY <4>1, <4>2, <2>3, OrdreTransitif
    <3> QED BY <3>1, <3>2
  <2>5. ASSUME g = "efface" PROVE Efface(q, k)' /\ ~Avant(v.estampille, comptes'[q][k].estampille)
    <3>1. /\ Efface(q, k)' /\ ~Avant(comptes[q][k].estampille, comptes'[q][k].estampille)
          /\ ~Avant(v.estampille, comptes[q][k].estampille) /\ v.estampille \in Emise
      BY <2>1, <2>2, <2>5, <1>1 DEF Progres, SuCompte, Date
    <3> QED BY <3>1, <2>3, Transitif
  <2> QED BY <2>2, <2>4, <2>5, <1>2 DEF Su, SuCompte
<1>3. CASE g \notin {"compte", "alias", "efface"}
  <2>1. SuAppareil(q, g, k, v) BY <1>3 DEF Su
  <2>2. k \in Emise /\ Connu(q, k)' BY <1>1, <2>1, ConnuReste DEF SuAppareil, Date
  <2>3. CASE Delaisse(q, k)'
    BY <2>3, <2>2, <1>3 DEF Su, SuAppareil
  <2>4. CASE ~Delaisse(q, k)'
    <3>1. ~Delaisse(q, k) BY <2>2, <2>4, DelaisseReste
    <3>2. k \in DOMAIN appareils[q] BY <3>1, <2>1 DEF SuAppareil, Connu
    <3>3. PICK c : c = appareils[q][k].proprietaire /\ ~Efface(q, c)'
      BY <2>4, <3>2, LaOuDelaisse
    <3>4. /\ k \in DOMAIN appareils'[q]
          /\ appareils[q][k].prouve => appareils'[q][k].prouve
          /\ Revoque(q, k) =>
               /\ appareils'[q][k].revoque # Aucune
               /\ ~Avant(appareils[q][k].revoque, appareils'[q][k].revoque)
          /\ k \in DOMAIN descriptions[q] =>
               /\ k \in DOMAIN descriptions'[q]
               /\ ~Avant(descriptions'[q][k], descriptions[q][k])
          /\ k \in DOMAIN points[q] =>
               \/ appareils'[q][k].revoque # Aucune
               \/ k \in DOMAIN points'[q] /\ ~Avant(points'[q][k], points[q][k])
      BY <3>2, <3>3 DEF Progres
    <3>5. /\ Revoque(q, k) => appareils[q][k].revoque \in Emise
          /\ Revoque(q, k)' => appareils'[q][k].revoque \in Emise'
      BY <3>2, <3>4 DEF IInv, Locale, Rangees, TableDe, AppareilDe, Revoque
    <3>6. /\ k \in DOMAIN descriptions[q] => descriptions[q][k] \in Emise
          /\ k \in DOMAIN descriptions'[q] => descriptions'[q][k] \in Emise'
          /\ k \in DOMAIN points[q] => points[q][k] \in Emise
          /\ k \in DOMAIN points'[q] => points'[q][k] \in Emise'
      BY DEF IInv, Locale, Rangees, TableDe
    <3>7. Emise' \subseteq Estampille BY DEF Emise
    <3>8. ASSUME g = "revoque" PROVE Revoque(q, k)' /\ ~Avant(v, appareils'[q][k].revoque)
      <4>1. v \in Emise /\ Revoque(q, k) /\ ~Avant(v, appareils[q][k].revoque)
        BY <3>1, <3>8, <2>1, <1>1 DEF SuAppareil, Date
      <4>2. Revoque(q, k)' BY <4>1, <3>4 DEF Revoque
      <4> QED BY <4>1, <4>2, <3>4, <3>5, Transitif
    <3>9. ASSUME g = "atteste" PROVE appareils'[q][k].prouve
      BY <3>1, <3>4, <3>9, <2>1 DEF SuAppareil
    <3>10. ASSUME g = "description"
           PROVE  k \in DOMAIN descriptions'[q] /\ ~Avant(descriptions'[q][k], v)
      <4>1. v \in Emise /\ k \in DOMAIN descriptions[q] /\ ~Avant(descriptions[q][k], v)
        BY <3>1, <3>10, <2>1, <1>1 DEF SuAppareil, Date
      <4> QED BY <4>1, <3>4, <3>6, <3>7, OrdreTransitif
    <3>11. ASSUME g = "point"
           PROVE  Revoque(q, k)' \/ (k \in DOMAIN points'[q] /\ ~Avant(points'[q][k], v))
      <4>1. CASE Revoque(q, k) BY <4>1, <3>4 DEF Revoque
      <4>2. CASE ~Revoque(q, k)
        <5>1. v \in Emise /\ k \in DOMAIN points[q] /\ ~Avant(points[q][k], v)
          BY <4>2, <3>1, <3>11, <2>1, <1>1 DEF SuAppareil, Date
        <5> QED BY <5>1, <3>4, <3>6, <3>7, OrdreTransitif DEF Revoque
      <4> QED BY <4>1, <4>2
    <3> QED BY <2>2, <3>8, <3>9, <3>10, <3>11, <1>3 DEF Su, SuAppareil
  <2> QED BY <2>3, <2>4
<1> QED BY <1>2, <1>3

-----------------------------------------------------------------------------
(* A write, and an operation of the peer.                                  *)

\* What a root holds depends on its tables.
LEMMA MemesTenus ==
  ASSUME NEW q \in Racine, comptes'[q] = comptes[q], appareils'[q] = appareils[q],
         descriptions'[q] = descriptions[q], points'[q] = points[q]
  PROVE  \A g, k, v : Tenu(q, g, k, v)' <=> Tenu(q, g, k, v)
BY DEF Tenu, TenuCompte, TenuAppareil, Efface, Revoque

LEMMA MemesProgres ==
  ASSUME IInv, NEW q \in Racine, comptes'[q] = comptes[q], appareils'[q] = appareils[q],
         descriptions'[q] = descriptions[q], points'[q] = points[q]
  PROVE  Progres(q)
<1>1. \A k \in DOMAIN comptes[q] :
        comptes[q][k].estampille \in Estampille /\ comptes[q][k].reclamation \in Estampille
  BY DEF IInv, Locale, Rangees, TableDe, CompteDe, Emise
<1>2. \A k \in DOMAIN appareils[q] : Revoque(q, k) => appareils[q][k].revoque \in Estampille
  BY DEF IInv, Locale, Rangees, TableDe, AppareilDe, Emise, Revoque
<1>3. /\ \A k \in DOMAIN descriptions[q] : descriptions[q][k] \in Estampille
      /\ \A k \in DOMAIN points[q] : points[q][k] \in Estampille
  BY DEF IInv, Locale, Rangees, TableDe, Emise
<1>4. \A e \in Estampille : ~Avant(e, e) BY OrdreTotal
<1> QED BY <1>1, <1>2, <1>3, <1>4 DEF Progres, Efface, Revoque

\* An operation says one thing of each kind and key.
LEMMA UneSeuleValeur ==
  ASSUME NEW op, NEW g \in {"alias", "efface", "appareil"}, NEW k, NEW v, NEW w,
         Porte(op, g, k, v), Porte(op, g, k, w)
  PROVE  v = w
BY DEF Porte, Dit

\* What a write has to do: nothing is taken back, the operation says all that is new,
\* under a stamp of its own, and what it says is known here.
Ecrit(r, op) ==
  /\ Progres(r)
  /\ \A g, k, v : Tenu(r, g, k, v)' => Tenu(r, g, k, v) \/ Dit(op, g, k, v)
  /\ \A g \in {"alias", "efface", "appareil"} : \A k, v :
       Porte(op, g, k, v) => Marque(g, k, v) \notin Emise
  /\ Ancien => \A g, k, v : Porte(op, g, k, v) => Su(r, g, k, v)'
  /\ op.quoi = "alias" => op.compte \in DOMAIN comptes[r]
  /\ op.quoi \in {"revoque", "atteste", "description", "point"} =>
       op.appareil \in DOMAIN appareils[r]
  /\ \A c \in DOMAIN comptes'[r] : Saine(c, comptes'[r][c])
  /\ op.quoi = "compte" => Saine(op.compte, op.enregistrement)

\* A write of root r, journaled as op.
LEMMA AccordEcrit ==
  ASSUME IInv, IInv', Accord, SansSurprise, NEW r \in Racine, NEW op, Journaliser(r, op),
         Ailleurs(r), Ecrit(r, op)
  PROVE  Accord'
<1>0. /\ Progres(r)
      /\ \A g, k, v : Tenu(r, g, k, v)' => Tenu(r, g, k, v) \/ Dit(op, g, k, v)
      /\ \A g \in {"alias", "efface", "appareil"} : \A k, v :
           Porte(op, g, k, v) => Marque(g, k, v) \notin Emise
      /\ Ancien => \A g, k, v : Porte(op, g, k, v) => Su(r, g, k, v)'
      /\ op.quoi = "alias" => op.compte \in DOMAIN comptes[r]
      /\ op.quoi \in {"revoque", "atteste", "description", "point"} =>
           op.appareil \in DOMAIN appareils[r]
      /\ \A c \in DOMAIN comptes'[r] : Saine(c, comptes'[r][c])
      /\ op.quoi = "compte" => Saine(op.compte, op.enregistrement)
  BY DEF Ecrit
<1> DEFINE p == Pair[r]
           T == OperationDe(Emise)
<1>1. /\ p \in Racine /\ p # r /\ Pair[p] = r /\ \A q \in Racine : Pair[q] \in Racine
      /\ \A q \in Racine : Pair[q] = r <=> q = p
  BY DeuxRacines
<1>2. Emise \subseteq Emise' BY Estampillee
<1>3. enRoute[p] \in Seq(T) BY <1>1, EnRouteType
<1>4. /\ enRoute'[p] = enRoute[p] \o <<op>>
      /\ \A q \in Racine : q # p => enRoute'[q] = enRoute[q]
  BY <1>1 DEF Journaliser, JournaliserTout, IInv, Voies
<1> HIDE DEF T, p
<1>5. /\ Len(enRoute[p]) \in Nat /\ DOMAIN enRoute[p] = 1..Len(enRoute[p])
      /\ \A i \in DOMAIN enRoute'[p] :
              \/ i \in DOMAIN enRoute[p] /\ enRoute'[p][i] = enRoute[p][i]
              \/ i = Len(enRoute[p]) + 1 /\ enRoute'[p][i] = op
      /\ \A i \in DOMAIN enRoute[p] : i \in DOMAIN enRoute'[p] /\ enRoute'[p][i] = enRoute[p][i]
      /\ Len(enRoute[p]) + 1 \in DOMAIN enRoute'[p]
      /\ enRoute'[p][Len(enRoute[p]) + 1] = op
  <2> DEFINE s == enRoute[p]
             t == enRoute'[p]
  <2>1. s \in Seq(T) /\ t = s \o <<op>> BY <1>3, <1>4
  <2> HIDE DEF s, t
  <2>2. /\ Len(s) \in Nat /\ DOMAIN s = 1..Len(s)
        /\ \A i \in DOMAIN t :
              \/ i \in DOMAIN s /\ t[i] = s[i]
              \/ i = Len(s) + 1 /\ t[i] = op
        /\ \A i \in DOMAIN s : i \in DOMAIN t /\ t[i] = s[i]
        /\ Len(s) + 1 \in DOMAIN t /\ t[Len(s) + 1] = op
    BY <2>1, SuiteAllongee
  <2> QED BY <2>2 DEF s, t
<1>6. \A q \in Racine : q # r => \A g, k, v : Tenu(q, g, k, v)' <=> Tenu(q, g, k, v)
  BY MemesTenus DEF Ailleurs
<1>7. \A q \in Racine : Progres(q)
  <2> SUFFICES ASSUME NEW q \in Racine, q # r PROVE Progres(q) BY <1>0
  <2> QED BY MemesProgres DEF Ailleurs
<1>8. ASSUME NEW g, NEW k, NEW v, Vu(g, k, v)'
      PROVE  Vu(g, k, v) \/ Porte(op, g, k, v)
  <2>1. PICK q \in Racine : \/ Tenu(q, g, k, v)'
                            \/ \E i \in DOMAIN enRoute'[q] : Porte(enRoute'[q][i], g, k, v)
    BY <1>8 DEF Vu
  <2>2. CASE Tenu(q, g, k, v)'
    <3>1. Tenu(q, g, k, v) \/ Dit(op, g, k, v) BY <2>2, <1>0, <1>6
    <3> QED BY <3>1 DEF Vu, Porte
  <2>3. CASE \E i \in DOMAIN enRoute'[q] : Porte(enRoute'[q][i], g, k, v)
    <3>1. PICK i \in DOMAIN enRoute'[q] : Porte(enRoute'[q][i], g, k, v) BY <2>3
    <3>2. CASE q # p BY <3>1, <3>2, <1>4 DEF Vu
    <3>3. CASE q = p BY <3>1, <3>3, <1>1, <1>5 DEF Vu
    <3> QED BY <3>2, <3>3
  <2> QED BY <2>1, <2>2, <2>3
<1>9. Ancien
  <2> SUFFICES ASSUME NEW k \in Emise, NEW c, Vu("appareil", k, c)', Porte(op, "appareil", k, c)
               PROVE  FALSE
    BY <1>8 DEF Ancien
  <2>1. Marque("appareil", k, c) \notin Emise BY <1>0
  <2> QED BY <2>1 DEF Marque
<1>10. ASSUME NEW q \in Racine, NEW g, NEW k, NEW v, Vu(g, k, v), Su(q, g, k, v)
       PROVE  Su(q, g, k, v)'
  BY <1>2, <1>7, <1>9, <1>10, SuReste DEF Accord
<1>11. ASSUME NEW q \in Racine, NEW d \in Emise, Connu(q, d) PROVE Connu(q, d)'
  BY <1>7, <1>9, <1>11, ConnuReste DEF Accord
<1>12. Unicite'
  <2> SUFFICES ASSUME NEW g \in {"alias", "efface", "appareil"}, NEW k, NEW v, NEW w,
                      Vu(g, k, v)', Vu(g, k, w)', Marque(g, k, v) = Marque(g, k, w)
               PROVE  v = w
    BY DEF Unicite, Marque
  <2>1. ASSUME NEW x, Vu(g, k, x) PROVE Marque(g, k, x) \in Emise
    BY <2>1, VusDates DEF Marque, Date
  <2>2. ASSUME NEW x, Porte(op, g, k, x) PROVE Marque(g, k, x) \notin Emise BY <1>0, <2>2
  <2>3. CASE Vu(g, k, v) /\ Vu(g, k, w) BY <2>3 DEF Accord, Unicite
  <2>4. CASE Porte(op, g, k, v) /\ Porte(op, g, k, w) BY <2>4, UneSeuleValeur
  <2> QED BY <2>1, <2>2, <2>3, <2>4, <1>8
<1>13. ASSUME NEW q \in Racine PROVE Verite(q)'
  <2> SUFFICES ASSUME NEW i \in DOMAIN enRoute'[q], NEW g, NEW k, NEW v,
                      Porte(enRoute'[q][i], g, k, v)
               PROVE  Su(Pair[q], g, k, v)'
    BY DEF Verite
  <2>1. CASE i \in DOMAIN enRoute[q] /\ enRoute'[q][i] = enRoute[q][i]
    <3>1. Vu(g, k, v) /\ Su(Pair[q], g, k, v) BY <2>1 DEF Vu, Accord, Verite
    <3> QED BY <3>1, <1>1, <1>10
  <2>2. CASE ~(i \in DOMAIN enRoute[q] /\ enRoute'[q][i] = enRoute[q][i])
    <3>1. q = p /\ enRoute'[q][i] = op BY <2>2, <1>4, <1>5
    <3> QED BY <3>1, <1>0, <1>1, <1>9
  <2> QED BY <2>1, <2>2
<1>14. ASSUME NEW q \in Racine PROVE Couverture(q)'
  <2> SUFFICES ASSUME NEW g, NEW k, NEW v, Tenu(Pair[q], g, k, v)'
               PROVE  \/ Su(q, g, k, v)'
                      \/ \E i \in DOMAIN enRoute'[q] : Dit(enRoute'[q][i], g, k, v)
    BY DEF Couverture
  <2>1. CASE Tenu(Pair[q], g, k, v)
    <3>1. Vu(g, k, v) BY <2>1, <1>1 DEF Vu
    <3>2. CASE Su(q, g, k, v) BY <3>1, <3>2, <1>10
    <3>3. CASE \E i \in DOMAIN enRoute[q] : Dit(enRoute[q][i], g, k, v)
      BY <3>3, <1>4, <1>5
    <3> QED BY <2>1, <3>2, <3>3 DEF Accord, Couverture
  <2>2. CASE ~Tenu(Pair[q], g, k, v)
    <3>1. Pair[q] = r BY <2>2, <1>1, <1>6
    <3>2. q = p /\ Dit(op, g, k, v) BY <2>2, <3>1, <1>0, <1>1
    <3> QED BY <3>2, <1>5
  <2> QED BY <2>1, <2>2
<1>15. ASSUME NEW q \in Racine, NEW i \in DOMAIN enRoute'[q] PROVE Precedee(q, i)'
  <2>1. CASE i \in DOMAIN enRoute[q] /\ enRoute'[q][i] = enRoute[q][i]
    <3>1. \A j \in 1..(i-1) : enRoute'[q][j] = enRoute[q][j]
      <4>1. CASE q # p BY <4>1, <1>4
      <4>2. CASE q = p
        <5>1. i \in 1..Len(enRoute[p]) BY <4>2, <2>1, <1>5
        <5>2. \A j \in 1..(i-1) : j \in DOMAIN enRoute[p] BY <5>1, <1>5
        <5> QED BY <5>2, <4>2, <1>5
      <4> QED BY <4>1, <4>2
    <3>2. Precedee(q, i) BY <2>1 DEF Accord
    <3>3. enRoute[q][i] \in OperationDe(Emise) BY <2>1, EnRouteType
    <3>4. enRoute[q][i].quoi \in {"revoque", "atteste", "description", "point"} =>
            enRoute[q][i].appareil \in Emise
      BY <3>3, Champs
    <3>5. DOMAIN comptes[q] \subseteq DOMAIN comptes'[q] BY <1>7 DEF Progres
    <3> QED BY <2>1, <3>1, <3>2, <3>4, <3>5, <1>11 DEF Precedee
  <2>2. CASE ~(i \in DOMAIN enRoute[q] /\ enRoute'[q][i] = enRoute[q][i])
    <3>1. q = p /\ enRoute'[q][i] = op /\ i = Len(enRoute[p]) + 1 BY <2>2, <1>4, <1>5
    <3>2. 1..(i-1) = DOMAIN enRoute[p] BY <3>1, <1>5
    <3>3. ASSUME NEW g, NEW k, NEW v, Tenu(r, g, k, v)
          PROVE  \/ Su(p, g, k, v)'
                 \/ \E j \in 1..(i-1) : Dit(enRoute'[p][j], g, k, v)
      <4>1. Vu(g, k, v) BY <3>3 DEF Vu
      <4>2. Su(p, g, k, v) \/ \E j \in DOMAIN enRoute[p] : Dit(enRoute[p][j], g, k, v)
        BY <3>3, <1>1 DEF Accord, Couverture
      <4> QED BY <4>1, <4>2, <3>2, <1>1, <1>5, <1>10
    <3>4. ASSUME op.quoi = "alias"
          PROVE  \/ op.compte \in DOMAIN comptes'[p]
                 \/ \E j \in 1..(i-1) : Dit(enRoute'[p][j], "compte", op.compte, op.compte)
      <4>1. Tenu(r, "compte", op.compte, op.compte) BY <1>0, <3>4 DEF Tenu, TenuCompte
      <4>2. Su(p, "compte", op.compte, op.compte)' => op.compte \in DOMAIN comptes'[p]
        BY DEF Su, SuCompte
      <4> QED BY <4>1, <4>2, <3>3
    <3>5. ASSUME op.quoi \in {"revoque", "atteste", "description", "point"}
          PROVE  \/ Connu(p, op.appareil)'
                 \/ \E j \in 1..(i-1) : \E c : Dit(enRoute'[p][j], "appareil", op.appareil, c)
      <4>1. PICK c : Tenu(r, "appareil", op.appareil, c) BY <1>0, <3>5 DEF Tenu, TenuAppareil
      <4>2. Su(p, "appareil", op.appareil, c)' => Connu(p, op.appareil)'
        BY DEF Su, SuAppareil
      <4> QED BY <4>1, <4>2, <3>3
    <3> QED BY <3>1, <3>4, <3>5 DEF Precedee
  <2> QED BY <2>1, <2>2
<1>16. ASSUME NEW q \in Racine PROVE Saines(q)'
  <2>1. \A c \in DOMAIN comptes'[q] : Saine(c, comptes'[q][c])
    <3>1. CASE q = r BY <1>0, <3>1
    <3>2. CASE q # r
      <4>1. comptes'[q] = comptes[q] BY <3>2 DEF Ailleurs
      <4> QED BY <4>1 DEF Accord, Saines
    <3> QED BY <3>1, <3>2
  <2>2. ASSUME NEW i \in DOMAIN enRoute'[q], enRoute'[q][i].quoi = "compte"
        PROVE  Saine(enRoute'[q][i].compte, enRoute'[q][i].enregistrement)
    <3>1. CASE i \in DOMAIN enRoute[q] /\ enRoute'[q][i] = enRoute[q][i]
      BY <2>2, <3>1 DEF Accord, Saines
    <3>2. CASE ~(i \in DOMAIN enRoute[q] /\ enRoute'[q][i] = enRoute[q][i])
      <4>1. enRoute'[q][i] = op BY <3>2, <1>4, <1>5
      <4> QED BY <1>0, <2>2, <4>1
    <3> QED BY <3>1, <3>2
  <2> QED BY <2>1, <2>2 DEF Saines, Saine
<1> QED BY <1>12, <1>13, <1>14, <1>15, <1>16 DEF Accord

\* The queue of root r without the operation it applies.
LEMMA FileEntamee ==
  ASSUME IInv, NEW r \in Racine, Retirer(r)
  PROVE  /\ 1 \in DOMAIN enRoute[r] /\ Head(enRoute[r]) = enRoute[r][1]
         /\ Head(enRoute[r]) \in OperationDe(Emise)
         /\ \A i \in DOMAIN enRoute[r] : i \in Nat
         /\ \A i \in DOMAIN enRoute'[r] :
              i \in Nat /\ i + 1 \in DOMAIN enRoute[r] /\ enRoute'[r][i] = enRoute[r][i + 1]
         /\ \A i \in DOMAIN enRoute[r] :
              i # 1 => i - 1 \in DOMAIN enRoute'[r] /\ enRoute'[r][i - 1] = enRoute[r][i]
         /\ \A q \in Racine : q # r => enRoute'[q] = enRoute[q]
         /\ Emise \subseteq Emise'
<1> DEFINE T == OperationDe(Emise)
           s == enRoute[r]
           t == enRoute'[r]
<1>1. s \in Seq(T) /\ s # <<>> /\ t = Tail(s) BY EnRouteType DEF IInv, Voies, Retirer
<1>2. \A op \in T : op.estampille.compteur \in Nat BY Champs DEF Emise, Estampille
<1>3. enRoute \in [Racine -> Seq(T)] /\ compteur \in [Racine -> Nat] BY DEF IInv, Voies
<1> HIDE DEF T, s, t
<1>4. /\ 1 \in DOMAIN s /\ Head(s) = s[1]
      /\ \A i \in DOMAIN s : i \in Nat
      /\ \A i \in DOMAIN t : i \in Nat /\ i + 1 \in DOMAIN s /\ t[i] = s[i + 1]
      /\ \A i \in DOMAIN s : i # 1 => i - 1 \in DOMAIN t /\ t[i - 1] = s[i]
  BY <1>1, SuiteEntamee
<1>5. Head(s) \in T BY <1>1
<1>6. /\ \A q \in Racine : q # r => enRoute'[q] = enRoute[q]
      /\ Emise \subseteq Emise'
  BY <1>2, <1>3, Retiree
<1> QED BY <1>4, <1>5, <1>6 DEF T, s, t

\* Nothing new is seen when root r applies an operation.
LEMMA RecuAncien ==
  ASSUME IInv, NEW r \in Racine, Retirer(r), Ailleurs(r),
         \A g, k, v : Tenu(r, g, k, v)' => Tenu(r, g, k, v) \/ Porte(Head(enRoute[r]), g, k, v)
  PROVE  /\ \A g, k, v : Vu(g, k, v)' => Vu(g, k, v)
         /\ Ancien
<1>1. /\ 1 \in DOMAIN enRoute[r] /\ Head(enRoute[r]) = enRoute[r][1]
      /\ \A i \in DOMAIN enRoute'[r] :
           i + 1 \in DOMAIN enRoute[r] /\ enRoute'[r][i] = enRoute[r][i + 1]
      /\ \A q \in Racine : q # r => enRoute'[q] = enRoute[q]
  BY FileEntamee
<1>2. \A q \in Racine : q # r => \A g, k, v : Tenu(q, g, k, v)' <=> Tenu(q, g, k, v)
  BY MemesTenus DEF Ailleurs
<1>3. ASSUME NEW g, NEW k, NEW v, Vu(g, k, v)' PROVE Vu(g, k, v)
  <2>1. PICK q \in Racine : \/ Tenu(q, g, k, v)'
                            \/ \E i \in DOMAIN enRoute'[q] : Porte(enRoute'[q][i], g, k, v)
    BY <1>3 DEF Vu
  <2>2. CASE Tenu(q, g, k, v)'
    <3>1. Tenu(q, g, k, v) \/ Porte(enRoute[r][1], g, k, v) BY <2>2, <1>1, <1>2
    <3> QED BY <3>1, <1>1 DEF Vu
  <2>3. CASE \E i \in DOMAIN enRoute'[q] : Porte(enRoute'[q][i], g, k, v)
    <3>1. PICK i \in DOMAIN enRoute'[q] : Porte(enRoute'[q][i], g, k, v) BY <2>3
    <3>2. CASE q # r BY <3>1, <3>2, <1>1 DEF Vu
    <3>3. CASE q = r BY <3>1, <3>3, <1>1 DEF Vu
    <3> QED BY <3>2, <3>3
  <2> QED BY <2>1, <2>2, <2>3
<1> QED BY <1>3 DEF Ancien

\* What applying an operation has to do: nothing is taken back, nothing is known but
\* by the operation, all that it says is known.
Applique(r, op) ==
  /\ Progres(r)
  /\ \A g, k, v : Tenu(r, g, k, v)' => Tenu(r, g, k, v) \/ Porte(op, g, k, v)
  /\ Ancien => \A g, k, v : Dit(op, g, k, v) => Su(r, g, k, v)'
  /\ \A c \in DOMAIN comptes'[r] : Saine(c, comptes'[r][c])

\* An operation of the peer, applied by root r.
LEMMA AccordRecu ==
  ASSUME IInv, IInv', Accord, SansSurprise, NEW r \in Racine, Retirer(r),
         Ailleurs(r), Applique(r, Head(enRoute[r]))
  PROVE  Accord'
<1>0. /\ Progres(r)
      /\ \A g, k, v : Tenu(r, g, k, v)' => Tenu(r, g, k, v) \/ Porte(Head(enRoute[r]), g, k, v)
      /\ Ancien => \A g, k, v : Dit(Head(enRoute[r]), g, k, v) => Su(r, g, k, v)'
      /\ \A c \in DOMAIN comptes'[r] : Saine(c, comptes'[r][c])
  BY DEF Applique
<1> DEFINE p == Pair[r]
<1>1. /\ p \in Racine /\ p # r /\ Pair[p] = r /\ \A q \in Racine : Pair[q] \in Racine
      /\ \A q \in Racine : Pair[q] = r <=> q = p
  BY DeuxRacines
<1> HIDE DEF p
<1>2. /\ 1 \in DOMAIN enRoute[r] /\ Head(enRoute[r]) = enRoute[r][1]
      /\ Head(enRoute[r]) \in OperationDe(Emise)
      /\ \A i \in DOMAIN enRoute[r] : i \in Nat
      /\ \A i \in DOMAIN enRoute'[r] :
           i \in Nat /\ i + 1 \in DOMAIN enRoute[r] /\ enRoute'[r][i] = enRoute[r][i + 1]
      /\ \A i \in DOMAIN enRoute[r] :
           i # 1 => i - 1 \in DOMAIN enRoute'[r] /\ enRoute'[r][i - 1] = enRoute[r][i]
      /\ \A q \in Racine : q # r => enRoute'[q] = enRoute[q]
      /\ Emise \subseteq Emise'
  BY FileEntamee
<1>3. \A q \in Racine : q # r => \A g, k, v : Tenu(q, g, k, v)' <=> Tenu(q, g, k, v)
  BY MemesTenus DEF Ailleurs
<1>4. \A q \in Racine : Progres(q)
  <2> SUFFICES ASSUME NEW q \in Racine, q # r PROVE Progres(q) BY <1>0
  <2> QED BY MemesProgres DEF Ailleurs
<1>5. (\A g, k, v : Vu(g, k, v)' => Vu(g, k, v)) /\ Ancien BY <1>0, RecuAncien
<1>6. ASSUME NEW q \in Racine, NEW g, NEW k, NEW v, Vu(g, k, v), Su(q, g, k, v)
      PROVE  Su(q, g, k, v)'
  BY <1>2, <1>4, <1>5, <1>6, SuReste DEF Accord
<1>7. ASSUME NEW q \in Racine, NEW d \in Emise, Connu(q, d) PROVE Connu(q, d)'
  BY <1>4, <1>5, <1>7, ConnuReste DEF Accord
<1>8. Unicite'
  <2> SUFFICES ASSUME NEW g \in {"alias", "efface", "appareil"}, NEW k, NEW v, NEW w,
                      Vu(g, k, v)', Vu(g, k, w)', Marque(g, k, v) = Marque(g, k, w)
               PROVE  v = w
    BY DEF Unicite, Marque
  <2> QED BY <1>5 DEF Accord, Unicite
\* What is on its way to q was so before, one place further on r.
<1>9. ASSUME NEW q \in Racine, NEW i \in DOMAIN enRoute'[q]
      PROVE  \E j \in DOMAIN enRoute[q] :
               /\ enRoute'[q][i] = enRoute[q][j]
               /\ q # r => j = i
               /\ q = r => i \in Nat /\ j = i + 1
  BY <1>2
<1>10. ASSUME NEW q \in Racine PROVE Verite(q)'
  <2> SUFFICES ASSUME NEW i \in DOMAIN enRoute'[q], NEW g, NEW k, NEW v,
                      Porte(enRoute'[q][i], g, k, v)
               PROVE  Su(Pair[q], g, k, v)'
    BY DEF Verite
  <2>1. PICK j \in DOMAIN enRoute[q] : enRoute'[q][i] = enRoute[q][j] BY <1>9
  <2>2. Vu(g, k, v) /\ Su(Pair[q], g, k, v) BY <2>1 DEF Vu, Accord, Verite
  <2> QED BY <2>2, <1>1, <1>6
<1>11. ASSUME NEW q \in Racine PROVE Couverture(q)'
  <2> SUFFICES ASSUME NEW g, NEW k, NEW v, Tenu(Pair[q], g, k, v)'
               PROVE  \/ Su(q, g, k, v)'
                      \/ \E i \in DOMAIN enRoute'[q] : Dit(enRoute'[q][i], g, k, v)
    BY DEF Couverture
  <2>1. CASE Tenu(Pair[q], g, k, v)
    <3>1. Vu(g, k, v) BY <2>1, <1>1 DEF Vu
    <3>2. CASE Su(q, g, k, v) BY <3>1, <3>2, <1>6
    <3>3. CASE \E i \in DOMAIN enRoute[q] : Dit(enRoute[q][i], g, k, v)
      <4>1. PICK i \in DOMAIN enRoute[q] : Dit(enRoute[q][i], g, k, v) BY <3>3
      <4>2. CASE q # r BY <4>1, <4>2, <1>2
      <4>3. CASE q = r /\ i = 1 BY <4>1, <4>3, <1>0, <1>2, <1>5
      <4>4. CASE q = r /\ i # 1 BY <4>1, <4>4, <1>2
      <4> QED BY <4>2, <4>3, <4>4
    <3> QED BY <2>1, <3>2, <3>3 DEF Accord, Couverture
  <2>2. CASE ~Tenu(Pair[q], g, k, v)
    <3>1. Pair[q] = r BY <2>2, <1>1, <1>3
    <3>2. q = p /\ Porte(enRoute[r][1], g, k, v) BY <2>2, <3>1, <1>0, <1>1, <1>2
    <3>3. Vu(g, k, v) /\ Su(p, g, k, v) BY <3>2, <1>2 DEF p, Vu, Accord, Verite
    <3> QED BY <3>2, <3>3, <1>1, <1>6
  <2> QED BY <2>1, <2>2
<1>12. ASSUME NEW q \in Racine, NEW i \in DOMAIN enRoute'[q] PROVE Precedee(q, i)'
  <2>1. PICK j \in DOMAIN enRoute[q] : /\ enRoute'[q][i] = enRoute[q][j]
                                       /\ q # r => j = i
                                       /\ q = r => i \in Nat /\ j = i + 1
    BY <1>9
  <2>2. Precedee(q, j) BY DEF Accord
  <2>3. enRoute[q][j] \in OperationDe(Emise) BY EnRouteType
  <2>4. enRoute[q][j].quoi \in {"revoque", "atteste", "description", "point"} =>
          enRoute[q][j].appareil \in Emise
    BY <2>3, Champs
  <2>5. DOMAIN comptes[q] \subseteq DOMAIN comptes'[q] BY <1>4 DEF Progres
  <2>6. ASSUME NEW g, NEW k, NEW v, NEW m \in 1..(j-1), Dit(enRoute[q][m], g, k, v)
        PROVE  Su(q, g, k, v)' \/ \E n \in 1..(i-1) : Dit(enRoute'[q][n], g, k, v)
    <3>1. CASE q # r BY <2>1, <2>6, <3>1, <1>2
    <3>2. CASE q = r /\ m = 1 BY <2>6, <3>2, <1>0, <1>2, <1>5
    <3>3. CASE q = r /\ m # 1
      <4>1. j \in Nat /\ i \in Nat /\ j = i + 1 BY <2>1, <3>3
      <4>2. m - 1 \in 1..(i-1) BY <4>1, <3>3
      <4>3. m \in DOMAIN enRoute[r]
        <5>1. enRoute[r] \in Seq(OperationDe(Emise)) BY EnRouteType
        <5> DEFINE T == OperationDe(Emise)
        <5> HIDE DEF T
        <5>2. enRoute[r] \in Seq(T) BY <5>1 DEF T
        <5>3. DOMAIN enRoute[r] = 1..Len(enRoute[r]) /\ Len(enRoute[r]) \in Nat BY <5>2
        <5> QED BY <5>3, <4>1, <3>3
      <4> QED BY <4>2, <4>3, <2>6, <3>3, <1>2
    <3> QED BY <3>1, <3>2, <3>3
  <2>7. ASSUME NEW k, NEW v
        PROVE  /\ Su(q, "compte", k, v)' => k \in DOMAIN comptes'[q]
               /\ Su(q, "appareil", k, v)' => Connu(q, k)'
    BY DEF Su, SuCompte, SuAppareil
  <2>8. ASSUME enRoute'[q][i].quoi = "alias"
        PROVE  \/ enRoute'[q][i].compte \in DOMAIN comptes'[q]
               \/ \E n \in 1..(i-1) : Dit(enRoute'[q][n], "compte", enRoute'[q][i].compte,
                                          enRoute'[q][i].compte)
    BY <2>1, <2>2, <2>5, <2>6, <2>7, <2>8 DEF Precedee
  <2>9. ASSUME enRoute'[q][i].quoi \in {"revoque", "atteste", "description", "point"},
               NEW d, d = enRoute[q][j].appareil
        PROVE  \/ Connu(q, d)'
               \/ \E n \in 1..(i-1) : \E c : Dit(enRoute'[q][n], "appareil", d, c)
    <3>1. CASE Connu(q, d)
      <4>1. d \in Emise BY <2>1, <2>4, <2>9
      <4> QED BY <4>1, <3>1, <1>7
    <3>2. CASE \E m \in 1..(j-1) : \E c : Dit(enRoute[q][m], "appareil", d, c)
      BY <3>2, <2>6, <2>7
    <3> QED BY <3>1, <3>2, <2>1, <2>2, <2>9 DEF Precedee
  <2> QED BY <2>1, <2>8, <2>9 DEF Precedee
<1>13. ASSUME NEW q \in Racine PROVE Saines(q)'
  <2>1. \A c \in DOMAIN comptes'[q] : Saine(c, comptes'[q][c])
    <3>1. CASE q = r BY <1>0, <3>1
    <3>2. CASE q # r
      <4>1. comptes'[q] = comptes[q] BY <3>2 DEF Ailleurs
      <4> QED BY <4>1 DEF Accord, Saines
    <3> QED BY <3>1, <3>2
  <2>2. ASSUME NEW i \in DOMAIN enRoute'[q], enRoute'[q][i].quoi = "compte"
        PROVE  Saine(enRoute'[q][i].compte, enRoute'[q][i].enregistrement)
    <3>1. PICK j \in DOMAIN enRoute[q] : enRoute'[q][i] = enRoute[q][j] BY <1>9
    <3> QED BY <3>1, <2>2 DEF Accord, Saines
  <2> QED BY <2>1, <2>2 DEF Saines, Saine
<1> QED BY <1>8, <1>10, <1>11, <1>12, <1>13 DEF Accord

-----------------------------------------------------------------------------
(* Applying each kind of operation.                                        *)

LEMMA Reflexes ==
  ASSUME IInv, NEW q \in Racine
  PROVE  /\ \A k \in DOMAIN comptes[q] :
              /\ k \in Emise /\ comptes[q][k] \in CompteDe(Emise)
              /\ ~Avant(comptes[q][k].estampille, comptes[q][k].estampille)
              /\ ~Avant(comptes[q][k].reclamation, comptes[q][k].reclamation)
         /\ \A k \in DOMAIN appareils[q] :
              /\ k \in Emise /\ appareils[q][k] \in AppareilDe(Emise)
              /\ Revoque(q, k) => ~Avant(appareils[q][k].revoque, appareils[q][k].revoque)
         /\ \A k \in DOMAIN descriptions[q] :
              descriptions[q][k] \in Emise /\ ~Avant(descriptions[q][k], descriptions[q][k])
         /\ \A k \in DOMAIN points[q] :
              points[q][k] \in Emise /\ ~Avant(points[q][k], points[q][k])
<1>1. /\ \A k \in DOMAIN comptes[q] : k \in Emise /\ comptes[q][k] \in CompteDe(Emise)
      /\ \A k \in DOMAIN appareils[q] : k \in Emise /\ appareils[q][k] \in AppareilDe(Emise)
      /\ \A k \in DOMAIN descriptions[q] : descriptions[q][k] \in Emise
      /\ \A k \in DOMAIN points[q] : points[q][k] \in Emise
  BY DEF IInv, Locale, Rangees, TableDe
<1>2. \A e \in Emise : ~Avant(e, e) BY OrdreTotal DEF Emise
<1>3. \A k \in DOMAIN comptes[q] :
        comptes[q][k].estampille \in Emise /\ comptes[q][k].reclamation \in Emise
  BY <1>1 DEF CompteDe
<1>4. \A k \in DOMAIN appareils[q] : Revoque(q, k) => appareils[q][k].revoque \in Emise
  BY <1>1 DEF AppareilDe, Revoque
<1> QED BY <1>1, <1>2, <1>3, <1>4

\* The first operation on its way to r.
LEMMA TeteRecue ==
  ASSUME IInv, Accord, NEW r \in Racine, Retirer(r), NEW op, op = Head(enRoute[r])
  PROVE  /\ op \in OperationDe(Emise) /\ Emise \subseteq Emise'
         /\ op.quoi = "alias" => op.compte \in DOMAIN comptes[r]
         /\ op.quoi \in {"revoque", "atteste", "description", "point"} => Connu(r, op.appareil)
         /\ op.quoi = "compte" => Saine(op.compte, op.enregistrement)
<1>1. /\ 1 \in DOMAIN enRoute[r] /\ op = enRoute[r][1] /\ op \in OperationDe(Emise)
      /\ Emise \subseteq Emise'
  BY FileEntamee
<1>2. Precedee(r, 1) /\ Saines(r) BY <1>1 DEF Accord
<1>3. 1..(1-1) = {} OBVIOUS
<1> QED BY <1>1, <1>2, <1>3 DEF Precedee, Saines

\* Root r keeps its tables.
LEMMA SansEffet ==
  ASSUME IInv, Accord, NEW r \in Racine, comptes'[r] = comptes[r], appareils'[r] = appareils[r],
         descriptions'[r] = descriptions[r], points'[r] = points[r], NEW op,
         Ancien => \A g, k, v : Dit(op, g, k, v) => Su(r, g, k, v)'
  PROVE  Applique(r, op)
<1>1. Progres(r) BY MemesProgres
<1>2. \A g, k, v : Tenu(r, g, k, v)' <=> Tenu(r, g, k, v) BY MemesTenus
<1>3. \A c \in DOMAIN comptes'[r] : Saine(c, comptes'[r][c]) BY DEF Accord, Saines
<1> QED BY <1>1, <1>2, <1>3 DEF Applique

LEMMA AppliqueCompte ==
  ASSUME IInv, Accord, NEW r \in Racine, NEW op \in OperationDe(Estampille), op.quoi = "compte",
         Saine(op.compte, op.enregistrement), AppliquerCompte(r, op)
  PROVE  Applique(r, op)
<1> DEFINE c == op.compte
           compte == op.enregistrement
<1>0. Racines BY DEF IInv
<1>1. compte.efface = "non" BY Champs
<1>2. appareils'[r] = appareils[r] /\ descriptions'[r] = descriptions[r] /\ points'[r] = points[r]
  BY DEF AppliquerCompte
<1>3. \A g, k, v : Dit(op, g, k, v) => g = "compte" /\ k = c /\ v = k BY DEF Dit
<1>4. CASE c \in DOMAIN comptes[r]
  <2>1. comptes'[r] = comptes[r] BY <1>4 DEF AppliquerCompte
  <2>2. \A g, k, v : Dit(op, g, k, v) => Su(r, g, k, v)'
    BY <1>3, <1>4, <2>1 DEF Su, SuCompte
  <2> QED BY <1>2, <2>1, <2>2, SansEffet
<1>5. CASE c \notin DOMAIN comptes[r]
  <2>1. comptes'[r] = Poser(comptes[r], c, compte)
    BY <1>0, <1>5 DEF AppliquerCompte, Ranger, Racines
  <2>2. /\ DOMAIN comptes'[r] = DOMAIN comptes[r] \cup {c} /\ comptes'[r][c] = compte
        /\ \A k \in DOMAIN comptes[r] : comptes'[r][k] = comptes[r][k]
    BY <1>5, <2>1 DEF Poser
  <2>3. Progres(r) BY <1>2, <2>2, Reflexes DEF Progres, Efface, Revoque
  <2>4. ASSUME NEW g, NEW k, NEW v, Tenu(r, g, k, v)'
        PROVE  Tenu(r, g, k, v) \/ Porte(op, g, k, v)
    <3>1. CASE TenuCompte(r, g, k, v)'
      <4>1. CASE k = c
        BY <3>1, <4>1, <2>2, <1>1 DEF TenuCompte, Efface, Porte, Dit
      <4>2. CASE k # c
        BY <3>1, <4>2, <2>2 DEF TenuCompte, Efface, Tenu
      <4> QED BY <4>1, <4>2
    <3>2. CASE ~TenuCompte(r, g, k, v)'
      BY <2>4, <3>2, <1>2 DEF Tenu, TenuAppareil, Revoque
    <3> QED BY <3>1, <3>2
  <2>5. \A g, k, v : Dit(op, g, k, v) => Su(r, g, k, v)'
    BY <1>3, <2>2 DEF Su, SuCompte
  <2>6. \A k \in DOMAIN comptes'[r] : Saine(k, comptes'[r][k])
    BY <2>2 DEF Accord, Saines
  <2> QED BY <2>3, <2>4, <2>5, <2>6 DEF Applique
<1> QED BY <1>4, <1>5

LEMMA AppliqueAlias ==
  ASSUME IInv, Accord, NEW r \in Racine, NEW op \in OperationDe(Estampille), op.quoi = "alias",
         op.compte \in DOMAIN comptes[r], AppliquerAlias(r, op)
  PROVE  Applique(r, op)
<1> DEFINE c == op.compte
           e == op.estampille
           compte == [estampille |-> PlusTard(comptes[r][c].estampille, e),
                      alias |-> op.alias, reclamation |-> e, efface |-> "non"]
<1>0. Racines BY DEF IInv
<1>1. e \in Estampille /\ Emise \subseteq Estampille BY Champs DEF Emise
<1>2. appareils'[r] = appareils[r] /\ descriptions'[r] = descriptions[r] /\ points'[r] = points[r]
  BY DEF AppliquerAlias
<1>3. \A g, k, v : Dit(op, g, k, v) =>
        g = "alias" /\ k = c /\ e # c /\ v = Pretention(op.alias, e)
  BY DEF Dit
<1>4. CASE ~Reclamante(r, c, e)
  <2>1. comptes'[r] = comptes[r] BY <1>4 DEF AppliquerAlias
  <2>2. Efface(r, c) \/ ~Avant(comptes[r][c].reclamation, e) BY <1>4 DEF Reclamante
  <2>3. \A g, k, v : Dit(op, g, k, v) => Su(r, g, k, v)'
    BY <1>3, <2>1, <2>2 DEF Su, SuCompte, Efface, Pretention
  <2> QED BY <1>2, <2>1, <2>3, SansEffet
<1>5. CASE Reclamante(r, c, e)
  <2>1. /\ c \in DOMAIN comptes[r] /\ ~Efface(r, c) /\ Avant(comptes[r][c].reclamation, e)
    BY <1>5 DEF Reclamante
  <2>2. comptes'[r] = Poser(comptes[r], c, compte)
    BY <1>0, <1>5 DEF AppliquerAlias, Ranger, Racines
  <2>3. /\ comptes[r][c].estampille = comptes[r][c].reclamation
        /\ ~Avant(comptes[r][c].reclamation, c)
    BY <2>1 DEF Accord, Saines, Saine, Efface
  <2>4. comptes[r][c].reclamation \in Estampille /\ c \in Estampille
    BY <1>1, <2>1, Reflexes DEF CompteDe
  <2>5. compte.estampille = e BY <2>1, <2>3 DEF PlusTard
  <2>6. ~Avant(e, c) /\ e # c /\ ~Avant(e, comptes[r][c].reclamation) /\ ~Avant(e, e)
    <3>1. ~Avant(e, comptes[r][c].reclamation) /\ ~Avant(e, e)
      BY <1>1, <2>1, <2>4, OrdreTotal
    <3>2. ~Avant(e, c) BY <1>1, <2>3, <2>4, <3>1, OrdreTransitif
    <3> QED BY <2>1, <2>3, <3>1, <3>2
  <2>7. Saine(c, compte) BY <2>5, <2>6 DEF Saine
  <2>8. compte.efface = "non" /\ compte.alias = op.alias /\ compte.reclamation = e OBVIOUS
  <2> HIDE DEF compte, c, e
  <2>9. /\ DOMAIN comptes'[r] = DOMAIN comptes[r] /\ comptes'[r][c] = compte
        /\ \A k \in DOMAIN comptes[r] : k # c => comptes'[r][k] = comptes[r][k]
    BY <2>1, <2>2 DEF Poser
  <2>10. Progres(r) BY <1>2, <2>1, <2>6, <2>8, <2>9, Reflexes DEF Progres, Efface, Revoque
  <2>11. ASSUME NEW g, NEW k, NEW v, Tenu(r, g, k, v)'
        PROVE  Tenu(r, g, k, v) \/ Porte(op, g, k, v)
    <3>1. CASE TenuCompte(r, g, k, v)'
      <4>1. CASE k = c
        <5>1. (g = "compte" /\ v = k) \/ (g = "alias" /\ v = Pretention(op.alias, e))
          BY <3>1, <4>1, <2>8, <2>9 DEF TenuCompte, Efface
        <5>2. CASE g = "compte" /\ v = k BY <5>2, <4>1, <2>1 DEF Tenu, TenuCompte
        <5>3. CASE g = "alias" /\ v = Pretention(op.alias, e)
          BY <5>3, <4>1, <2>6 DEF Porte, Dit, c, e
        <5> QED BY <5>1, <5>2, <5>3
      <4>2. CASE k # c
        BY <3>1, <4>2, <2>9 DEF TenuCompte, Efface, Tenu
      <4> QED BY <4>1, <4>2
    <3>2. CASE ~TenuCompte(r, g, k, v)'
      BY <2>11, <3>2, <1>2 DEF Tenu, TenuAppareil, Revoque
    <3> QED BY <3>1, <3>2
  <2>12. \A g, k, v : Dit(op, g, k, v) => Su(r, g, k, v)'
    BY <1>3, <2>6, <2>8, <2>9, <2>1 DEF Su, SuCompte, Pretention
  <2>13. \A k \in DOMAIN comptes'[r] : Saine(k, comptes'[r][k])
    BY <2>7, <2>9 DEF Accord, Saines
  <2> QED BY <2>10, <2>11, <2>12, <2>13 DEF Applique
<1> QED BY <1>4, <1>5

\* The device that an erasure takes away is one of the erased account.
LEMMA EffacementProgresse ==
  ASSUME IInv, Accord, SansSurprise, NEW r \in Racine, NEW c, NEW cause \in Cause, NEW e,
         EffacerDans(r, c, cause, e), ~Efface(r, c)
  PROVE  /\ Progres(r)
         /\ \A g, k, v : Tenu(r, g, k, v)' =>
              \/ Tenu(r, g, k, v)
              \/ /\ k = c
                 /\ \/ g = "compte" /\ v = k
                    \/ g = "efface" /\ v = [cause |-> cause, estampille |-> e]
         /\ c \in DOMAIN comptes'[r] /\ Efface(r, c)' /\ comptes'[r][c].estampille = e
         /\ \A k \in DOMAIN comptes'[r] : Saine(k, comptes'[r][k])
<1> DEFINE compte == [estampille |-> e, alias |-> SansAlias, reclamation |-> e,
                      efface |-> cause]
           X == Possede(r, c)
<1>0. Racines BY DEF IInv
<1>1. comptes'[r] = Poser(comptes[r], c, compte)
  BY <1>0 DEF EffacerDans, Ranger, Racines
<1>2. /\ compte.efface # "non" /\ compte.efface = cause /\ compte.estampille = e
      /\ Saine(c, compte)
  BY DEF Cause, Saine
<1> HIDE DEF compte
<1>3. /\ DOMAIN comptes'[r] = DOMAIN comptes[r] \cup {c} /\ comptes'[r][c] = compte
      /\ \A k \in DOMAIN comptes[r] : k # c => comptes'[r][k] = comptes[r][k]
  BY <1>1 DEF Poser
<1>4. /\ appareils'[r] = Sans(appareils[r], X)
      /\ descriptions'[r] = Sans(descriptions[r], X)
      /\ points'[r] = Sans(points[r], X)
  BY <1>0 DEF EffacerDans, Racines
<1>5. \A d \in DOMAIN appareils[r] : d \in X <=> appareils[r][d].proprietaire = c
  BY DEF Possede
<1> HIDE DEF X
<1>6. /\ DOMAIN appareils'[r] = DOMAIN appareils[r] \ X
      /\ \A d \in DOMAIN appareils'[r] : appareils'[r][d] = appareils[r][d]
      /\ DOMAIN descriptions'[r] = DOMAIN descriptions[r] \ X
      /\ \A d \in DOMAIN descriptions'[r] : descriptions'[r][d] = descriptions[r][d]
      /\ DOMAIN points'[r] = DOMAIN points[r] \ X
      /\ \A d \in DOMAIN points'[r] : points'[r][d] = points[r][d]
  BY <1>4 DEF Sans
<1>7. Efface(r, c)' BY <1>2, <1>3 DEF Efface
<1>8. Progres(r)
  <2>1. ASSUME NEW k \in DOMAIN comptes[r]
        PROVE  /\ k \in DOMAIN comptes'[r]
               /\ Efface(r, k) =>
                    /\ Efface(r, k)'
                    /\ ~Avant(comptes[r][k].estampille, comptes'[r][k].estampille)
               /\ ~Efface(r, k)' =>
                    ~Avant(comptes'[r][k].reclamation, comptes[r][k].reclamation)
    <3>1. CASE k = c BY <3>1, <1>3, <1>7
    <3>2. CASE k # c BY <3>2, <1>3, Reflexes DEF Efface
    <3> QED BY <3>1, <3>2
  <2>2. ASSUME NEW d \in DOMAIN appareils[r], appareils[r][d].proprietaire # c
        PROVE  /\ d \in DOMAIN appareils'[r]
               /\ appareils[r][d].prouve => appareils'[r][d].prouve
               /\ Revoque(r, d) =>
                    /\ appareils'[r][d].revoque # Aucune
                    /\ ~Avant(appareils[r][d].revoque, appareils'[r][d].revoque)
               /\ d \in DOMAIN descriptions[r] =>
                    /\ d \in DOMAIN descriptions'[r]
                    /\ ~Avant(descriptions'[r][d], descriptions[r][d])
               /\ d \in DOMAIN points[r] =>
                    d \in DOMAIN points'[r] /\ ~Avant(points'[r][d], points[r][d])
    BY <2>2, <1>5, <1>6, Reflexes DEF Revoque
  <2>3. \A d \in DOMAIN appareils[r] : \A k :
          k = appareils[r][d].proprietaire /\ k = c => Efface(r, k)'
    BY <1>7
  <2> QED BY <2>1, <2>2, <2>3 DEF Progres
<1>9. ASSUME NEW g, NEW k, NEW v, Tenu(r, g, k, v)', ~Tenu(r, g, k, v)
      PROVE  /\ k = c
             /\ \/ g = "compte" /\ v = k
                \/ g = "efface" /\ v = [cause |-> cause, estampille |-> e]
  <2>1. CASE TenuCompte(r, g, k, v)'
    <3>1. CASE k = c BY <2>1, <3>1, <1>2, <1>3, <1>7 DEF TenuCompte
    <3>2. CASE k # c BY <2>1, <3>2, <1>3, <1>9 DEF TenuCompte, Efface, Tenu
    <3> QED BY <3>1, <3>2
  <2>2. CASE ~TenuCompte(r, g, k, v)'
    BY <2>2, <1>6, <1>9 DEF Tenu, TenuAppareil, Revoque
  <2> QED BY <2>1, <2>2
<1>10. \A k \in DOMAIN comptes'[r] : Saine(k, comptes'[r][k])
  BY <1>2, <1>3 DEF Accord, Saines
<1> QED BY <1>2, <1>3, <1>7, <1>8, <1>9, <1>10

LEMMA AppliqueEffacement ==
  ASSUME IInv, Accord, SansSurprise, NEW r \in Racine, NEW op \in OperationDe(Estampille),
         op.quoi = "efface", AppliquerCompteEfface(r, op), ~Efface(r, op.compte)
  PROVE  Applique(r, op)
<1>1. op.cause \in Cause /\ op.estampille \in Estampille BY Champs
<1>2. EffacerDans(r, op.compte, op.cause, op.estampille) BY DEF AppliquerCompteEfface
<1>3. /\ Progres(r)
      /\ \A g, k, v : Tenu(r, g, k, v)' =>
              \/ Tenu(r, g, k, v)
              \/ /\ k = op.compte
                 /\ \/ g = "compte" /\ v = k
                    \/ g = "efface" /\ v = [cause |-> op.cause, estampille |-> op.estampille]
      /\ op.compte \in DOMAIN comptes'[r]
      /\ \A k \in DOMAIN comptes'[r] : Saine(k, comptes'[r][k])
  BY <1>1, <1>2, EffacementProgresse
<1>4. \A k : k = op.compte => Efface(r, k)' /\ comptes'[r][k].estampille = op.estampille
  BY <1>1, <1>2, EffacementProgresse
<1>5. \A g, k, v : Tenu(r, g, k, v)' => Tenu(r, g, k, v) \/ Porte(op, g, k, v)
  BY <1>3 DEF Porte, Dit
<1>6. ~Avant(op.estampille, op.estampille) BY <1>1, OrdreTotal
<1>7. \A g, k, v : Dit(op, g, k, v) => Su(r, g, k, v)'
  BY <1>3, <1>4, <1>6 DEF Dit, Su, SuCompte
<1> QED BY <1>3, <1>5, <1>7 DEF Applique

LEMMA AppliqueSecondEffacement ==
  ASSUME IInv, Accord, NEW r \in Racine, NEW op \in OperationDe(Estampille),
         op.quoi = "efface", AppliquerCompteEfface(r, op), Efface(r, op.compte)
  PROVE  Applique(r, op)
<1> DEFINE c == op.compte
           e == op.estampille
           tenu == comptes[r][c]
           compte == IF Avant(e, tenu.estampille)
                       THEN [tenu EXCEPT !.estampille = e, !.reclamation = e,
                                         !.efface = op.cause]
                       ELSE tenu
<1>0. Racines BY DEF IInv
<1>1. op.cause \in Cause /\ e \in Estampille BY Champs
<1>2. c \in DOMAIN comptes[r] /\ tenu.efface # "non" BY DEF Efface
<1>3. /\ tenu \in CompteDe(Emise) /\ tenu.estampille \in Estampille
      /\ tenu.estampille = tenu.reclamation
  BY <1>2, Reflexes DEF CompteDe, Emise, Accord, Saines, Saine
<1>4. comptes'[r] = [comptes[r] EXCEPT ![c] = compte]
  BY <1>0, <1>2 DEF AppliquerCompteEfface, Racines
<1>5. appareils'[r] = appareils[r] /\ descriptions'[r] = descriptions[r] /\ points'[r] = points[r]
  BY DEF AppliquerCompteEfface
<1>6. /\ compte.efface # "non" /\ compte.estampille = compte.reclamation
      /\ ~Avant(tenu.estampille, compte.estampille)
      /\ ~Avant(e, compte.estampille)
      /\ \/ compte.estampille = e /\ compte.efface = op.cause
         \/ compte = tenu
  BY <1>1, <1>2, <1>3, OrdreTotal DEF Cause, CompteDe
<1> HIDE DEF compte, tenu, c, e
<1>7. /\ DOMAIN comptes'[r] = DOMAIN comptes[r] /\ comptes'[r][c] = compte
      /\ \A k \in DOMAIN comptes[r] : k # c => comptes'[r][k] = comptes[r][k]
  BY <1>2, <1>4
<1>8. Efface(r, c)' /\ Efface(r, c) BY <1>2, <1>6, <1>7 DEF Efface, tenu
<1>9. Progres(r)
  <2>1. ASSUME NEW k \in DOMAIN comptes[r]
        PROVE  /\ k \in DOMAIN comptes'[r]
               /\ Efface(r, k) =>
                    /\ Efface(r, k)'
                    /\ ~Avant(comptes[r][k].estampille, comptes'[r][k].estampille)
               /\ ~Efface(r, k)' =>
                    ~Avant(comptes'[r][k].reclamation, comptes[r][k].reclamation)
    <3>1. CASE k = c BY <3>1, <1>6, <1>7, <1>8 DEF tenu
    <3>2. CASE k # c BY <3>2, <1>7, Reflexes DEF Efface
    <3> QED BY <3>1, <3>2
  <2> QED BY <2>1, <1>5, Reflexes DEF Progres, Revoque
<1>10. ASSUME NEW g, NEW k, NEW v, Tenu(r, g, k, v)'
       PROVE  Tenu(r, g, k, v) \/ Porte(op, g, k, v)
  <2>1. CASE TenuCompte(r, g, k, v)'
    <3>1. CASE k = c /\ g = "efface"
      <4>1. v = [cause |-> compte.efface, estampille |-> compte.estampille]
        BY <2>1, <3>1, <1>7 DEF TenuCompte
      <4>2. CASE compte = tenu BY <4>1, <4>2, <3>1, <1>2, <1>8 DEF Tenu, TenuCompte, tenu
      <4>3. CASE compte # tenu BY <4>1, <4>3, <3>1, <1>6 DEF Porte, Dit, c, e
      <4> QED BY <4>2, <4>3
    <3>2. CASE k = c /\ g # "efface"
      BY <2>1, <3>2, <1>2, <1>7, <1>8 DEF TenuCompte, Tenu
    <3>3. CASE k # c BY <2>1, <3>3, <1>7 DEF TenuCompte, Efface, Tenu
    <3> QED BY <3>1, <3>2, <3>3
  <2>2. CASE ~TenuCompte(r, g, k, v)'
    BY <2>2, <1>5, <1>10 DEF Tenu, TenuAppareil, Revoque
  <2> QED BY <2>1, <2>2
<1>11. ASSUME NEW g, NEW k, NEW v, Dit(op, g, k, v) PROVE Su(r, g, k, v)'
  <2>1. /\ k = c
        /\ \/ g = "compte" /\ v = k
           \/ g = "efface" /\ v = [cause |-> op.cause, estampille |-> e]
    BY <1>11 DEF Dit, c, e
  <2> QED BY <2>1, <1>2, <1>6, <1>7, <1>8 DEF Su, SuCompte
<1>12. \A k \in DOMAIN comptes'[r] : Saine(k, comptes'[r][k])
  BY <1>6, <1>7 DEF Accord, Saines, Saine
<1> QED BY <1>9, <1>10, <1>11, <1>12 DEF Applique

\* The rows of accounts stay: what is left to look at, of a step on devices.
LEMMA AppareilsProgressent ==
  ASSUME IInv, Accord, NEW r \in Racine, comptes'[r] = comptes[r], NEW op,
         \A d \in DOMAIN appareils[r] :
           /\ d \in DOMAIN appareils'[r]
           /\ appareils[r][d].prouve => appareils'[r][d].prouve
           /\ Revoque(r, d) =>
                /\ appareils'[r][d].revoque # Aucune
                /\ ~Avant(appareils[r][d].revoque, appareils'[r][d].revoque)
           /\ d \in DOMAIN descriptions[r] =>
                /\ d \in DOMAIN descriptions'[r]
                /\ ~Avant(descriptions'[r][d], descriptions[r][d])
           /\ d \in DOMAIN points[r] =>
                \/ appareils'[r][d].revoque # Aucune
                \/ d \in DOMAIN points'[r] /\ ~Avant(points'[r][d], points[r][d]),
         \A g, k, v : TenuAppareil(r, g, k, v)' =>
           TenuAppareil(r, g, k, v) \/ Porte(op, g, k, v),
         \A k \in DOMAIN descriptions'[r] :
           \/ k \in DOMAIN descriptions[r] /\ descriptions'[r][k] = descriptions[r][k]
           \/ Porte(op, "description", k, descriptions'[r][k]),
         \A k \in DOMAIN points'[r] :
           \/ k \in DOMAIN points[r] /\ points'[r][k] = points[r][k]
           \/ Porte(op, "point", k, points'[r][k])
  PROVE  /\ Progres(r)
         /\ \A g, k, v : Tenu(r, g, k, v)' => Tenu(r, g, k, v) \/ Porte(op, g, k, v)
         /\ \A c \in DOMAIN comptes'[r] : Saine(c, comptes'[r][c])
<1>1. Progres(r) BY Reflexes DEF Progres, Efface
<1>2. \A g, k, v : TenuCompte(r, g, k, v)' => TenuCompte(r, g, k, v)
  BY DEF TenuCompte, Efface
<1>3. \A g, k, v : Tenu(r, g, k, v)' => Tenu(r, g, k, v) \/ Porte(op, g, k, v)
  BY <1>2 DEF Tenu
<1>4. \A c \in DOMAIN comptes'[r] : Saine(c, comptes'[r][c]) BY DEF Accord, Saines
<1> QED BY <1>1, <1>3, <1>4

\* A device enters, or its account is erased here.
LEMMA AppliqueAppareil ==
  ASSUME IInv, Accord, NEW r \in Racine, NEW op \in OperationDe(Estampille),
         op.quoi = "appareil", AppliquerAppareil(r, op),
         \/ Admis(r, op)
         \/ /\ op.appareil \in Emise
            /\ Vu("appareil", op.appareil, op.enregistrement.proprietaire)
  PROVE  Applique(r, op)
<1> DEFINE d == op.appareil
           appareil == op.enregistrement
<1>0. Racines BY DEF IInv
<1>3. /\ comptes'[r] = comptes[r] /\ descriptions'[r] = descriptions[r]
      /\ points'[r] = points[r]
      /\ appareils'[r] = IF Admis(r, op) THEN Poser(appareils[r], d, appareil)
                                         ELSE appareils[r]
  BY <1>0 DEF AppliquerAppareil, Racines
<1>4. \A k \in DOMAIN appareils[r] :
        k \in DOMAIN appareils'[r] /\ appareils'[r][k] = appareils[r][k]
  BY <1>3 DEF Admis, Poser
<1>5. \A k \in DOMAIN appareils'[r] :
        k \in DOMAIN appareils[r] \/ (k = d /\ appareils'[r][k] = appareil)
  BY <1>3 DEF Admis, Poser
<1>6. \A g, k, v : TenuAppareil(r, g, k, v)' =>
        TenuAppareil(r, g, k, v) \/ Porte(op, g, k, v)
  BY <1>4, <1>5 DEF TenuAppareil, Revoque, Porte, Dit
<1>7. /\ Progres(r)
      /\ \A g, k, v : Tenu(r, g, k, v)' => Tenu(r, g, k, v) \/ Porte(op, g, k, v)
      /\ \A c \in DOMAIN comptes'[r] : Saine(c, comptes'[r][c])
  <2>1. \A k \in DOMAIN appareils[r] :
           /\ k \in DOMAIN appareils'[r]
           /\ appareils[r][k].prouve => appareils'[r][k].prouve
           /\ Revoque(r, k) =>
                /\ appareils'[r][k].revoque # Aucune
                /\ ~Avant(appareils[r][k].revoque, appareils'[r][k].revoque)
           /\ k \in DOMAIN descriptions[r] =>
                /\ k \in DOMAIN descriptions'[r]
                /\ ~Avant(descriptions'[r][k], descriptions[r][k])
           /\ k \in DOMAIN points[r] =>
                \/ appareils'[r][k].revoque # Aucune
                \/ k \in DOMAIN points'[r] /\ ~Avant(points'[r][k], points[r][k])
    BY <1>3, <1>4, Reflexes DEF Revoque
  <2> QED BY <2>1, <1>3, <1>6, AppareilsProgressent
<1>8. ASSUME Ancien, NEW g, NEW k, NEW v, Dit(op, g, k, v) PROVE Su(r, g, k, v)'
  <2>1. g = "appareil" /\ k = d /\ v = appareil.proprietaire BY <1>8 DEF Dit
  <2>2. Connu(r, d)'
    <3>1. CASE d \in DOMAIN appareils'[r] BY <3>1 DEF Connu
    <3>2. CASE d \notin DOMAIN appareils'[r]
      <4>1. ~Admis(r, op) /\ Efface(r, appareil.proprietaire)
        BY <3>2, <1>3, <1>4 DEF Admis, Poser
      <4>2. d \in Emise /\ Vu("appareil", d, appareil.proprietaire) BY <4>1
      <4>3. ASSUME NEW c, Vu("appareil", d, c)' PROVE Efface(r, c)'
        <5>1. Vu("appareil", d, c) BY <1>8, <4>2, <4>3 DEF Ancien
        <5>2. Marque("appareil", d, c) = Marque("appareil", d, appareil.proprietaire)
          BY DEF Marque
        <5>3. c = appareil.proprietaire BY <4>2, <5>1, <5>2 DEF Accord, Unicite
        <5> QED BY <4>1, <5>3, <1>3 DEF Efface
      <4> HIDE DEF d
      <4> QED BY <4>3 DEF Connu, Delaisse
    <3> QED BY <3>1, <3>2
  <2> QED BY <2>1, <2>2 DEF Su, SuAppareil
<1> QED BY <1>7, <1>8 DEF Applique

\* An operation about a device that r knows: the device is there, or it has no account.
LEMMA AppliqueRevocation ==
  ASSUME IInv, Accord, NEW r \in Racine, NEW op \in OperationDe(Estampille), op.quoi = "revoque",
         op.appareil \in Emise, Connu(r, op.appareil), AppliquerAppareilRevoque(r, op)
  PROVE  Applique(r, op)
<1>0. Racines BY DEF IInv
<1>1. PICK d : d = op.appareil OBVIOUS
<1>2. d \in Emise /\ op.le \in Estampille /\ Emise \subseteq Estampille
  BY <1>1, Champs DEF Emise
<1>3. comptes'[r] = comptes[r] /\ descriptions'[r] = descriptions[r]
  BY DEF AppliquerAppareilRevoque
<1>4. \A g, k, v : Dit(op, g, k, v) => g = "revoque" /\ k = d /\ v = op.le BY <1>1 DEF Dit
<1>5. CASE d \notin DOMAIN appareils[r]
  <2>1. appareils'[r] = appareils[r] /\ points'[r] = points[r]
    BY <1>1, <1>5 DEF AppliquerAppareilRevoque
  <2>2. Progres(r) BY <1>3, <2>1, MemesProgres
  <2>3. ASSUME Ancien PROVE Delaisse(r, d)'
    BY <1>1, <1>2, <1>5, <2>2, <2>3, DelaisseReste DEF Connu
  <2>4. Ancien => \A g, k, v : Dit(op, g, k, v) => Su(r, g, k, v)'
    BY <1>4, <2>3 DEF Su, SuAppareil, Connu
  <2> QED BY <1>3, <2>1, <2>4, SansEffet
<1>6. CASE d \in DOMAIN appareils[r]
  <2>1. PICK le : le = PremiereDate(appareils[r][d].revoque, op.le) OBVIOUS
  <2>2. PICK appareil : appareil = [appareils[r][d] EXCEPT !.revoque = le] OBVIOUS
  <2>3. /\ appareils'[r] = [appareils[r] EXCEPT ![d] = appareil]
        /\ points'[r] = Sans(points[r], {d})
    BY <1>0, <1>1, <1>6, <2>1, <2>2 DEF AppliquerAppareilRevoque, Racines
  <2>4. appareils[r][d] \in AppareilDe(Emise) BY <1>6, Reflexes
  <2>5. /\ le # Aucune /\ ~Avant(op.le, le) /\ le \in {appareils[r][d].revoque, op.le}
        /\ Revoque(r, d) => ~Avant(appareils[r][d].revoque, le)
    BY <1>2, <2>1, <2>4, Extremes, OrdreTotal, PasDEstampille
       DEF PremiereDate, Revoque, AppareilDe
  <2>6. /\ appareil.prouve = appareils[r][d].prouve /\ appareil.revoque = le
        /\ appareil.proprietaire = appareils[r][d].proprietaire
    BY <2>2, <2>4 DEF AppareilDe
  <2>7. /\ DOMAIN appareils'[r] = DOMAIN appareils[r] /\ appareils'[r][d] = appareil
        /\ \A k \in DOMAIN appareils[r] : k # d => appareils'[r][k] = appareils[r][k]
    BY <1>6, <2>3
  <2>8. /\ DOMAIN points'[r] = DOMAIN points[r] \ {d}
        /\ \A k \in DOMAIN points'[r] : points'[r][k] = points[r][k]
    BY <2>3 DEF Sans
  <2>9. \A g, k, v : TenuAppareil(r, g, k, v)' =>
          TenuAppareil(r, g, k, v) \/ Porte(op, g, k, v)
    <3> SUFFICES ASSUME NEW g, NEW k, NEW v, TenuAppareil(r, g, k, v)'
                 PROVE  TenuAppareil(r, g, k, v) \/ Porte(op, g, k, v)
      OBVIOUS
    <3>1. CASE k # d BY <3>1, <2>7 DEF TenuAppareil, Revoque
    <3>2. CASE k = d /\ g # "revoque" BY <3>2, <1>6, <2>6, <2>7 DEF TenuAppareil, Revoque
    <3>3. CASE k = d /\ g = "revoque"
      <4>1. v = le BY <3>3, <2>6, <2>7 DEF TenuAppareil
      <4>2. CASE le = op.le BY <4>1, <4>2, <3>3, <1>1 DEF Porte, Dit
      <4>3. CASE le = appareils[r][d].revoque
        BY <4>1, <4>3, <3>3, <1>6, <2>5 DEF TenuAppareil, Revoque
      <4> QED BY <2>5, <4>2, <4>3
    <3> QED BY <3>1, <3>2, <3>3
  <2>10. /\ Progres(r)
         /\ \A g, k, v : Tenu(r, g, k, v)' => Tenu(r, g, k, v) \/ Porte(op, g, k, v)
         /\ \A c \in DOMAIN comptes'[r] : Saine(c, comptes'[r][c])
    <3>1. ASSUME NEW k \in DOMAIN appareils[r]
          PROVE  /\ k \in DOMAIN appareils'[r]
                 /\ appareils[r][k].prouve => appareils'[r][k].prouve
                 /\ Revoque(r, k) =>
                      /\ appareils'[r][k].revoque # Aucune
                      /\ ~Avant(appareils[r][k].revoque, appareils'[r][k].revoque)
                 /\ k \in DOMAIN descriptions[r] =>
                      /\ k \in DOMAIN descriptions'[r]
                      /\ ~Avant(descriptions'[r][k], descriptions[r][k])
                 /\ k \in DOMAIN points[r] =>
                      \/ appareils'[r][k].revoque # Aucune
                      \/ k \in DOMAIN points'[r] /\ ~Avant(points'[r][k], points[r][k])
      <4>1. CASE k = d BY <4>1, <1>3, <2>5, <2>6, <2>7, Reflexes DEF Revoque
      <4>2. CASE k # d BY <4>2, <1>3, <2>7, <2>8, Reflexes DEF Revoque
      <4> QED BY <4>1, <4>2
    <3> QED BY <3>1, <1>3, <2>8, <2>9, AppareilsProgressent
  <2>11. \A g, k, v : Dit(op, g, k, v) => Su(r, g, k, v)'
    BY <1>4, <1>6, <2>5, <2>6, <2>7 DEF Su, SuAppareil, Connu, Revoque
  <2> QED BY <2>10, <2>11 DEF Applique
<1> QED BY <1>5, <1>6

LEMMA AppliqueAttestation ==
  ASSUME IInv, Accord, NEW r \in Racine, NEW op \in OperationDe(Estampille), op.quoi = "atteste",
         op.appareil \in Emise, Connu(r, op.appareil), AppliquerAppareilAtteste(r, op)
  PROVE  Applique(r, op)
<1>0. Racines BY DEF IInv
<1>1. PICK d : d = op.appareil OBVIOUS
<1>2. d \in Emise BY <1>1
<1>3. comptes'[r] = comptes[r] /\ descriptions'[r] = descriptions[r] /\ points'[r] = points[r]
  BY DEF AppliquerAppareilAtteste
<1>4. \A g, k, v : Dit(op, g, k, v) => g = "atteste" /\ k = d /\ v = k BY <1>1 DEF Dit
<1>5. CASE d \notin DOMAIN appareils[r]
  <2>1. appareils'[r] = appareils[r] BY <1>1, <1>5 DEF AppliquerAppareilAtteste
  <2>2. Progres(r) BY <1>3, <2>1, MemesProgres
  <2>3. ASSUME Ancien PROVE Delaisse(r, d)'
    BY <1>1, <1>2, <1>5, <2>2, <2>3, DelaisseReste DEF Connu
  <2>4. Ancien => \A g, k, v : Dit(op, g, k, v) => Su(r, g, k, v)'
    BY <1>4, <2>3 DEF Su, SuAppareil, Connu
  <2> QED BY <1>3, <2>1, <2>4, SansEffet
<1>6. CASE d \in DOMAIN appareils[r]
  <2>1. PICK appareil : appareil = [appareils[r][d] EXCEPT !.prouve = TRUE] OBVIOUS
  <2>2. appareils'[r] = [appareils[r] EXCEPT ![d] = appareil]
    BY <1>0, <1>1, <1>6, <2>1 DEF AppliquerAppareilAtteste, Racines
  <2>3. appareils[r][d] \in AppareilDe(Emise) BY <1>6, Reflexes
  <2>4. /\ appareil.prouve /\ appareil.revoque = appareils[r][d].revoque
        /\ appareil.proprietaire = appareils[r][d].proprietaire
    BY <2>1, <2>3 DEF AppareilDe
  <2>5. /\ DOMAIN appareils'[r] = DOMAIN appareils[r] /\ appareils'[r][d] = appareil
        /\ \A k \in DOMAIN appareils[r] : k # d => appareils'[r][k] = appareils[r][k]
    BY <1>6, <2>2
  <2>6. \A g, k, v : TenuAppareil(r, g, k, v)' =>
          TenuAppareil(r, g, k, v) \/ Porte(op, g, k, v)
    <3> SUFFICES ASSUME NEW g, NEW k, NEW v, TenuAppareil(r, g, k, v)'
                 PROVE  TenuAppareil(r, g, k, v) \/ Porte(op, g, k, v)
      OBVIOUS
    <3>1. CASE k # d BY <3>1, <2>5 DEF TenuAppareil, Revoque
    <3>2. CASE k = d /\ g # "atteste" BY <3>2, <1>6, <2>4, <2>5 DEF TenuAppareil, Revoque
    <3>3. CASE k = d /\ g = "atteste"
      BY <3>3, <1>1 DEF TenuAppareil, Porte, Dit
    <3> QED BY <3>1, <3>2, <3>3
  <2>7. /\ Progres(r)
        /\ \A g, k, v : Tenu(r, g, k, v)' => Tenu(r, g, k, v) \/ Porte(op, g, k, v)
        /\ \A c \in DOMAIN comptes'[r] : Saine(c, comptes'[r][c])
    <3>1. ASSUME NEW k \in DOMAIN appareils[r]
          PROVE  /\ k \in DOMAIN appareils'[r]
                 /\ appareils[r][k].prouve => appareils'[r][k].prouve
                 /\ Revoque(r, k) =>
                      /\ appareils'[r][k].revoque # Aucune
                      /\ ~Avant(appareils[r][k].revoque, appareils'[r][k].revoque)
                 /\ k \in DOMAIN descriptions[r] =>
                      /\ k \in DOMAIN descriptions'[r]
                      /\ ~Avant(descriptions'[r][k], descriptions[r][k])
                 /\ k \in DOMAIN points[r] =>
                      \/ appareils'[r][k].revoque # Aucune
                      \/ k \in DOMAIN points'[r] /\ ~Avant(points'[r][k], points[r][k])
      <4>1. CASE k = d BY <4>1, <1>3, <2>4, <2>5, Reflexes DEF Revoque
      <4>2. CASE k # d BY <4>2, <1>3, <2>5, Reflexes DEF Revoque
      <4> QED BY <4>1, <4>2
    <3> QED BY <3>1, <1>3, <2>6, AppareilsProgressent
  <2>8. \A g, k, v : Dit(op, g, k, v) => Su(r, g, k, v)'
    BY <1>4, <1>6, <2>4, <2>5 DEF Su, SuAppareil, Connu
  <2> QED BY <2>7, <2>8 DEF Applique
<1> QED BY <1>5, <1>6

\* The last one written stays.
LEMMA DerniereEcrite ==
  ASSUME NEW f, NEW d, NEW e \in Estampille, NEW g, g = Derniere(f, d, e),
         d \in DOMAIN f => f[d] \in Estampille
  PROVE  /\ d \in DOMAIN g /\ ~Avant(g[d], e)
         /\ \A k \in DOMAIN f : k \in DOMAIN g /\ (k # d => g[k] = f[k])
         /\ d \in DOMAIN f => ~Avant(g[d], f[d])
         /\ \A k \in DOMAIN g : \/ k \in DOMAIN f /\ g[k] = f[k]
                                \/ k = d /\ g[k] = e
<1>1. CASE d \in DOMAIN f /\ ~Avant(f[d], e)
  <2>1. g = f BY <1>1 DEF Derniere
  <2> QED BY <2>1, <1>1, OrdreTotal
<1>2. CASE ~(d \in DOMAIN f /\ ~Avant(f[d], e))
  <2>1. g = Poser(f, d, e) BY <1>2 DEF Derniere
  <2>2. /\ DOMAIN g = DOMAIN f \cup {d} /\ g[d] = e
        /\ \A k \in DOMAIN f : k # d => g[k] = f[k]
    BY <2>1 DEF Poser
  <2>3. ~Avant(e, e) BY OrdreTotal
  <2>4. d \in DOMAIN f => ~Avant(e, f[d]) BY <1>2, OrdreTotal
  <2> QED BY <2>2, <2>3, <2>4
<1> QED BY <1>1, <1>2

LEMMA AppliqueDescription ==
  ASSUME IInv, Accord, NEW r \in Racine, NEW op \in OperationDe(Estampille),
         op.quoi = "description", op.appareil \in Emise, Connu(r, op.appareil), AppliquerDescription(r, op)
  PROVE  Applique(r, op)
<1>0. Racines BY DEF IInv
<1>1. PICK d, e : d = op.appareil /\ e = op.estampille OBVIOUS
<1>2. d \in Emise /\ e \in Estampille BY <1>1, Champs DEF Emise
<1>3. comptes'[r] = comptes[r] /\ appareils'[r] = appareils[r] /\ points'[r] = points[r]
  BY DEF AppliquerDescription
<1>4. \A g, k, v : Dit(op, g, k, v) => g = "description" /\ k = d /\ v = e
  BY <1>1 DEF Dit
<1>5. CASE d \notin DOMAIN appareils[r]
  <2>1. descriptions'[r] = descriptions[r]
    BY <1>0, <1>1, <1>5 DEF AppliquerDescription, Racines
  <2>2. Progres(r) BY <1>3, <2>1, MemesProgres
  <2>3. ASSUME Ancien PROVE Delaisse(r, d)'
    BY <1>1, <1>2, <1>5, <2>2, <2>3, DelaisseReste DEF Connu
  <2>4. Ancien => \A g, k, v : Dit(op, g, k, v) => Su(r, g, k, v)'
    BY <1>4, <2>3 DEF Su, SuAppareil, Connu
  <2> QED BY <1>3, <2>1, <2>4, SansEffet
<1>6. CASE d \in DOMAIN appareils[r]
  <2>1. PICK f, g : f = descriptions[r] /\ g = descriptions'[r] OBVIOUS
  <2>2. g = Derniere(f, d, e)
    BY <1>0, <1>1, <1>6, <2>1 DEF AppliquerDescription, Racines
  <2>3. d \in DOMAIN f => f[d] \in Estampille BY <2>1, Reflexes DEF Emise
  <2>4. /\ d \in DOMAIN g /\ ~Avant(g[d], e)
        /\ \A k \in DOMAIN f : k \in DOMAIN g /\ (k # d => g[k] = f[k])
        /\ d \in DOMAIN f => ~Avant(g[d], f[d])
        /\ \A k \in DOMAIN g : \/ k \in DOMAIN f /\ g[k] = f[k]
                               \/ k = d /\ g[k] = e
    BY <1>2, <2>2, <2>3, DerniereEcrite
  <2>5. \A k \in DOMAIN descriptions'[r] :
           \/ k \in DOMAIN descriptions[r] /\ descriptions'[r][k] = descriptions[r][k]
           \/ Porte(op, "description", k, descriptions'[r][k])
    BY <1>1, <2>1, <2>4 DEF Porte, Dit
  <2>6. \A k \in DOMAIN descriptions[r] :
           k \in DOMAIN descriptions'[r] /\ ~Avant(descriptions'[r][k], descriptions[r][k])
    BY <2>1, <2>4, Reflexes
  <2>7. \A gg, k, v : TenuAppareil(r, gg, k, v)' => TenuAppareil(r, gg, k, v)
    BY <1>3 DEF TenuAppareil, Revoque
  <2>8. /\ Progres(r)
        /\ \A gg, k, v : Tenu(r, gg, k, v)' => Tenu(r, gg, k, v) \/ Porte(op, gg, k, v)
        /\ \A c \in DOMAIN comptes'[r] : Saine(c, comptes'[r][c])
    <3>1. \A k \in DOMAIN appareils[r] :
                 /\ k \in DOMAIN appareils'[r]
                 /\ appareils[r][k].prouve => appareils'[r][k].prouve
                 /\ Revoque(r, k) =>
                      /\ appareils'[r][k].revoque # Aucune
                      /\ ~Avant(appareils[r][k].revoque, appareils'[r][k].revoque)
                 /\ k \in DOMAIN descriptions[r] =>
                      /\ k \in DOMAIN descriptions'[r]
                      /\ ~Avant(descriptions'[r][k], descriptions[r][k])
                 /\ k \in DOMAIN points[r] =>
                      \/ appareils'[r][k].revoque # Aucune
                      \/ k \in DOMAIN points'[r] /\ ~Avant(points'[r][k], points[r][k])
      BY <1>3, <2>6, Reflexes DEF Revoque
    <3> QED BY <3>1, <1>3, <2>5, <2>7, AppareilsProgressent
  <2>9. \A gg, k, v : Dit(op, gg, k, v) => Su(r, gg, k, v)'
    BY <1>3, <1>4, <1>6, <2>1, <2>4 DEF Su, SuAppareil, Connu
  <2> QED BY <2>8, <2>9 DEF Applique
<1> QED BY <1>5, <1>6

LEMMA AppliquePoint ==
  ASSUME IInv, Accord, NEW r \in Racine, NEW op \in OperationDe(Estampille),
         op.quoi = "point", op.appareil \in Emise, Connu(r, op.appareil), AppliquerPoint(r, op)
  PROVE  Applique(r, op)
<1>0. Racines BY DEF IInv
<1>1. PICK d, e : d = op.appareil /\ e = op.estampille OBVIOUS
<1>2. d \in Emise /\ e \in Estampille BY <1>1, Champs DEF Emise
<1>3. /\ comptes'[r] = comptes[r] /\ appareils'[r] = appareils[r]
      /\ descriptions'[r] = descriptions[r]
  BY DEF AppliquerPoint
<1>4. \A g, k, v : Dit(op, g, k, v) => g = "point" /\ k = d /\ v = e BY <1>1 DEF Dit
<1>5. CASE ~Joignable(r, d)
  <2>1. points'[r] = points[r] BY <1>0, <1>1, <1>5 DEF AppliquerPoint, Racines
  <2>2. Progres(r) BY <1>3, <2>1, MemesProgres
  <2>3. ASSUME Ancien, d \notin DOMAIN appareils[r] PROVE Delaisse(r, d)'
    BY <1>1, <1>2, <2>2, <2>3, DelaisseReste DEF Connu
  <2>4. d \in DOMAIN appareils[r] => Revoque(r, d)' /\ d \in DOMAIN appareils'[r]
    BY <1>3, <1>5 DEF Joignable, Revoque
  <2>5. Ancien => \A g, k, v : Dit(op, g, k, v) => Su(r, g, k, v)'
    BY <1>4, <2>3, <2>4 DEF Su, SuAppareil, Connu
  <2> QED BY <1>3, <2>1, <2>5, SansEffet
<1>6. CASE Joignable(r, d)
  <2>1. PICK f, g : f = points[r] /\ g = points'[r] OBVIOUS
  <2>2. g = Derniere(f, d, e) BY <1>0, <1>1, <1>6, <2>1 DEF AppliquerPoint, Racines
  <2>3. d \in DOMAIN f => f[d] \in Estampille BY <2>1, Reflexes DEF Emise
  <2>4. /\ d \in DOMAIN g /\ ~Avant(g[d], e)
        /\ \A k \in DOMAIN f : k \in DOMAIN g /\ (k # d => g[k] = f[k])
        /\ d \in DOMAIN f => ~Avant(g[d], f[d])
        /\ \A k \in DOMAIN g : \/ k \in DOMAIN f /\ g[k] = f[k]
                               \/ k = d /\ g[k] = e
    BY <1>2, <2>2, <2>3, DerniereEcrite
  <2>5. \A k \in DOMAIN points'[r] :
           \/ k \in DOMAIN points[r] /\ points'[r][k] = points[r][k]
           \/ Porte(op, "point", k, points'[r][k])
    BY <1>1, <2>1, <2>4 DEF Porte, Dit
  <2>6. \A k \in DOMAIN points[r] :
           k \in DOMAIN points'[r] /\ ~Avant(points'[r][k], points[r][k])
    BY <2>1, <2>4, Reflexes
  <2>7. \A gg, k, v : TenuAppareil(r, gg, k, v)' => TenuAppareil(r, gg, k, v)
    BY <1>3 DEF TenuAppareil, Revoque
  <2>8. /\ Progres(r)
        /\ \A gg, k, v : Tenu(r, gg, k, v)' => Tenu(r, gg, k, v) \/ Porte(op, gg, k, v)
        /\ \A c \in DOMAIN comptes'[r] : Saine(c, comptes'[r][c])
    <3>1. \A k \in DOMAIN appareils[r] :
                 /\ k \in DOMAIN appareils'[r]
                 /\ appareils[r][k].prouve => appareils'[r][k].prouve
                 /\ Revoque(r, k) =>
                      /\ appareils'[r][k].revoque # Aucune
                      /\ ~Avant(appareils[r][k].revoque, appareils'[r][k].revoque)
                 /\ k \in DOMAIN descriptions[r] =>
                      /\ k \in DOMAIN descriptions'[r]
                      /\ ~Avant(descriptions'[r][k], descriptions[r][k])
                 /\ k \in DOMAIN points[r] =>
                      \/ appareils'[r][k].revoque # Aucune
                      \/ k \in DOMAIN points'[r] /\ ~Avant(points'[r][k], points[r][k])
      BY <1>3, <2>6, Reflexes DEF Revoque
    <3> QED BY <3>1, <1>3, <2>5, <2>7, AppareilsProgressent
  <2>9. \A gg, k, v : Dit(op, gg, k, v) => Su(r, gg, k, v)'
    BY <1>3, <1>4, <1>6, <2>1, <2>4 DEF Su, SuAppareil, Connu, Joignable
  <2> QED BY <2>8, <2>9 DEF Applique
<1> QED BY <1>5, <1>6

\* A step of root r leaves the tables of the other ones alone.
LEMMA AilleursRien ==
  ASSUME IInv, NEW r \in Racine,
         \/ Tarder(r) \/ Rendre(r) \/ CreerCompte(r) \/ Demander(r)
         \/ EffacerUnOrphelin(r) \/ Recevoir(r) \/ Amorcer(r)
  PROVE  Ailleurs(r)
<1>0. Racines BY DEF IInv
<1>1. CASE Tarder(r) \/ Rendre(r) \/ Amorcer(r)
  BY <1>0, <1>1 DEF Tarder, Rendre, Rendue, Amorcer, tables, Ailleurs, Racines
<1>2. CASE CreerCompte(r) BY <1>0, <1>2 DEF CreerCompte, Ranger, Racines, Ailleurs
<1>3. CASE Demander(r)
  <2>0. PICK qui : CreerAppareil(r, qui) \/ ReclamerAlias(r, qui) \/ EffacerCompte(r, qui)
                   \/ RevoquerAppareil(r, qui) \/ AttesterAppareil(r, qui)
                   \/ PoserDescription(r, qui) \/ PoserPoint(r, qui)
    BY <1>3 DEF Demander
  <2>1. CASE CreerAppareil(r, qui)
    BY <1>0, <2>1 DEF CreerAppareil, Racines, Ailleurs, Rendue
  <2>2. CASE ReclamerAlias(r, qui)
    BY <1>0, <2>2 DEF ReclamerAlias, Ranger, Racines, Ailleurs, Rendue
  <2>3. CASE EffacerCompte(r, qui)
    BY <1>0, <2>3 DEF EffacerCompte, Effacer, EffacerDans, Ranger, Racines, Ailleurs, Rendue
  <2>4. CASE RevoquerAppareil(r, qui)
    BY <1>0, <2>4 DEF RevoquerAppareil, Racines, Ailleurs, Rendue
  <2>5. CASE AttesterAppareil(r, qui)
    BY <1>0, <2>5 DEF AttesterAppareil, Racines, Ailleurs, Rendue
  <2>6. CASE PoserDescription(r, qui)
    BY <1>0, <2>6 DEF PoserDescription, Racines, Ailleurs, Rendue
  <2>7. CASE PoserPoint(r, qui)
    BY <1>0, <2>7 DEF PoserPoint, Racines, Ailleurs, Rendue
  <2> QED BY <2>0, <2>1, <2>2, <2>3, <2>4, <2>5, <2>6, <2>7
<1>4. CASE EffacerUnOrphelin(r)
  BY <1>0, <1>4 DEF EffacerUnOrphelin, Effacer, EffacerDans, Ranger, Racines, Ailleurs
<1>5. CASE Recevoir(r)
  <2>1. \A q \in Racine \ {r} : demande'[q] = demande[q] /\ surpris'[q] = surpris[q]
    BY <1>0, <1>5 DEF Recevoir, Racines
  <2>2. PICK op :
           \/ AppliquerCompte(r, op) \/ AppliquerAlias(r, op)
           \/ AppliquerCompteEfface(r, op) \/ AppliquerAppareil(r, op)
           \/ AppliquerAppareilRevoque(r, op) \/ AppliquerAppareilAtteste(r, op)
           \/ AppliquerDescription(r, op) \/ AppliquerPoint(r, op)
           \/ UNCHANGED tables
    BY <1>5 DEF Recevoir, Appliquer
  <2>3. CASE AppliquerCompte(r, op)
    BY <1>0, <2>1, <2>3 DEF AppliquerCompte, Ranger, Racines, Ailleurs
  <2>4. CASE AppliquerAlias(r, op)
    BY <1>0, <2>1, <2>4 DEF AppliquerAlias, Ranger, Racines, Ailleurs
  <2>5. CASE AppliquerCompteEfface(r, op)
    BY <1>0, <2>1, <2>5 DEF AppliquerCompteEfface, EffacerDans, Ranger, Racines, Ailleurs
  <2>6. CASE AppliquerAppareil(r, op)
    BY <1>0, <2>1, <2>6 DEF AppliquerAppareil, Racines, Ailleurs
  <2>7. CASE AppliquerAppareilRevoque(r, op)
    BY <1>0, <2>1, <2>7 DEF AppliquerAppareilRevoque, Racines, Ailleurs
  <2>8. CASE AppliquerAppareilAtteste(r, op)
    BY <1>0, <2>1, <2>8 DEF AppliquerAppareilAtteste, Racines, Ailleurs
  <2>9. CASE AppliquerDescription(r, op)
    BY <1>0, <2>1, <2>9 DEF AppliquerDescription, Racines, Ailleurs
  <2>10. CASE AppliquerPoint(r, op)
    BY <1>0, <2>1, <2>10 DEF AppliquerPoint, Racines, Ailleurs
  <2>11. CASE UNCHANGED tables
    BY <2>1, <2>11 DEF tables, Ailleurs
  <2> QED BY <2>2, <2>3, <2>4, <2>5, <2>6, <2>7, <2>8, <2>9, <2>10, <2>11
<1> QED BY <1>1, <1>2, <1>3, <1>4, <1>5

LEMMA RecevoirAccord ==
  ASSUME IInv, IInv', Accord, SansSurprise, NEW r \in Racine, Recevoir(r)
  PROVE  Accord'
<1>1. Retirer(r) /\ Appliquer(r, Head(enRoute[r])) BY DEF Recevoir
<1>2. PICK op : op = Head(enRoute[r]) OBVIOUS
<1>3. /\ op \in OperationDe(Estampille) /\ Appliquer(r, op)
      /\ op.quoi \in {"revoque", "atteste", "description", "point"} => op.appareil \in Emise
      /\ op.quoi = "alias" => op.compte \in DOMAIN comptes[r]
      /\ op.quoi \in {"revoque", "atteste", "description", "point"} => Connu(r, op.appareil)
      /\ op.quoi = "compte" => Saine(op.compte, op.enregistrement)
  <2>1. Emise \subseteq Estampille BY DEF Emise
  <2> QED BY <1>1, <1>2, <2>1, TeteRecue, Champs, Larges
<1>4. Applique(r, op)
  <2>1. CASE op.quoi = "compte" /\ AppliquerCompte(r, op) BY <2>1, <1>3, AppliqueCompte
  <2>2. CASE op.quoi = "alias" /\ AppliquerAlias(r, op) BY <2>2, <1>3, AppliqueAlias
  <2>3. CASE op.quoi = "efface" /\ AppliquerCompteEfface(r, op)
    BY <2>3, <1>3, AppliqueEffacement, AppliqueSecondEffacement
  <2>4. CASE op.quoi = "appareil" /\ AppliquerAppareil(r, op)
    <3>1. 1 \in DOMAIN enRoute[r] /\ op = enRoute[r][1] BY <1>1, <1>2, FileEntamee
    <3>2. Porte(op, "appareil", op.appareil, op.enregistrement.proprietaire)
      BY <2>4 DEF Porte, Dit
    <3>3. Vu("appareil", op.appareil, op.enregistrement.proprietaire)
      BY <3>1, <3>2 DEF Vu
    <3>4. op.appareil \in Emise BY <3>3, VusDates DEF Date
    <3> QED BY <2>4, <1>3, <3>3, <3>4, AppliqueAppareil
  <2>5. CASE op.quoi = "revoque" /\ AppliquerAppareilRevoque(r, op)
    BY <2>5, <1>3, AppliqueRevocation
  <2>6. CASE op.quoi = "atteste" /\ AppliquerAppareilAtteste(r, op)
    BY <2>6, <1>3, AppliqueAttestation
  <2>7. CASE op.quoi = "description" /\ AppliquerDescription(r, op)
    BY <2>7, <1>3, AppliqueDescription
  <2>8. CASE op.quoi = "point" /\ AppliquerPoint(r, op) BY <2>8, <1>3, AppliquePoint
  <2>9. CASE op.quoi = "fin" /\ UNCHANGED tables
    <3>1. \A g, k, v : ~Dit(op, g, k, v) BY <2>9 DEF Dit
    <3> QED BY <2>9, <3>1, SansEffet DEF tables
  <2> QED BY <1>3, <2>1, <2>2, <2>3, <2>4, <2>5, <2>6, <2>7, <2>8, <2>9 DEF Appliquer
<1>5. Ailleurs(r) BY AilleursRien
<1> QED BY <1>1, <1>2, <1>4, <1>5, AccordRecu

-----------------------------------------------------------------------------
(* A write is the application of the operation that it journals.           *)

\* The stamps that decide, in the tables of a root, are not ahead of its clock.
TablesDatees(r) ==
  /\ \A c \in DOMAIN comptes[r] : comptes[r][c].reclamation.compteur <= compteur[r]
  /\ \A d \in DOMAIN descriptions[r] : descriptions[r][d].compteur <= compteur[r]
  /\ \A d \in DOMAIN points[r] : points[r][d].compteur <= compteur[r]

Datee(op) ==
  op.quoi = "compte" => op.enregistrement.reclamation.compteur <= op.estampille.compteur

Datees ==
  \A r \in Racine : TablesDatees(r) /\ \A i \in DOMAIN enRoute[r] : Datee(enRoute[r][i])

\* Applying an operation keeps that, if the clock is raised to it.
LEMMA AppliqueDatee ==
  ASSUME IInv, Datees, NEW r \in Racine, NEW op \in OperationDe(Estampille), Appliquer(r, op),
         compteur[r] \in Nat, compteur'[r] \in Nat, compteur[r] <= compteur'[r],
         op.estampille.compteur <= compteur'[r], Datee(op)
  PROVE  TablesDatees(r)'
<1> DEFINE Sous(e) == e.compteur <= compteur'[r]
<1>0. Racines BY DEF IInv
<1>1. op.estampille \in Estampille /\ Sous(op.estampille) BY Champs
<1>2. op.quoi = "compte" => Sous(op.enregistrement.reclamation)
  <2>1. ASSUME op.quoi = "compte" PROVE op.enregistrement.reclamation \in Estampille
    BY <2>1, Champs DEF CompteDe
  <2> QED BY <1>1, <2>1 DEF Datee, Estampille
<1>3. /\ \A c \in DOMAIN comptes[r] : Sous(comptes[r][c].reclamation)
      /\ \A d \in DOMAIN descriptions[r] : Sous(descriptions[r][d])
      /\ \A d \in DOMAIN points[r] : Sous(points[r][d])
  BY Reflexes DEF Datees, TablesDatees, CompteDe, Emise, Estampille
<1> HIDE DEF Sous
<1>4. \A c \in DOMAIN comptes'[r] : Sous(comptes'[r][c].reclamation)
  <2>1. CASE op.quoi = "compte" /\ AppliquerCompte(r, op)
    BY <2>1, <1>0, <1>2, <1>3 DEF AppliquerCompte, Ranger, Racines, Poser
  <2>2. CASE op.quoi = "alias" /\ AppliquerAlias(r, op)
    BY <2>2, <1>0, <1>1, <1>3 DEF AppliquerAlias, Ranger, Racines, Poser
  <2>3. CASE op.quoi = "efface" /\ AppliquerCompteEfface(r, op)
    <3>1. CASE Efface(r, op.compte)
      <4>1. comptes[r][op.compte] \in CompteDe(Emise) BY <3>1, Reflexes DEF Efface
      <4>2. PICK c, compte :
              /\ c = op.compte
              /\ compte = IF Avant(op.estampille, comptes[r][c].estampille)
                   THEN [comptes[r][c] EXCEPT !.estampille = op.estampille,
                                              !.reclamation = op.estampille,
                                              !.efface = op.cause]
                   ELSE comptes[r][c]
        OBVIOUS
      <4>3. comptes'[r] = [comptes[r] EXCEPT ![c] = compte]
        BY <4>2, <2>3, <3>1, <1>0 DEF AppliquerCompteEfface, Racines
      <4>4. c \in DOMAIN comptes[r] BY <4>2, <3>1 DEF Efface
      <4>5. Sous(compte.reclamation)
        BY <4>1, <4>2, <4>4, <1>1, <1>3 DEF CompteDe
      <4> QED BY <4>3, <4>4, <4>5, <1>3
    <3>2. CASE ~Efface(r, op.compte)
      BY <2>3, <3>2, <1>0, <1>1, <1>3
         DEF AppliquerCompteEfface, EffacerDans, Ranger, Racines, Poser
    <3> QED BY <3>1, <3>2
  <2>4. CASE op.quoi \notin {"compte", "alias", "efface"}
    <3>1. comptes'[r] = comptes[r]
      BY <2>4 DEF Appliquer, AppliquerAppareil, AppliquerAppareilRevoque,
         AppliquerAppareilAtteste, AppliquerDescription, AppliquerPoint, tables
    <3> QED BY <3>1, <1>3
  <2> QED BY <2>1, <2>2, <2>3, <2>4 DEF Appliquer
<1>5. /\ \A d \in DOMAIN descriptions'[r] : Sous(descriptions'[r][d])
      /\ \A d \in DOMAIN points'[r] : Sous(points'[r][d])
  <2>1. CASE op.quoi = "efface" /\ AppliquerCompteEfface(r, op)
    BY <2>1, <1>0, <1>3 DEF AppliquerCompteEfface, EffacerDans, Racines, Sans
  <2>2. CASE op.quoi = "revoque" /\ AppliquerAppareilRevoque(r, op)
    BY <2>2, <1>0, <1>3 DEF AppliquerAppareilRevoque, Racines, Sans
  <2>3. CASE op.quoi = "description" /\ AppliquerDescription(r, op)
    BY <2>3, <1>0, <1>1, <1>3 DEF AppliquerDescription, Derniere, Racines, Poser
  <2>4. CASE op.quoi = "point" /\ AppliquerPoint(r, op)
    BY <2>4, <1>0, <1>1, <1>3 DEF AppliquerPoint, Derniere, Racines, Poser
  <2>5. CASE op.quoi \notin {"efface", "revoque", "description", "point"}
    <3>1. descriptions'[r] = descriptions[r] /\ points'[r] = points[r]
      BY <2>5 DEF Appliquer, AppliquerCompte, AppliquerAlias, AppliquerAppareil,
         AppliquerAppareilAtteste, tables
    <3> QED BY <3>1, <1>3
  <2> QED BY <2>1, <2>2, <2>3, <2>4, <2>5 DEF Appliquer
<1> QED BY <1>4, <1>5 DEF TablesDatees, Sous

\* A write of root r is the application of the operation that it journals.
Sienne(r, op) ==
  /\ op \in OperationDe(Estampille) /\ op.estampille = Suivante(r)
  /\ Journaliser(r, op) /\ Appliquer(r, op)
  /\ op.quoi # "fin"
  /\ op.quoi = "compte" =>
       /\ op.compte = Suivante(r) /\ op.enregistrement.reclamation = Suivante(r)
       /\ Saine(op.compte, op.enregistrement)
  /\ op.quoi \in {"alias", "efface"} => op.compte \in DOMAIN comptes[r] /\ ~Efface(r, op.compte)
  /\ op.quoi = "appareil" =>
       /\ op.appareil = Suivante(r) /\ Admis(r, op)
       /\ ~op.enregistrement.prouve /\ op.enregistrement.revoque = Aucune
  /\ op.quoi \in {"revoque", "atteste", "description", "point"} =>
       op.appareil \in DOMAIN appareils[r]

LEMMA SienneEcrite ==
  ASSUME IInv, Accord, SansSurprise, NEW r \in Racine, NEW op, Sienne(r, op)
  PROVE  Ecrit(r, op)
<1>1. /\ op \in OperationDe(Estampille) /\ op.estampille = Suivante(r)
      /\ Journaliser(r, op) /\ Appliquer(r, op) /\ op.quoi # "fin"
  BY DEF Sienne
<1>2. Suivante(r) \notin Emise BY <1>1, Estampillee
<1>3. op.quoi \in {"revoque", "atteste", "description", "point"} =>
        op.appareil \in Emise /\ Connu(r, op.appareil)
  BY Reflexes DEF Sienne, Connu
<1>4. Applique(r, op)
  <2>1. CASE op.quoi = "compte" /\ AppliquerCompte(r, op)
    BY <2>1, <1>1, AppliqueCompte DEF Sienne
  <2>2. CASE op.quoi = "alias" /\ AppliquerAlias(r, op)
    BY <2>2, <1>1, AppliqueAlias DEF Sienne
  <2>3. CASE op.quoi = "efface" /\ AppliquerCompteEfface(r, op)
    BY <2>3, <1>1, AppliqueEffacement DEF Sienne
  <2>4. CASE op.quoi = "appareil" /\ AppliquerAppareil(r, op)
    BY <2>4, <1>1, AppliqueAppareil DEF Sienne
  <2>5. CASE op.quoi = "revoque" /\ AppliquerAppareilRevoque(r, op)
    BY <2>5, <1>1, <1>3, AppliqueRevocation
  <2>6. CASE op.quoi = "atteste" /\ AppliquerAppareilAtteste(r, op)
    BY <2>6, <1>1, <1>3, AppliqueAttestation
  <2>7. CASE op.quoi = "description" /\ AppliquerDescription(r, op)
    BY <2>7, <1>1, <1>3, AppliqueDescription
  <2>8. CASE op.quoi = "point" /\ AppliquerPoint(r, op)
    BY <2>8, <1>1, <1>3, AppliquePoint
  <2> QED BY <1>1, <2>1, <2>2, <2>3, <2>4, <2>5, <2>6, <2>7, <2>8 DEF Appliquer
<1>5. \A g, k, v : Porte(op, g, k, v) => Dit(op, g, k, v) BY DEF Sienne, Porte
<1>6. \A g, k, v : Tenu(r, g, k, v)' => Tenu(r, g, k, v) \/ Dit(op, g, k, v)
  BY <1>4, <1>5 DEF Applique
<1>7. Ancien => \A g, k, v : Porte(op, g, k, v) => Su(r, g, k, v)'
  BY <1>4, <1>5 DEF Applique
<1>8. ASSUME NEW g \in {"alias", "efface", "appareil"}, NEW k, NEW v, Porte(op, g, k, v)
      PROVE  Marque(g, k, v) \notin Emise
  <2>1. Dit(op, g, k, v) BY <1>5, <1>8
  <2>2. Marque(g, k, v) = Suivante(r)
    BY <2>1, <1>1 DEF Dit, Marque, Pretention, Sienne
  <2> QED BY <2>2, <1>2
<1>9. /\ op.quoi = "alias" => op.compte \in DOMAIN comptes[r]
      /\ op.quoi \in {"revoque", "atteste", "description", "point"} =>
           op.appareil \in DOMAIN appareils[r]
      /\ op.quoi = "compte" => Saine(op.compte, op.enregistrement)
  BY DEF Sienne
<1>10. Progres(r) /\ \A c \in DOMAIN comptes'[r] : Saine(c, comptes'[r][c])
  BY <1>4 DEF Applique
<1> QED BY <1>6, <1>7, <1>8, <1>9, <1>10 DEF Ecrit

\* A stamp that is not ahead of the clock of r comes before the next one of r.
LEMMA AvantSuivante ==
  ASSUME IInv, NEW r \in Racine, NEW e \in Emise, e.compteur <= compteur[r]
  PROVE  Avant(e, Suivante(r)) /\ Suivante(r) \in Estampille
<1>1. compteur[r] \in Nat /\ e.compteur \in Nat BY DEF IInv, Voies, Emise, Estampille
<1> QED BY <1>1 DEF Avant, Suivante, Prochaine, Estampille

LEMMA EcritCompte ==
  ASSUME IInv, Datees, NEW r \in Racine, CreerCompte(r)
  PROVE  \E op : Sienne(r, op)
<1>1. PICK s : s = Suivante(r) OBVIOUS
<1>2. PICK compte : compte = [estampille |-> s, alias |-> SansAlias, reclamation |-> s,
                              efface |-> "non"]
  OBVIOUS
<1>3. PICK op : op = [quoi |-> "compte", estampille |-> s, compte |-> s,
                      enregistrement |-> compte]
  OBVIOUS
<1>4. Journaliser(r, op) /\ Ranger(r, s, compte, {}) BY <1>1, <1>2, <1>3 DEF CreerCompte
<1>5. s \in Estampille /\ s \notin Emise BY <1>1, <1>4, Estampillee DEF Emise
<1>6. s \notin DOMAIN comptes[r] BY <1>5, Reflexes
<1>7. ~Avant(s, s) BY <1>5, OrdreTotal
<1>8. compte \in CompteDe(Estampille) /\ compte.efface = "non" /\ Saine(s, compte)
  BY <1>2, <1>5, <1>7 DEF CompteDe, Saine
<1>9. op \in OperationDe(Estampille) BY <1>3, <1>5, <1>8 DEF OperationDe
<1>10. AppliquerCompte(r, op) BY <1>3, <1>4, <1>6 DEF AppliquerCompte, CreerCompte
<1>11. Appliquer(r, op) BY <1>3, <1>10 DEF Appliquer
<1> QED BY <1>1, <1>2, <1>3, <1>4, <1>8, <1>9, <1>11 DEF Sienne

LEMMA EcritAppareil ==
  ASSUME IInv, Datees, SansSurprise, NEW r \in Racine, NEW qui \in Demandeurs(r),
         CreerAppareil(r, qui)
  PROVE  \E op : Sienne(r, op)
<1>0. Racines BY DEF IInv
<1>1. PICK s : s = Suivante(r) OBVIOUS
<1>2. PICK appareil : appareil = [proprietaire |-> qui.compte, prouve |-> FALSE,
                                  revoque |-> Aucune]
  OBVIOUS
<1>3. PICK op : op = [quoi |-> "appareil", estampille |-> s, appareil |-> s,
                      enregistrement |-> appareil]
  OBVIOUS
<1>4. /\ Journaliser(r, op)
      /\ appareils' = [appareils EXCEPT ![r] = Poser(@, s, appareil)]
  BY <1>1, <1>2, <1>3 DEF CreerAppareil
<1>5. s \in Estampille /\ s \notin Emise BY <1>1, <1>4, Estampillee DEF Emise
<1>6. s \notin DOMAIN appareils[r] BY <1>5, Reflexes
<1>7. qui.compte \in Emise /\ ~Efface(r, qui.compte)
  BY Demandeur DEF IInv, SansSurprise
<1>8. appareil \in AppareilDe(Estampille)
  BY <1>2, <1>7 DEF AppareilDe, Emise
<1>9. op \in OperationDe(Estampille) BY <1>3, <1>5, <1>8 DEF OperationDe
<1>10. Admis(r, op) BY <1>2, <1>3, <1>6, <1>7 DEF Admis
<1>11. AppliquerAppareil(r, op)
  BY <1>3, <1>4, <1>10 DEF AppliquerAppareil, CreerAppareil
<1>12. Appliquer(r, op) BY <1>3, <1>11 DEF Appliquer
<1> QED BY <1>1, <1>2, <1>3, <1>4, <1>9, <1>10, <1>12 DEF Sienne

LEMMA EcritAlias ==
  ASSUME IInv, Accord, Datees, NEW r \in Racine, NEW qui, ReclamerAlias(r, qui)
  PROVE  \E op : Sienne(r, op)
<1>0. Racines BY DEF IInv
<1>1. PICK s, c : s = Suivante(r) /\ c = qui.compte OBVIOUS
<1>2. c \in DOMAIN comptes[r] /\ ~Efface(r, c) BY <1>1 DEF ReclamerAlias
<1>3. PICK x \in Alias \cup {SansAlias} :
        /\ Ranger(r, c, [comptes[r][c] EXCEPT !.estampille = s, !.alias = x,
                                              !.reclamation = s], Tenue(r, c))
        /\ Journaliser(r, [quoi |-> "alias", estampille |-> s, compte |-> c, alias |-> x])
  BY <1>1 DEF ReclamerAlias
<1>4. PICK op : op = [quoi |-> "alias", estampille |-> s, compte |-> c, alias |-> x] OBVIOUS
<1>5. /\ c \in Emise /\ comptes[r][c] \in CompteDe(Emise)
      /\ comptes[r][c].reclamation.compteur <= compteur[r]
  BY <1>2, Reflexes DEF Datees, TablesDatees
<1>6. /\ comptes[r][c].reclamation \in Emise /\ comptes[r][c].estampille \in Emise
      /\ comptes[r][c].efface = "non"
  BY <1>2, <1>5 DEF CompteDe, Efface
<1>7. s \in Estampille /\ Avant(comptes[r][c].reclamation, s) BY <1>1, <1>5, <1>6, AvantSuivante
<1>8. op \in OperationDe(Estampille) BY <1>4, <1>5, <1>7 DEF OperationDe, Emise
<1>9. Reclamante(r, c, s) BY <1>2, <1>7 DEF Reclamante
<1>10. PICK compte : compte = [estampille  |-> PlusTard(comptes[r][c].estampille, s),
                               alias |-> x, reclamation |-> s, efface |-> "non"]
  OBVIOUS
<1>11. comptes[r][c].estampille = comptes[r][c].reclamation
  BY <1>2 DEF Accord, Saines, Saine
<1>12. compte = [comptes[r][c] EXCEPT !.estampille = s, !.alias = x, !.reclamation = s]
  <2>1. PICK k : k = comptes[r][c] OBVIOUS
  <2>2. PlusTard(k.estampille, s) = s BY <2>1, <1>7, <1>11 DEF PlusTard
  <2>3. /\ k \in [estampille : Emise, alias : Alias \cup {SansAlias}, reclamation : Emise,
                  efface : {"non"} \cup Cause]
        /\ k.efface = "non"
    BY <2>1, <1>5, <1>6 DEF CompteDe
  <2>4. [k EXCEPT !.estampille = s, !.alias = x, !.reclamation = s] =
          [estampille |-> s, alias |-> x, reclamation |-> s, efface |-> "non"]
    <3> DEFINE champs == {"estampille", "alias", "reclamation", "efface"}
    <3>1. PICK g : g = [k EXCEPT !.estampille = s, !.alias = x, !.reclamation = s] OBVIOUS
    <3>2. k = [f \in champs |-> k[f]] BY <2>3
    <3>3. g = [f \in champs |-> IF f = "efface" THEN "non"
                                 ELSE IF f = "alias" THEN x ELSE s]
      BY <2>3, <3>1, <3>2
    <3>4. g = [estampille |-> s, alias |-> x, reclamation |-> s, efface |-> "non"] BY <3>3
    <3> QED BY <3>1, <3>4
  <2> QED BY <2>1, <2>2, <2>4, <1>10
<1>13. AppliquerAlias(r, op)
  BY <1>3, <1>4, <1>9, <1>10, <1>12 DEF AppliquerAlias, ReclamerAlias
<1>14. Appliquer(r, op) BY <1>4, <1>13 DEF Appliquer
<1> QED BY <1>1, <1>2, <1>3, <1>4, <1>8, <1>14 DEF Sienne

LEMMA EcritEffacement ==
  ASSUME IInv, NEW r \in Racine, NEW c, NEW cause \in Cause, Effacer(r, c, cause)
  PROVE  \E op : Sienne(r, op)
<1>1. PICK s : s = Suivante(r) OBVIOUS
<1>2. /\ c \in DOMAIN comptes[r] /\ ~Efface(r, c) /\ EffacerDans(r, c, cause, s)
      /\ Journaliser(r, [quoi |-> "efface", estampille |-> s, compte |-> c, cause |-> cause])
  BY <1>1 DEF Effacer
<1>3. PICK op : op = [quoi |-> "efface", estampille |-> s, compte |-> c, cause |-> cause]
  OBVIOUS
<1>4. s \in Estampille BY <1>1, <1>2, Estampillee DEF Emise
<1>5. op \in OperationDe(Estampille) BY <1>2, <1>3, <1>4, Reflexes DEF OperationDe, Emise
<1>6. Appliquer(r, op) BY <1>2, <1>3 DEF Appliquer, AppliquerCompteEfface
<1> QED BY <1>1, <1>2, <1>3, <1>5, <1>6 DEF Sienne

LEMMA EcritRevocation ==
  ASSUME IInv, NEW r \in Racine, NEW qui, RevoquerAppareil(r, qui)
  PROVE  \E op : Sienne(r, op)
<1>0. Racines BY DEF IInv
<1>1. PICK s : s = Suivante(r) OBVIOUS
<1>2. PICK d \in Possede(r, qui.compte) :
        /\ ~Revoque(r, d)
        /\ appareils' = [appareils EXCEPT ![r][d].revoque = s]
        /\ points'    = [points    EXCEPT ![r] = Sans(@, {d})]
        /\ Journaliser(r, [quoi |-> "revoque", estampille |-> s, appareil |-> d, le |-> s])
  BY <1>1 DEF RevoquerAppareil
<1>3. PICK op : op = [quoi |-> "revoque", estampille |-> s, appareil |-> d, le |-> s] OBVIOUS
<1>4. d \in DOMAIN appareils[r] BY <1>2 DEF Possede
<1>5. s \in Estampille BY <1>1, <1>2, Estampillee DEF Emise
<1>6. op \in OperationDe(Estampille) BY <1>3, <1>4, <1>5, Reflexes DEF OperationDe, Emise
<1>7. PremiereDate(appareils[r][d].revoque, s) = s BY <1>2 DEF PremiereDate, Revoque
<1>8. appareils' = [appareils EXCEPT ![r][d].revoque = PremiereDate(@, s)]
  BY <1>0, <1>2, <1>4, <1>7 DEF Racines
<1>9. AppliquerAppareilRevoque(r, op)
  BY <1>2, <1>3, <1>4, <1>8 DEF AppliquerAppareilRevoque, RevoquerAppareil
<1>10. Appliquer(r, op) BY <1>3, <1>9 DEF Appliquer
<1> QED BY <1>1, <1>2, <1>3, <1>4, <1>6, <1>10 DEF Sienne

LEMMA EcritAttestation ==
  ASSUME IInv, NEW r \in Racine, NEW qui, AttesterAppareil(r, qui)
  PROVE  \E op : Sienne(r, op)
<1>1. PICK s, d : s = Suivante(r) /\ d = qui.appareil OBVIOUS
<1>2. PICK op : op = [quoi |-> "atteste", estampille |-> s, appareil |-> d] OBVIOUS
<1>3. /\ d \in DOMAIN appareils[r] /\ Journaliser(r, op)
      /\ appareils' = [appareils EXCEPT ![r][d].prouve = TRUE]
  BY <1>1, <1>2 DEF AttesterAppareil
<1>4. s \in Estampille BY <1>1, <1>3, Estampillee DEF Emise
<1>5. op \in OperationDe(Estampille) BY <1>2, <1>3, <1>4, Reflexes DEF OperationDe, Emise
<1>6. AppliquerAppareilAtteste(r, op)
  BY <1>2, <1>3 DEF AppliquerAppareilAtteste, AttesterAppareil
<1>7. Appliquer(r, op) BY <1>2, <1>6 DEF Appliquer
<1> QED BY <1>1, <1>2, <1>3, <1>5, <1>7 DEF Sienne

LEMMA EcritDescription ==
  ASSUME IInv, Datees, SansSurprise, NEW r \in Racine, NEW qui \in Demandeurs(r),
         PoserDescription(r, qui)
  PROVE  \E op : Sienne(r, op)
<1>0. Racines BY DEF IInv
<1>1. PICK s, d : s = Suivante(r) /\ d = qui.appareil OBVIOUS
<1>2. PICK op : op = [quoi |-> "description", estampille |-> s, appareil |-> d] OBVIOUS
<1>3. /\ d # Aucune /\ Journaliser(r, op)
      /\ descriptions' = [descriptions EXCEPT ![r] = Poser(@, d, s)]
  BY <1>1, <1>2 DEF PoserDescription
<1>4. d \in DOMAIN appareils[r] BY <1>1, <1>3, Demandeur DEF IInv, SansSurprise
<1>5. s \in Estampille BY <1>1, <1>3, Estampillee DEF Emise
<1>6. op \in OperationDe(Estampille) BY <1>2, <1>4, <1>5, Reflexes DEF OperationDe, Emise
<1>7. Derniere(descriptions[r], d, s) = Poser(descriptions[r], d, s)
  BY <1>1, AvantSuivante, Reflexes DEF Derniere, Datees, TablesDatees
<1>8. AppliquerDescription(r, op)
  BY <1>0, <1>2, <1>3, <1>4, <1>7 DEF AppliquerDescription, PoserDescription, Racines
<1>9. Appliquer(r, op) BY <1>2, <1>8 DEF Appliquer
<1> QED BY <1>1, <1>2, <1>3, <1>4, <1>6, <1>9 DEF Sienne

LEMMA EcritPoint ==
  ASSUME IInv, Datees, NEW r \in Racine, NEW qui, PoserPoint(r, qui)
  PROVE  \E op : Sienne(r, op)
<1>0. Racines BY DEF IInv
<1>1. PICK s, d : s = Suivante(r) /\ d = qui.appareil OBVIOUS
<1>2. PICK op : op = [quoi |-> "point", estampille |-> s, appareil |-> d] OBVIOUS
<1>3. /\ Joignable(r, d) /\ Journaliser(r, op)
      /\ points' = [points EXCEPT ![r] = Poser(@, d, s)]
  BY <1>1, <1>2 DEF PoserPoint
<1>4. d \in DOMAIN appareils[r] BY <1>3 DEF Joignable
<1>5. s \in Estampille BY <1>1, <1>3, Estampillee DEF Emise
<1>6. op \in OperationDe(Estampille) BY <1>2, <1>4, <1>5, Reflexes DEF OperationDe, Emise
<1>7. Derniere(points[r], d, s) = Poser(points[r], d, s)
  BY <1>1, AvantSuivante, Reflexes DEF Derniere, Datees, TablesDatees
<1>8. AppliquerPoint(r, op)
  BY <1>0, <1>2, <1>3, <1>7 DEF AppliquerPoint, PoserPoint, Racines
<1>9. Appliquer(r, op) BY <1>2, <1>8 DEF Appliquer
<1> QED BY <1>1, <1>2, <1>3, <1>4, <1>6, <1>9 DEF Sienne

\* Root r journals op: the other queues and the other tables are what they were.
LEMMA EcritAccord ==
  ASSUME IInv, IInv', Accord, Datees, SansSurprise, NEW r \in Racine, Ailleurs(r), NEW op,
         Sienne(r, op)
  PROVE  Accord' /\ Datees'
<1>1. /\ op \in OperationDe(Estampille) /\ op.estampille = Suivante(r)
      /\ Journaliser(r, op) /\ Appliquer(r, op)
  BY DEF Sienne
<1>2. Accord' BY <1>1, SienneEcrite, AccordEcrit
<1>3. /\ compteur \in [Racine -> Nat] /\ compteur'[r] = compteur[r] + 1
      /\ \A q \in Racine : q # r => compteur'[q] = compteur[q]
  <2>1. Len(<<op>>) = 1 OBVIOUS
  <2> QED BY <1>1, <2>1 DEF Journaliser, JournaliserTout, IInv, Voies
<1>4. op.estampille.compteur = compteur[r] + 1 BY <1>1 DEF Suivante, Prochaine
<1>5. Datee(op) BY <1>1, <1>3, <1>4 DEF Datee, Sienne
<1>6. TablesDatees(r)' BY <1>1, <1>3, <1>4, <1>5, AppliqueDatee
<1>7. ASSUME NEW q \in Racine, q # r PROVE TablesDatees(q)'
  BY <1>3, <1>7 DEF Ailleurs, Datees, TablesDatees
<1>8. ASSUME NEW q \in Racine, NEW i \in DOMAIN enRoute'[q] PROVE Datee(enRoute'[q][i])
  <2>1. CASE q # Pair[r]
    <3>1. enRoute'[q] = enRoute[q]
      BY <1>1, <2>1 DEF Journaliser, JournaliserTout, IInv, Voies
    <3> QED BY <3>1, <1>8 DEF Datees
  <2>2. CASE q = Pair[r]
    <3> DEFINE T == OperationDe(Emise)
    <3>1. enRoute[q] \in Seq(T) BY EnRouteType
    <3>2. enRoute'[q] = enRoute[q] \o <<op>>
      BY <1>1, <2>2, DeuxRacines DEF Journaliser, JournaliserTout, IInv, Voies
    <3> HIDE DEF T
    <3>3. PICK s, t : s = enRoute[q] /\ t = enRoute'[q] OBVIOUS
    <3>4. \/ i \in DOMAIN s /\ t[i] = s[i]
          \/ t[i] = op
      BY <3>1, <3>2, <3>3, <1>8, SuiteAllongee
    <3> QED BY <3>3, <3>4, <1>5 DEF Datees
  <2> QED BY <2>1, <2>2
<1>9. Datees' BY <1>6, <1>7, <1>8 DEF Datees
<1> QED BY <1>2, <1>9

\* Root r applies the next operation of the other one.
LEMMA RecevoirDatees ==
  ASSUME IInv, Datees, NEW r \in Racine, Recevoir(r)
  PROVE  Datees'
<1>0. Ailleurs(r) BY AilleursRien
<1>1. PICK op : op = Head(enRoute[r]) OBVIOUS
<1>2. Retirer(r) /\ Appliquer(r, op) BY <1>1 DEF Recevoir
<1>3. /\ 1 \in DOMAIN enRoute[r] /\ op = enRoute[r][1] /\ op \in OperationDe(Emise)
      /\ \A i \in DOMAIN enRoute'[r] :
           i + 1 \in DOMAIN enRoute[r] /\ enRoute'[r][i] = enRoute[r][i + 1]
      /\ \A q \in Racine : q # r => enRoute'[q] = enRoute[q]
  BY <1>1, <1>2, FileEntamee
<1>4. Emise \subseteq Estampille BY DEF Emise
<1>5. op \in OperationDe(Estampille) BY <1>3, <1>4, Larges
<1>6. /\ compteur[r] \in Nat /\ op.estampille.compteur \in Nat
      /\ compteur'[r] = IF compteur[r] >= op.estampille.compteur THEN compteur[r]
                                                                 ELSE op.estampille.compteur
      /\ \A q \in Racine : q # r => compteur'[q] = compteur[q]
  <2>1. op.estampille \in Estampille BY <1>5, Champs
  <2> QED BY <1>1, <1>2, <2>1 DEF Retirer, IInv, Voies, Estampille
<1>7. Datee(op) BY <1>3 DEF Datees
<1>8. TablesDatees(r)'
  <2>1. compteur'[r] \in Nat /\ compteur[r] <= compteur'[r] /\ op.estampille.compteur <= compteur'[r]
    BY <1>6
  <2> QED BY <1>2, <1>5, <1>6, <1>7, <2>1, AppliqueDatee
<1>9. ASSUME NEW q \in Racine, q # r PROVE TablesDatees(q)'
  BY <1>0, <1>6, <1>9 DEF Ailleurs, Datees, TablesDatees
<1>10. ASSUME NEW q \in Racine, NEW i \in DOMAIN enRoute'[q] PROVE Datee(enRoute'[q][i])
  BY <1>3, <1>10 DEF Datees
<1> QED BY <1>8, <1>9, <1>10 DEF Datees

\* Neither the tables nor the path.
LEMMA ImmobileAccord ==
  ASSUME Accord, Datees, UNCHANGED <<voie, tables>>
  PROVE  Accord' /\ Datees'
<1>1. /\ comptes' = comptes /\ appareils' = appareils /\ descriptions' = descriptions
      /\ points' = points /\ enRoute' = enRoute /\ compteur' = compteur
  BY DEF voie, tables
<1>2. \A q \in Racine : \A c : Efface(q, c)' <=> Efface(q, c) BY <1>1 DEF Efface
<1>3. \A q \in Racine : \A g, k, v : Tenu(q, g, k, v)' <=> Tenu(q, g, k, v)
  BY <1>1, MemesTenus
<1>4. \A g, k, v : Vu(g, k, v)' <=> Vu(g, k, v) BY <1>1, <1>3 DEF Vu
<1>5. \A q \in Racine : \A d : Delaisse(q, d)' <=> Delaisse(q, d)
  BY <1>2, <1>4 DEF Delaisse
<1>6. \A q \in Racine : \A d : Connu(q, d)' <=> Connu(q, d) BY <1>1, <1>5 DEF Connu
<1>7. \A q \in Racine : \A g, k, v : Su(q, g, k, v) => Su(q, g, k, v)'
  BY <1>1, <1>2, <1>5, <1>6 DEF Su, SuCompte, SuAppareil, Revoque
<1>8. Unicite' BY <1>4 DEF Accord, Unicite
<1>9. \A r \in Racine : Pair[r] \in Racine BY DeuxRacines
<1>10. ASSUME NEW r \in Racine PROVE Verite(r)' /\ Couverture(r)' /\ Saines(r)'
  <2>1. Verite(r)' BY <1>1, <1>7, <1>9 DEF Accord, Verite
  <2>2. Couverture(r)' BY <1>1, <1>3, <1>7, <1>9 DEF Accord, Couverture
  <2>3. Saines(r)' BY <1>1 DEF Accord, Saines
  <2> QED BY <2>1, <2>2, <2>3
<1>11. ASSUME NEW r \in Racine, NEW i \in DOMAIN enRoute'[r] PROVE Precedee(r, i)'
  BY <1>1, <1>6, <1>11 DEF Accord, Precedee
<1>12. Datees' BY <1>1 DEF Datees, TablesDatees
<1> QED BY <1>8, <1>10, <1>11, <1>12 DEF Accord

-----------------------------------------------------------------------------
(* A snapshot says all that its root holds, in order.                      *)

\* A sequence of operations about what q holds, after the devices of X were said.
Fidele(q, f, X) ==
  \A i \in DOMAIN f :
    /\ \A g, k, v : Porte(f[i], g, k, v) => Tenu(q, g, k, v)
    /\ f[i].quoi = "compte" => Saine(f[i].compte, f[i].enregistrement)
    /\ Datee(f[i])
    /\ f[i].quoi = "alias" => \E j \in 1..(i-1) : Dit(f[j], "compte", f[i].compte, f[i].compte)
    /\ f[i].quoi \in {"revoque", "atteste", "description", "point"} =>
         \/ f[i].appareil \in X
         \/ \E j \in 1..(i-1) : \E c : Dit(f[j], "appareil", f[i].appareil, c)

\* All the operations of b are in t.
Contient(t, b) == \A j \in DOMAIN b : \E i \in DOMAIN t : t[i] = b[j]

\* The devices of Y that are not in X are said by a.
Dits(a, X, Y) == \A d \in Y : d \in X \/ \E j \in DOMAIN a : \E c : Dit(a[j], "appareil", d, c)

LEMMA JointeFidele ==
  ASSUME NEW q \in Racine, NEW T, NEW a \in Seq(T), NEW b \in Seq(T), NEW t, t = a \o b,
         NEW X, NEW Y, Fidele(q, a, X), Fidele(q, b, Y), Dits(a, X, Y)
  PROVE  t \in Seq(T) /\ Fidele(q, t, X) /\ Contient(t, a) /\ Contient(t, b)
<1>0. t \in Seq(T) OBVIOUS
<1>1. Jointe(t, a, b) BY SuiteJointe
<1>2. PICK n \in Nat : n = Len(a) BY <1>1 DEF Jointe
<1>3. /\ DOMAIN a = 1..n /\ \A j \in DOMAIN b : j \in Nat
      /\ \A i \in DOMAIN a : i \in DOMAIN t /\ t[i] = a[i]
      /\ \A j \in DOMAIN b : n + j \in DOMAIN t /\ t[n + j] = b[j]
      /\ \A i \in DOMAIN t :
           \/ i \in DOMAIN a /\ t[i] = a[i]
           \/ \E j \in DOMAIN b : i = n + j /\ t[i] = b[j]
  BY <1>1, <1>2 DEF Jointe
<1>4. DOMAIN b = 1..Len(b) /\ Len(b) \in Nat BY <1>1 DEF Jointe
<1>5. ASSUME NEW i \in DOMAIN t
      PROVE  /\ \A g, k, v : Porte(t[i], g, k, v) => Tenu(q, g, k, v)
             /\ t[i].quoi = "compte" => Saine(t[i].compte, t[i].enregistrement)
             /\ Datee(t[i])
             /\ t[i].quoi = "alias" =>
                  \E j \in 1..(i-1) : Dit(t[j], "compte", t[i].compte, t[i].compte)
             /\ t[i].quoi \in {"revoque", "atteste", "description", "point"} =>
                  \/ t[i].appareil \in X
                  \/ \E j \in 1..(i-1) : \E c : Dit(t[j], "appareil", t[i].appareil, c)
  <2>1. CASE i \in DOMAIN a /\ t[i] = a[i]
    <3>1. \A j \in 1..(i-1) : t[j] = a[j] BY <2>1, <1>3
    <3> QED BY <3>1, <2>1 DEF Fidele
  <2>2. CASE \E j \in DOMAIN b : i = n + j /\ t[i] = b[j]
    <3>1. PICK m \in DOMAIN b : i = n + m /\ t[i] = b[m] BY <2>2
    <3>2. m \in Nat /\ 1 <= m /\ m <= Len(b) BY <1>4
    <3>3. \A j \in 1..(m-1) : j \in DOMAIN b /\ n + j \in 1..((n + m) - 1) BY <1>4, <3>2
    <3>4. \A j \in 1..(m-1) : n + j \in 1..(i-1) /\ t[n + j] = b[j] BY <3>1, <3>3, <1>3
    <3>5. \A j \in DOMAIN a : j \in 1..((n + m) - 1) BY <3>2, <1>3
    <3>6. \A j \in DOMAIN a : j \in 1..(i-1) /\ t[j] = a[j] BY <3>1, <3>5, <1>3
    <3>7. /\ \A g, k, v : Porte(b[m], g, k, v) => Tenu(q, g, k, v)
          /\ b[m].quoi = "compte" => Saine(b[m].compte, b[m].enregistrement)
          /\ Datee(b[m])
          /\ b[m].quoi = "alias" =>
               \E j \in 1..(m-1) : Dit(b[j], "compte", b[m].compte, b[m].compte)
          /\ b[m].quoi \in {"revoque", "atteste", "description", "point"} =>
               \/ b[m].appareil \in Y
               \/ \E j \in 1..(m-1) : \E c : Dit(b[j], "appareil", b[m].appareil, c)
      BY DEF Fidele
    <3>8. ASSUME b[m].quoi = "alias"
          PROVE  \E j \in 1..(i-1) : Dit(t[j], "compte", t[i].compte, t[i].compte)
      <4>1. PICK j \in 1..(m-1) : Dit(b[j], "compte", b[m].compte, b[m].compte)
        BY <3>7, <3>8
      <4> QED BY <4>1, <3>1, <3>4
    <3>9. ASSUME b[m].quoi \in {"revoque", "atteste", "description", "point"}
          PROVE  \/ b[m].appareil \in X
                 \/ \E j \in 1..(i-1) : \E c : Dit(t[j], "appareil", t[i].appareil, c)
      <4>1. CASE b[m].appareil \in Y BY <4>1, <3>1, <3>6 DEF Dits
      <4>2. CASE \E j \in 1..(m-1) : \E c : Dit(b[j], "appareil", b[m].appareil, c)
        BY <4>2, <3>1, <3>4
      <4> QED BY <4>1, <4>2, <3>7, <3>9
    <3> QED BY <3>1, <3>7, <3>8, <3>9
  <2> QED BY <2>1, <2>2, <1>3
<1>6. Fidele(q, t, X) BY <1>5 DEF Fidele
<1> QED BY <1>0, <1>3, <1>6 DEF Contient

LEMMA AplatieFidele ==
  ASSUME NEW q \in Racine, NEW T, NEW s \in Seq(Seq(T)), NEW f, f = FlattenSeq(s), NEW X,
         \A k \in 1..Len(s) : Fidele(q, s[k], X)
  PROVE  /\ f \in Seq(T) /\ Fidele(q, f, X)
         /\ \A k \in 1..Len(s) : Contient(f, s[k])
<1>1. f \in Seq(T) /\ Reprend(f, s, Len(s)) BY AplatieReprend
<1>2. ASSUME NEW i \in DOMAIN f
      PROVE  /\ \A g, k, v : Porte(f[i], g, k, v) => Tenu(q, g, k, v)
             /\ f[i].quoi = "compte" => Saine(f[i].compte, f[i].enregistrement)
             /\ Datee(f[i])
             /\ f[i].quoi = "alias" =>
                  \E j \in 1..(i-1) : Dit(f[j], "compte", f[i].compte, f[i].compte)
             /\ f[i].quoi \in {"revoque", "atteste", "description", "point"} =>
                  \/ f[i].appareil \in X
                  \/ \E j \in 1..(i-1) : \E c : Dit(f[j], "appareil", f[i].appareil, c)
  <2>1. PICK k \in 1..Len(s) : \E j \in DOMAIN s[k] :
          f[i] = s[k][j] /\ \A m \in 1..(j-1) : \E l \in 1..(i-1) : f[l] = s[k][m]
    BY <1>1 DEF Reprend
  <2>2. PICK b : b = s[k] OBVIOUS
  <2>3. PICK j \in DOMAIN b : f[i] = b[j] /\ \A m \in 1..(j-1) : \E l \in 1..(i-1) : f[l] = b[m]
    BY <2>1, <2>2
  <2>4. Fidele(q, b, X) BY <2>2
  <2>5. /\ \A g, kk, v : Porte(b[j], g, kk, v) => Tenu(q, g, kk, v)
        /\ b[j].quoi = "compte" => Saine(b[j].compte, b[j].enregistrement)
        /\ Datee(b[j])
        /\ b[j].quoi = "alias" =>
             \E m \in 1..(j-1) : Dit(b[m], "compte", b[j].compte, b[j].compte)
        /\ b[j].quoi \in {"revoque", "atteste", "description", "point"} =>
             \/ b[j].appareil \in X
             \/ \E m \in 1..(j-1) : \E c : Dit(b[m], "appareil", b[j].appareil, c)
    BY <2>4 DEF Fidele
  <2> QED BY <2>3, <2>5
<1>3. Fidele(q, f, X) BY <1>2 DEF Fidele
<1> QED BY <1>1, <1>3 DEF Reprend, Contient

\* A sequence of one operation or of two.
LEMMA SuitesCourtes ==
  ASSUME NEW a, NEW b, NEW s, NEW t, s = <<a>>, t = <<a, b>>
  PROVE  /\ DOMAIN s = {1} /\ s[1] = a
         /\ DOMAIN t = {1, 2} /\ t[1] = a /\ t[2] = b
         /\ 1 \in 1..(2-1)
OBVIOUS

LEMMA FidelesDuCompte ==
  ASSUME IInv, Accord, NEW q \in Racine, NEW c \in DOMAIN comptes[q], NEW s, s = DuCompte(q, c)
  PROVE  /\ s \in Seq(OperationDe(Emise)) /\ Fidele(q, s, {})
         /\ \A g, v : TenuCompte(q, g, c, v) => \E j \in DOMAIN s : Dit(s[j], g, c, v)
<1>1. PICK compte : compte = comptes[q][c] OBVIOUS
<1>2. /\ c \in Emise /\ compte \in CompteDe(Emise) /\ Saine(c, compte)
      /\ compte.estampille \in Emise /\ compte.reclamation \in Emise
      /\ compte.alias \in Alias \cup {SansAlias}
      /\ compte.reclamation.compteur \in Nat /\ compte.estampille = compte.reclamation
  BY <1>1, Reflexes DEF CompteDe, Emise, Estampille, Accord, Saines, Saine
<1>3. CASE compte.efface # "non"
  <2>1. PICK op : op = [quoi |-> "efface", estampille |-> compte.estampille, compte |-> c,
                        cause |-> compte.efface]
    OBVIOUS
  <2>2. op \in OperationDe(Emise) BY <1>2, <1>3, <2>1 DEF OperationDe, CompteDe
  <2>3. s = <<op>> BY <1>1, <1>3, <2>1 DEF DuCompte
  <2>4. s \in Seq(OperationDe(Emise))
    <3> HIDE DEF OperationDe
    <3> QED BY <2>2, <2>3
  <2>5. DOMAIN s = {1} /\ s[1] = op BY <2>3, SuitesCourtes
  <2>6. \A g, k, v : Porte(op, g, k, v) => Tenu(q, g, k, v)
    BY <1>1, <1>3, <2>1 DEF Porte, Dit, Tenu, TenuCompte, Efface
  <2>7. \A g, v : TenuCompte(q, g, c, v) => Dit(op, g, c, v)
    BY <1>1, <1>3, <2>1 DEF Dit, TenuCompte, Efface
  <2> QED BY <2>1, <2>4, <2>5, <2>6, <2>7 DEF Fidele, Datee
<1>4. CASE compte.efface = "non"
  <2>1. PICK op, claim :
          /\ op = [quoi |-> "compte", estampille |-> compte.estampille, compte |-> c,
                   enregistrement |-> compte]
          /\ claim = [quoi |-> "alias", estampille |-> compte.reclamation, compte |-> c,
                      alias |-> compte.alias]
    OBVIOUS
  <2>2. op \in OperationDe(Emise) /\ claim \in OperationDe(Emise)
    BY <1>2, <1>4, <2>1 DEF OperationDe
  <2>3. s = <<op, claim>> BY <1>1, <1>4, <2>1 DEF DuCompte
  <2>4. s \in Seq(OperationDe(Emise))
    <3> HIDE DEF OperationDe
    <3> QED BY <2>2, <2>3
  <2>5. DOMAIN s = {1, 2} /\ s[1] = op /\ s[2] = claim /\ 1 \in 1..(2-1)
    BY <2>3, SuitesCourtes
  <2>6. \A g, k, v : Porte(op, g, k, v) \/ Porte(claim, g, k, v) => Tenu(q, g, k, v)
    BY <1>1, <1>4, <2>1 DEF Porte, Dit, Tenu, TenuCompte, Efface
  <2>7. \A g, v : TenuCompte(q, g, c, v) => Dit(op, g, c, v) \/ Dit(claim, g, c, v)
    BY <1>1, <1>4, <2>1 DEF Dit, TenuCompte, Efface
  <2>8. Datee(op) /\ Datee(claim) BY <1>2, <2>1 DEF Datee
  <2>9. Dit(op, "compte", c, c) /\ claim.compte = c /\ op.quoi = "compte" /\ claim.quoi = "alias"
    BY <2>1 DEF Dit
  <2>10. Saine(op.compte, op.enregistrement) BY <2>1, <1>2
  <2>11. Fidele(q, s, {}) BY <2>5, <2>6, <2>8, <2>9, <2>10 DEF Fidele
  <2> QED BY <2>4, <2>5, <2>7, <2>11
<1> QED BY <1>3, <1>4

LEMMA FidelesDeLAppareil ==
  ASSUME IInv, NEW q \in Racine, NEW d \in DOMAIN appareils[q], NEW s, s = DeLAppareil(q, d)
  PROVE  /\ s \in Seq(OperationDe(Emise)) /\ Fidele(q, s, {})
         /\ \A g, v : TenuAppareil(q, g, d, v) => \E j \in DOMAIN s : Dit(s[j], g, d, v)
<1> DEFINE T == OperationDe(Emise)
<1>1. PICK appareil : appareil = appareils[q][d] OBVIOUS
<1>2. d \in Emise /\ appareil \in AppareilDe(Emise) BY <1>1, Reflexes
<1>3. PICK op, fin, preuve :
        /\ op = [quoi |-> "appareil", estampille |-> d, appareil |-> d,
                 enregistrement |-> appareil]
        /\ fin = [quoi |-> "revoque", estampille |-> appareil.revoque, appareil |-> d,
                  le |-> appareil.revoque]
        /\ preuve = [quoi |-> "atteste", estampille |-> d, appareil |-> d]
  OBVIOUS
<1>4. /\ op \in T /\ preuve \in T
      /\ Revoque(q, d) => fin \in T
  <2>1. op \in T /\ preuve \in T BY <1>2, <1>3 DEF OperationDe
  <2>2. Revoque(q, d) => fin \in T
    BY <1>1, <1>2, <1>3 DEF OperationDe, Revoque, AppareilDe
  <2> QED BY <2>1, <2>2
<1> HIDE DEF T
<1>5. PICK b, c, sb :
        /\ b = IF Revoque(q, d) THEN <<fin>> ELSE <<>>
        /\ c = IF appareil.prouve THEN <<preuve>> ELSE <<>>
        /\ sb = <<op>> \o b
  OBVIOUS
<1>6. s = sb \o c BY <1>1, <1>3, <1>5 DEF DeLAppareil
<1>7. b \in Seq(T) /\ c \in Seq(T) /\ sb \in Seq(T) /\ s \in Seq(T)
  <2>1. b \in Seq(T) /\ c \in Seq(T) BY <1>4, <1>5
  <2>2. <<op>> \in Seq(T) BY <1>4
  <2> QED BY <2>1, <2>2, <1>5, <1>6
<1>8. /\ \A j \in DOMAIN b : Revoque(q, d) /\ j = 1 /\ b[j] = fin
      /\ Revoque(q, d) => 1 \in DOMAIN b /\ b[1] = fin
      /\ \A j \in DOMAIN c : appareil.prouve /\ j = 1 /\ c[j] = preuve
      /\ appareil.prouve => 1 \in DOMAIN c /\ c[1] = preuve
  <2>1. PICK vide, x, y : vide = <<>> /\ x = <<fin>> /\ y = <<preuve>> OBVIOUS
  <2>2. /\ DOMAIN vide = {} /\ DOMAIN x = {1} /\ x[1] = fin
        /\ DOMAIN y = {1} /\ y[1] = preuve
    BY <2>1
  <2>3. /\ b = IF Revoque(q, d) THEN x ELSE vide
        /\ c = IF appareil.prouve THEN y ELSE vide
    BY <1>5, <2>1
  <2> QED BY <2>2, <2>3
<1>9. \A g, k, v : Porte(op, g, k, v) => TenuAppareil(q, g, k, v)
  BY <1>1, <1>3 DEF Porte, Dit, TenuAppareil, Revoque
<1>10. Revoque(q, d) => \A g, k, v : Porte(fin, g, k, v) => TenuAppareil(q, g, k, v)
  BY <1>1, <1>3 DEF Porte, Dit, TenuAppareil, Revoque
<1>11. appareil.prouve => \A g, k, v : Porte(preuve, g, k, v) => TenuAppareil(q, g, k, v)
  BY <1>1, <1>3 DEF Porte, Dit, TenuAppareil
<1>12. Datee(op) /\ Datee(fin) /\ Datee(preuve) BY <1>3 DEF Datee
<1>13. PICK sa : sa = <<op>> OBVIOUS
<1>14. sa \in Seq(T) /\ DOMAIN sa = {1} /\ sa[1] = op BY <1>4, <1>13
<1>15. Fidele(q, sa, {}) BY <1>3, <1>9, <1>12, <1>14 DEF Fidele, Tenu
<1>16. Fidele(q, b, {d}) /\ Fidele(q, c, {d})
  <2>1. Fidele(q, b, {d}) BY <1>3, <1>8, <1>10, <1>12 DEF Fidele, Tenu
  <2>2. Fidele(q, c, {d}) BY <1>3, <1>8, <1>11, <1>12 DEF Fidele, Tenu
  <2> QED BY <2>1, <2>2
<1>17. Dit(op, "appareil", d, appareil.proprietaire) BY <1>3 DEF Dit
<1>18. Fidele(q, sb, {}) /\ Contient(sb, sa) /\ Contient(sb, b)
  <2>1. Dits(sa, {}, {d}) BY <1>14, <1>17 DEF Dits
  <2>2. sb = sa \o b BY <1>5, <1>13
  <2> QED BY <2>1, <2>2, <1>7, <1>14, <1>15, <1>16, JointeFidele
<1>19. \E i \in DOMAIN sb : sb[i] = op BY <1>14, <1>18 DEF Contient
<1>20. Fidele(q, s, {}) /\ Contient(s, sb) /\ Contient(s, c)
  <2>1. Dits(sb, {}, {d}) BY <1>17, <1>19 DEF Dits
  <2> QED BY <2>1, <1>6, <1>7, <1>16, <1>18, JointeFidele
<1>21. ASSUME NEW g, NEW v, TenuAppareil(q, g, d, v) PROVE \E j \in DOMAIN s : Dit(s[j], g, d, v)
  <2>1. \/ Dit(op, g, d, v)
        \/ Revoque(q, d) /\ Dit(fin, g, d, v)
        \/ appareil.prouve /\ Dit(preuve, g, d, v)
    BY <1>1, <1>3, <1>21 DEF TenuAppareil, Dit
  <2>2. CASE Dit(op, g, d, v) BY <2>2, <1>19, <1>20 DEF Contient
  <2>3. CASE Revoque(q, d) /\ Dit(fin, g, d, v) BY <2>3, <1>8, <1>18, <1>20 DEF Contient
  <2>4. CASE appareil.prouve /\ Dit(preuve, g, d, v) BY <2>4, <1>8, <1>20 DEF Contient
  <2> QED BY <2>1, <2>2, <2>3, <2>4
<1> QED BY <1>7, <1>20, <1>21 DEF T

\* Descriptions or push points, one after the other.
LEMMA FidelesDits ==
  ASSUME NEW q \in Racine, NEW f, TableDe(f, Emise, Emise), NEW X, DOMAIN f \subseteq X,
         NEW quoi \in {"description", "point"},
         \A d \in DOMAIN f : Tenu(q, quoi, d, f[d]),
         NEW s, s = [i \in 1..Cardinality(DOMAIN f) |->
                       [quoi |-> quoi, estampille |-> f[SetToSeq(DOMAIN f)[i]],
                        appareil |-> SetToSeq(DOMAIN f)[i]]]
  PROVE  /\ s \in Seq(OperationDe(Emise)) /\ Fidele(q, s, X)
         /\ \A d \in DOMAIN f : \E i \in DOMAIN s : Dit(s[i], quoi, d, f[d])
<1> DEFINE T == OperationDe(Emise)
<1>1. PICK n, cles : n = Cardinality(DOMAIN f) /\ cles = SetToSeq(DOMAIN f) OBVIOUS
<1>2. /\ n \in Nat /\ cles \in [1..n -> DOMAIN f]
      /\ \A d \in DOMAIN f : \E i \in DOMAIN cles : cles[i] = d
  BY <1>1, SuiteDe DEF TableDe
<1>3. /\ DOMAIN s = 1..n
      /\ \A i \in 1..n : s[i] = [quoi |-> quoi, estampille |-> f[cles[i]], appareil |-> cles[i]]
  BY <1>1
<1>4. \A d \in DOMAIN f : [quoi |-> quoi, estampille |-> f[d], appareil |-> d] \in T
  BY DEF TableDe, OperationDe
<1> HIDE DEF T
<1>5. s \in Seq(T)
  <2>1. \A i \in 1..n : s[i] \in T BY <1>2, <1>3, <1>4
  <2>2. s = [i \in 1..n |-> s[i]] BY <1>1
  <2>3. PICK t : t = s OBVIOUS
  <2>4. t \in [1..n -> T] BY <2>1, <2>2, <2>3
  <2>5. t \in Seq(T) BY <2>4, <1>2
  <2> QED BY <2>3, <2>5
<1>6. ASSUME NEW i \in DOMAIN s, NEW d, d = cles[i]
      PROVE  /\ d \in DOMAIN f /\ s[i].quoi = quoi /\ s[i].appareil = d
             /\ Dit(s[i], quoi, d, f[d])
             /\ \A g, k, v : Porte(s[i], g, k, v) => g = quoi /\ k = d /\ v = f[d]
  <2>1. PICK op, e : op = s[i] /\ e = f[d] OBVIOUS
  <2>2. d \in DOMAIN f /\ op = [quoi |-> quoi, estampille |-> e, appareil |-> d]
    BY <2>1, <1>2, <1>3, <1>6
  <2>3. op.quoi = quoi /\ op.appareil = d /\ op.estampille = e BY <2>2
  <2> QED BY <2>1, <2>2, <2>3 DEF Dit, Porte
<1>7. Fidele(q, s, X) BY <1>6 DEF Fidele, Datee
<1>8. \A d \in DOMAIN f : \E i \in DOMAIN s : Dit(s[i], quoi, d, f[d])
  <2> SUFFICES ASSUME NEW d \in DOMAIN f PROVE \E i \in DOMAIN s : Dit(s[i], quoi, d, f[d])
    OBVIOUS
  <2>1. PICK i \in DOMAIN cles : cles[i] = d BY <1>2
  <2>2. i \in DOMAIN s BY <2>1, <1>2, <1>3
  <2> QED BY <2>1, <2>2, <1>6
<1> QED BY <1>5, <1>7, <1>8 DEF T

LEMMA FidelesDesComptes ==
  ASSUME IInv, Accord, NEW q \in Racine, NEW f,
         f = FlattenSeq([i \in 1..Cardinality(DOMAIN comptes[q]) |->
                           DuCompte(q, SetToSeq(DOMAIN comptes[q])[i])])
  PROVE  /\ f \in Seq(OperationDe(Emise)) /\ Fidele(q, f, {})
         /\ \A g, k, v : TenuCompte(q, g, k, v) => \E i \in DOMAIN f : Dit(f[i], g, k, v)
<1> DEFINE T == OperationDe(Emise)
<1>1. PICK n, cles, s : /\ n = Cardinality(DOMAIN comptes[q]) /\ cles = SetToSeq(DOMAIN comptes[q])
                        /\ s = [i \in 1..n |-> DuCompte(q, cles[i])]
  OBVIOUS
<1>2. f = FlattenSeq(s) BY <1>1
<1>3. /\ n \in Nat /\ cles \in [1..n -> DOMAIN comptes[q]]
      /\ \A c \in DOMAIN comptes[q] : \E i \in DOMAIN cles : cles[i] = c
  BY <1>1, SuiteDe DEF IInv, Locale, Rangees, TableDe
<1>4. ASSUME NEW i \in 1..n
      PROVE  /\ s[i] \in Seq(T) /\ Fidele(q, s[i], {})
             /\ \A g, v : TenuCompte(q, g, cles[i], v) =>
                  \E j \in DOMAIN s[i] : Dit(s[i][j], g, cles[i], v)
  <2>1. PICK c, b : c = cles[i] /\ b = s[i] OBVIOUS
  <2>2. c \in DOMAIN comptes[q] /\ b = DuCompte(q, c) BY <2>1, <1>1, <1>3
  <2>3. b \in Seq(T) /\ Fidele(q, b, {}) BY <2>2, FidelesDuCompte
  <2>4. \A g, v : TenuCompte(q, g, c, v) => \E j \in DOMAIN b : Dit(b[j], g, c, v)
    BY <2>2, FidelesDuCompte
  <2> QED BY <2>1, <2>3, <2>4
<1> HIDE DEF T
<1>5. s \in Seq(Seq(T)) /\ Len(s) = n
  <2>1. s \in [1..n -> Seq(T)] BY <1>1, <1>4
  <2> QED BY <2>1, <1>3
<1>6. f \in Seq(T) /\ Fidele(q, f, {}) /\ \A k \in 1..n : Contient(f, s[k])
  BY <1>2, <1>4, <1>5, AplatieFidele
<1>7. ASSUME NEW g, NEW k, NEW v, TenuCompte(q, g, k, v)
      PROVE  \E i \in DOMAIN f : Dit(f[i], g, k, v)
  <2>1. k \in DOMAIN comptes[q] BY <1>7 DEF TenuCompte
  <2>2. PICK m \in 1..n : cles[m] = k BY <2>1, <1>3
  <2>3. PICK b : b = s[m] OBVIOUS
  <2>4. PICK j \in DOMAIN b : Dit(b[j], g, k, v) BY <2>2, <2>3, <1>4, <1>7
  <2>5. PICK i \in DOMAIN f : f[i] = b[j] BY <2>2, <2>3, <1>6 DEF Contient
  <2> QED BY <2>4, <2>5
<1> QED BY <1>6, <1>7 DEF T

LEMMA FidelesDesAppareils ==
  ASSUME IInv, NEW q \in Racine, NEW f,
         f = FlattenSeq([i \in 1..Cardinality(DOMAIN appareils[q]) |->
                           DeLAppareil(q, SetToSeq(DOMAIN appareils[q])[i])])
  PROVE  /\ f \in Seq(OperationDe(Emise)) /\ Fidele(q, f, {})
         /\ \A g, k, v : TenuAppareil(q, g, k, v) => \E i \in DOMAIN f : Dit(f[i], g, k, v)
<1> DEFINE T == OperationDe(Emise)
<1>1. PICK n, cles, s : /\ n = Cardinality(DOMAIN appareils[q])
                        /\ cles = SetToSeq(DOMAIN appareils[q])
                        /\ s = [i \in 1..n |-> DeLAppareil(q, cles[i])]
  OBVIOUS
<1>2. f = FlattenSeq(s) BY <1>1
<1>3. /\ n \in Nat /\ cles \in [1..n -> DOMAIN appareils[q]]
      /\ \A c \in DOMAIN appareils[q] : \E i \in DOMAIN cles : cles[i] = c
  BY <1>1, SuiteDe DEF IInv, Locale, Rangees, TableDe
<1>4. ASSUME NEW i \in 1..n
      PROVE  /\ s[i] \in Seq(T) /\ Fidele(q, s[i], {})
             /\ \A g, v : TenuAppareil(q, g, cles[i], v) =>
                  \E j \in DOMAIN s[i] : Dit(s[i][j], g, cles[i], v)
  <2>1. PICK c, b : c = cles[i] /\ b = s[i] OBVIOUS
  <2>2. c \in DOMAIN appareils[q] /\ b = DeLAppareil(q, c) BY <2>1, <1>1, <1>3
  <2>3. b \in Seq(T) /\ Fidele(q, b, {}) BY <2>2, FidelesDeLAppareil
  <2>4. \A g, v : TenuAppareil(q, g, c, v) => \E j \in DOMAIN b : Dit(b[j], g, c, v)
    BY <2>2, FidelesDeLAppareil
  <2> QED BY <2>1, <2>3, <2>4
<1> HIDE DEF T
<1>5. s \in Seq(Seq(T)) /\ Len(s) = n
  <2>1. s \in [1..n -> Seq(T)] BY <1>1, <1>4
  <2> QED BY <2>1, <1>3
<1>6. f \in Seq(T) /\ Fidele(q, f, {}) /\ \A k \in 1..n : Contient(f, s[k])
  BY <1>2, <1>4, <1>5, AplatieFidele
<1>7. ASSUME NEW g, NEW k, NEW v, TenuAppareil(q, g, k, v)
      PROVE  \E i \in DOMAIN f : Dit(f[i], g, k, v)
  <2>1. k \in DOMAIN appareils[q] BY <1>7 DEF TenuAppareil
  <2>2. PICK m \in 1..n : cles[m] = k BY <2>1, <1>3
  <2>3. PICK b : b = s[m] OBVIOUS
  <2>4. PICK j \in DOMAIN b : Dit(b[j], g, k, v) BY <2>2, <2>3, <1>4, <1>7
  <2>5. PICK i \in DOMAIN f : f[i] = b[j] BY <2>2, <2>3, <1>6 DEF Contient
  <2> QED BY <2>4, <2>5
<1> QED BY <1>6, <1>7 DEF T

\* What a root holds is known to it.
LEMMA TenuSu ==
  ASSUME IInv, SansSurprise, NEW q \in Racine, NEW g, NEW k, NEW v, Tenu(q, g, k, v)
  PROVE  Su(q, g, k, v)
<1>1. /\ DOMAIN descriptions[q] \subseteq DOMAIN appareils[q]
      /\ DOMAIN points[q] \subseteq DOMAIN appareils[q]
  BY DEF IInv, Locale, SurvieDe, PointsDe, SansSurprise
<1>2. CASE TenuCompte(q, g, k, v)
  BY <1>2, Reflexes DEF TenuCompte, Pretention, Su, SuCompte
<1>3. CASE TenuAppareil(q, g, k, v)
  BY <1>3, Reflexes DEF TenuAppareil, Su, SuAppareil, Connu
<1>4. CASE g = "description" /\ k \in DOMAIN descriptions[q] /\ v = descriptions[q][k]
  BY <1>1, <1>4, Reflexes DEF Su, SuAppareil, Connu
<1>5. CASE g = "point" /\ k \in DOMAIN points[q] /\ v = points[q][k]
  BY <1>1, <1>5, Reflexes DEF Su, SuAppareil, Connu
<1> QED BY <1>2, <1>3, <1>4, <1>5 DEF Tenu

LEMMA InstantaneFidele ==
  ASSUME IInv, Accord, SansSurprise, NEW q \in Racine, NEW f, f = Instantane(q) \o <<Fin(q)>>
  PROVE  /\ Fidele(q, f, {})
         /\ \A g, k, v : Tenu(q, g, k, v) => \E i \in DOMAIN f : Dit(f[i], g, k, v)
<1> DEFINE T == OperationDe(Emise)
           dits(table, quoi) == [i \in 1..Cardinality(DOMAIN table) |->
             LET d == SetToSeq(DOMAIN table)[i] IN
             [quoi |-> quoi, estampille |-> table[d], appareil |-> d]]
<1>1. /\ TableDe(descriptions[q], Emise, Emise) /\ TableDe(points[q], Emise, Emise)
      /\ DOMAIN descriptions[q] \subseteq DOMAIN appareils[q]
      /\ DOMAIN points[q] \subseteq DOMAIN appareils[q]
  BY DEF IInv, Locale, Rangees, SurvieDe, PointsDe, SansSurprise
<1>2. PICK X : X = DOMAIN appareils[q] OBVIOUS
<1>3. PICK fc, fa, fd, fp, ff :
        /\ fc = FlattenSeq([i \in 1..Cardinality(DOMAIN comptes[q]) |->
                              DuCompte(q, SetToSeq(DOMAIN comptes[q])[i])])
        /\ fa = FlattenSeq([i \in 1..Cardinality(DOMAIN appareils[q]) |->
                              DeLAppareil(q, SetToSeq(DOMAIN appareils[q])[i])])
        /\ fd = dits(descriptions[q], "description") /\ fp = dits(points[q], "point")
        /\ ff = <<Fin(q)>>
  OBVIOUS
<1>4. Instantane(q) = fc \o fa \o fd \o fp BY <1>3 DEF Instantane
<1> HIDE DEF T
<1>5. /\ fc \in Seq(T) /\ Fidele(q, fc, {})
      /\ \A g, k, v : TenuCompte(q, g, k, v) => \E i \in DOMAIN fc : Dit(fc[i], g, k, v)
  BY <1>3, FidelesDesComptes DEF T
<1>6. /\ fa \in Seq(T) /\ Fidele(q, fa, {})
      /\ \A g, k, v : TenuAppareil(q, g, k, v) => \E i \in DOMAIN fa : Dit(fa[i], g, k, v)
  BY <1>3, FidelesDesAppareils DEF T
<1>7. /\ fd \in Seq(T) /\ Fidele(q, fd, X)
      /\ \A d \in DOMAIN descriptions[q] :
           \E i \in DOMAIN fd : Dit(fd[i], "description", d, descriptions[q][d])
  <2>1. \A d \in DOMAIN descriptions[q] : Tenu(q, "description", d, descriptions[q][d])
    BY DEF Tenu
  <2>2. PICK t : t = descriptions[q] OBVIOUS
  <2>3. fd = [i \in 1..Cardinality(DOMAIN t) |->
                [quoi |-> "description", estampille |-> t[SetToSeq(DOMAIN t)[i]],
                 appareil |-> SetToSeq(DOMAIN t)[i]]]
    BY <1>3, <2>2
  <2> HIDE DEF dits
  <2> QED BY <1>1, <1>2, <2>1, <2>2, <2>3, FidelesDits DEF T
<1>8. /\ fp \in Seq(T) /\ Fidele(q, fp, X)
      /\ \A d \in DOMAIN points[q] : \E i \in DOMAIN fp : Dit(fp[i], "point", d, points[q][d])
  <2>1. \A d \in DOMAIN points[q] : Tenu(q, "point", d, points[q][d]) BY DEF Tenu
  <2>2. PICK t : t = points[q] OBVIOUS
  <2>3. fp = [i \in 1..Cardinality(DOMAIN t) |->
                [quoi |-> "point", estampille |-> t[SetToSeq(DOMAIN t)[i]],
                 appareil |-> SetToSeq(DOMAIN t)[i]]]
    BY <1>3, <2>2
  <2> HIDE DEF dits
  <2> QED BY <1>1, <1>2, <2>1, <2>2, <2>3, FidelesDits DEF T
<1>9. ff \in Seq(T) /\ Fidele(q, ff, {})
  <2>1. compteur \in [Racine -> Nat] BY DEF IInv, Voies
  <2>2. Fin(q).estampille \in Emise BY <2>1, FinEmise
  <2>3. Fin(q) \in T /\ Fin(q).quoi = "fin" BY <2>2 DEF Fin, OperationDe, T
  <2>4. ff \in Seq(T) /\ DOMAIN ff = {1} /\ ff[1] = Fin(q) BY <1>3, <2>3
  <2>5. \A g, k, v : ~Porte(Fin(q), g, k, v) BY <2>3 DEF Porte, Dit
  <2> QED BY <2>3, <2>4, <2>5 DEF Fidele, Datee
<1> HIDE DEF dits
<1>10. PICK f1, f2, f3 : f1 = fc \o fa /\ f2 = f1 \o fd /\ f3 = f2 \o fp OBVIOUS
<1>11. f = f3 \o ff BY <1>3, <1>4, <1>10
<1>12. f1 \in Seq(T) /\ Fidele(q, f1, {}) /\ Contient(f1, fc) /\ Contient(f1, fa)
  <2>1. Dits(fc, {}, {}) BY DEF Dits
  <2> QED BY <2>1, <1>5, <1>6, <1>10, JointeFidele
<1>13. \A d \in X : \E j \in DOMAIN f1 : \E c : Dit(f1[j], "appareil", d, c)
  <2> SUFFICES ASSUME NEW d \in X PROVE \E j \in DOMAIN f1 : \E c : Dit(f1[j], "appareil", d, c)
    OBVIOUS
  <2>1. PICK c : c = appareils[q][d].proprietaire OBVIOUS
  <2>2. TenuAppareil(q, "appareil", d, c) BY <1>2, <2>1 DEF TenuAppareil
  <2>3. PICK i \in DOMAIN fa : Dit(fa[i], "appareil", d, c) BY <2>2, <1>6
  <2> QED BY <2>3, <1>12 DEF Contient
<1>14. Dits(f1, {}, X) BY <1>13 DEF Dits
<1>15. f2 \in Seq(T) /\ Fidele(q, f2, {}) /\ Contient(f2, f1) /\ Contient(f2, fd)
  BY <1>7, <1>10, <1>12, <1>14, JointeFidele
<1>16. Dits(f2, {}, X) BY <1>13, <1>15 DEF Dits, Contient
<1>17. f3 \in Seq(T) /\ Fidele(q, f3, {}) /\ Contient(f3, f2) /\ Contient(f3, fp)
  <2>1. f3 = f2 \o fp /\ f2 \in Seq(T) /\ fp \in Seq(T) BY <1>8, <1>10, <1>15
  <2>2. Fidele(q, f2, {}) /\ Fidele(q, fp, X) BY <1>8, <1>15
  <2> QED BY <2>1, <2>2, <1>16, JointeFidele
<1>18. Dits(f3, {}, {}) BY DEF Dits
<1>19. Fidele(q, f, {}) /\ Contient(f, f3) BY <1>9, <1>11, <1>17, <1>18, JointeFidele
<1>20. ASSUME NEW g, NEW k, NEW v, Tenu(q, g, k, v) PROVE \E i \in DOMAIN f : Dit(f[i], g, k, v)
  <2>1. \A i \in DOMAIN f3 : Dit(f3[i], g, k, v) => \E j \in DOMAIN f : Dit(f[j], g, k, v)
    BY <1>19 DEF Contient
  <2>2. \A i \in DOMAIN f2 : Dit(f2[i], g, k, v) => \E j \in DOMAIN f : Dit(f[j], g, k, v)
    BY <2>1, <1>17 DEF Contient
  <2>3. \A i \in DOMAIN f1 : Dit(f1[i], g, k, v) => \E j \in DOMAIN f : Dit(f[j], g, k, v)
    BY <2>2, <1>15 DEF Contient
  <2>4. CASE TenuCompte(q, g, k, v) BY <2>4, <2>3, <1>5, <1>12 DEF Contient
  <2>5. CASE TenuAppareil(q, g, k, v) BY <2>5, <2>3, <1>6, <1>12 DEF Contient
  <2>6. CASE g = "description" /\ k \in DOMAIN descriptions[q] /\ v = descriptions[q][k]
    BY <2>6, <2>2, <1>7, <1>15 DEF Contient
  <2>7. CASE g = "point" /\ k \in DOMAIN points[q] /\ v = points[q][k]
    BY <2>7, <2>1, <1>8, <1>17 DEF Contient
  <2> QED BY <1>20, <2>4, <2>5, <2>6, <2>7 DEF Tenu
<1> QED BY <1>19, <1>20

\* Root r takes the snapshot of the other one in place of what it had still to apply.
LEMMA AmorcerAccord ==
  ASSUME IInv, IInv', Accord, Datees, SansSurprise, NEW r \in Racine, Amorcer(r)
  PROVE  Accord' /\ Datees'
<1>1. PICK p, f : p = Pair[r] /\ f = Instantane(p) \o <<Fin(p)>> OBVIOUS
<1>2. /\ p \in Racine /\ p # r /\ \A q \in Racine : Pair[q] \in Racine
      /\ \A q \in Racine : Pair[q] = p <=> q = r
  BY <1>1, DeuxRacines
<1>3. /\ AmorcerPar(r, Instantane(p))
      /\ comptes' = comptes /\ appareils' = appareils
      /\ descriptions' = descriptions /\ points' = points
  BY <1>1 DEF Amorcer, tables
<1>4. /\ compteur' = compteur /\ enRoute'[r] = f
      /\ \A q \in Racine : q # r => enRoute'[q] = enRoute[q]
  BY <1>1, <1>3 DEF AmorcerPar, IInv, Voies
<1>5. Emise' = Emise BY <1>4 DEF Emise
<1>6. /\ Fidele(p, f, {})
      /\ \A g, k, v : Tenu(p, g, k, v) => \E i \in DOMAIN f : Dit(f[i], g, k, v)
  BY <1>1, <1>2, InstantaneFidele
<1>7. \A i \in DOMAIN f :
        /\ \A g, k, v : Porte(f[i], g, k, v) => Tenu(p, g, k, v)
        /\ f[i].quoi = "compte" => Saine(f[i].compte, f[i].enregistrement)
        /\ Datee(f[i])
        /\ f[i].quoi = "alias" => \E j \in 1..(i-1) : Dit(f[j], "compte", f[i].compte, f[i].compte)
        /\ f[i].quoi \in {"revoque", "atteste", "description", "point"} =>
             \E j \in 1..(i-1) : \E c : Dit(f[j], "appareil", f[i].appareil, c)
  BY <1>6 DEF Fidele
<1>8. \A q \in Racine : Progres(q) BY <1>3, MemesProgres
<1>9. \A q \in Racine : \A g, k, v : Tenu(q, g, k, v)' <=> Tenu(q, g, k, v)
  BY <1>3, MemesTenus
<1>10. ASSUME NEW g, NEW k, NEW v, Vu(g, k, v)' PROVE Vu(g, k, v)
  <2>1. PICK q \in Racine : \/ Tenu(q, g, k, v)'
                            \/ \E i \in DOMAIN enRoute'[q] : Porte(enRoute'[q][i], g, k, v)
    BY <1>10 DEF Vu
  <2>2. CASE Tenu(q, g, k, v)' BY <2>2, <1>9 DEF Vu
  <2>3. CASE q # r /\ \E i \in DOMAIN enRoute'[q] : Porte(enRoute'[q][i], g, k, v)
    BY <2>3, <1>4 DEF Vu
  <2>4. CASE q = r /\ \E i \in DOMAIN enRoute'[q] : Porte(enRoute'[q][i], g, k, v)
    <3>1. Tenu(p, g, k, v) BY <2>4, <1>4, <1>7
    <3> QED BY <3>1, <1>2 DEF Vu
  <2> QED BY <2>1, <2>2, <2>3, <2>4
<1>11. Ancien BY <1>10 DEF Ancien
<1>12. ASSUME NEW q \in Racine, NEW g, NEW k, NEW v, Vu(g, k, v), Su(q, g, k, v)
       PROVE  Su(q, g, k, v)'
  BY <1>5, <1>8, <1>11, <1>12, SuReste DEF Accord
<1>13. ASSUME NEW q \in Racine, NEW d \in Emise, Connu(q, d) PROVE Connu(q, d)'
  BY <1>8, <1>11, <1>13, ConnuReste DEF Accord
<1>14. Unicite'
  <2> SUFFICES ASSUME NEW g \in {"alias", "efface", "appareil"}, NEW k, NEW v, NEW w,
                      Vu(g, k, v)', Vu(g, k, w)', Marque(g, k, v) = Marque(g, k, w)
               PROVE  v = w
    BY DEF Unicite, Marque
  <2> QED BY <1>10 DEF Accord, Unicite
<1>15. ASSUME NEW q \in Racine PROVE Verite(q)'
  <2> SUFFICES ASSUME NEW i \in DOMAIN enRoute'[q], NEW g, NEW k, NEW v,
                      Porte(enRoute'[q][i], g, k, v)
               PROVE  Su(Pair[q], g, k, v)'
    BY DEF Verite
  <2>1. CASE q # r
    <3>1. Vu(g, k, v) /\ Su(Pair[q], g, k, v) BY <2>1, <1>4 DEF Vu, Accord, Verite
    <3> QED BY <3>1, <1>2, <1>12
  <2>2. CASE q = r
    <3>1. Tenu(p, g, k, v) BY <2>2, <1>4, <1>7
    <3>2. Vu(g, k, v) /\ Su(p, g, k, v) BY <3>1, <1>2, TenuSu DEF Vu
    <3> QED BY <3>2, <2>2, <1>1, <1>2, <1>12
  <2> QED BY <2>1, <2>2
<1>16. ASSUME NEW q \in Racine PROVE Couverture(q)'
  <2> SUFFICES ASSUME NEW g, NEW k, NEW v, Tenu(Pair[q], g, k, v)
               PROVE  \/ Su(q, g, k, v)'
                      \/ \E i \in DOMAIN enRoute'[q] : Dit(enRoute'[q][i], g, k, v)
    BY <1>2, <1>9 DEF Couverture
  <2>1. CASE q = r BY <2>1, <1>1, <1>4, <1>6
  <2>2. CASE q # r
    <3>1. Vu(g, k, v) BY <1>2 DEF Vu
    <3>2. Su(q, g, k, v) \/ \E i \in DOMAIN enRoute[q] : Dit(enRoute[q][i], g, k, v)
      BY DEF Accord, Couverture
    <3> QED BY <3>1, <3>2, <2>2, <1>4, <1>12
  <2> QED BY <2>1, <2>2
<1>17. ASSUME NEW q \in Racine, NEW i \in DOMAIN enRoute'[q] PROVE Precedee(q, i)'
  <2>1. CASE q = r
    BY <2>1, <1>4, <1>7, <1>17 DEF Precedee
  <2>2. CASE q # r
    <3>1. enRoute[q][i] \in OperationDe(Emise) BY <2>2, <1>4, <1>17, EnRouteType
    <3>2. enRoute[q][i].quoi \in {"revoque", "atteste", "description", "point"} =>
            enRoute[q][i].appareil \in Emise
      BY <3>1, Champs
    <3>3. Precedee(q, i) BY <2>2, <1>4, <1>17 DEF Accord
    <3> QED BY <2>2, <3>2, <3>3, <1>3, <1>4, <1>13 DEF Precedee
  <2> QED BY <2>1, <2>2
<1>18. ASSUME NEW q \in Racine PROVE Saines(q)'
  <2>1. ASSUME NEW i \in DOMAIN enRoute'[q], enRoute'[q][i].quoi = "compte"
        PROVE  Saine(enRoute'[q][i].compte, enRoute'[q][i].enregistrement)
    <3>1. CASE q = r BY <2>1, <3>1, <1>4, <1>7
    <3>2. CASE q # r BY <2>1, <3>2, <1>4 DEF Accord, Saines
    <3> QED BY <3>1, <3>2
  <2> QED BY <2>1, <1>3 DEF Accord, Saines, Saine
<1>19. Datees'
  <2>1. ASSUME NEW q \in Racine, NEW i \in DOMAIN enRoute'[q] PROVE Datee(enRoute'[q][i])
    <3>1. CASE q = r BY <2>1, <3>1, <1>4, <1>7
    <3>2. CASE q # r BY <2>1, <3>2, <1>4 DEF Datees
    <3> QED BY <3>1, <3>2
  <2> QED BY <2>1, <1>3, <1>4 DEF Datees, TablesDatees
<1> QED BY <1>14, <1>15, <1>16, <1>17, <1>18, <1>19 DEF Accord

-----------------------------------------------------------------------------
(* The initial states agree.                                               *)

\* What a root holds is held by the other one, or on its way; what is on its way is
\* held by its root.
LEMMA DepartPartage ==
  ASSUME Init, NEW r \in Racine
  PROVE  /\ \A d \in DOMAIN appareils[Pair[r]] :
              /\ d \in DOMAIN appareils[r]
              /\ Revoque(Pair[r], d) =>
                   \/ Revoque(r, d) /\ appareils[r][d].revoque = appareils[Pair[r]][d].revoque
                   \/ \E i \in DOMAIN enRoute[r] :
                        Dit(enRoute[r][i], "revoque", d, appareils[Pair[r]][d].revoque)
         /\ \A i \in DOMAIN enRoute[r] :
              /\ enRoute[r][i].quoi = "revoque"
              /\ enRoute[r][i].appareil \in DOMAIN appareils[r]
              /\ enRoute[r][i].appareil \in DOMAIN appareils[Pair[r]]
              /\ Revoque(Pair[r], enRoute[r][i].appareil)
              /\ appareils[Pair[r]][enRoute[r][i].appareil].revoque = enRoute[r][i].le
<1>1. Pair[r] \in Racine BY DeuxRacines
<1>2. CASE InitSeul
  <2>1. appareils[r] = appareils[Pair[r]] /\ enRoute[r] = <<>>
    BY <1>1, <1>2 DEF InitSeul, InitVoie
  <2>2. DOMAIN enRoute[r] = {} BY <2>1
  <2> QED BY <2>1, <2>2 DEF Revoque
<1>3. CASE InitCroise
  <2>1. PICK ici, le :
          /\ ici = PremierCompte.racine
          /\ le = [q \in Racine |-> [compteur |-> SecondAppareil.compteur + 1, racine |-> q]]
    OBVIOUS
  <2>2. ici \in Racine BY <2>1, ComptesAssumption DEF Estampille
  <2>3. PICK op : op = [quoi |-> "revoque", estampille |-> le[ici],
                        appareil |-> SecondAppareil, le |-> le[ici]]
    OBVIOUS
  <2>4. r # Pair[ici] => DOMAIN enRoute[r] = {}
    <3>1. r # Pair[ici] => enRoute[r] = <<>> BY <1>3, <2>1 DEF InitCroise
    <3> QED BY <3>1
  <2>5. r = Pair[ici] => enRoute[r] = <<op>> BY <1>3, <2>1, <2>3 DEF InitCroise
  <2>6. PICK s, un : un = Joint(le[Pair[ici]]) /\ s = Seul(PremierAppareil, un) OBVIOUS
  <2>7. DOMAIN s = {PremierAppareil} /\ s[PremierAppareil] = un BY <2>6, Seule
  <2>8. \A q \in Racine :
          appareils[q] = Poser(s, SecondAppareil, Joint(IF q = ici THEN le[ici] ELSE Aucune))
    BY <1>3, <2>1, <2>6 DEF InitCroise
  <2>9. \A q \in Racine :
          /\ DOMAIN appareils[q] = {PremierAppareil, SecondAppareil}
          /\ appareils[q][SecondAppareil].revoque = IF q = ici THEN le[ici] ELSE Aucune
          /\ \A d \in DOMAIN appareils[q] : d # SecondAppareil => appareils[q][d] = un
    <3> SUFFICES ASSUME NEW q \in Racine
                 PROVE  /\ DOMAIN appareils[q] = {PremierAppareil, SecondAppareil}
                        /\ appareils[q][SecondAppareil].revoque =
                             IF q = ici THEN le[ici] ELSE Aucune
                        /\ \A d \in DOMAIN appareils[q] :
                             d # SecondAppareil => appareils[q][d] = un
      OBVIOUS
    <3>1. PICK a, e, deux : /\ a = appareils[q] /\ deux = Joint(e)
                            /\ e = IF q = ici THEN le[ici] ELSE Aucune
      OBVIOUS
    <3>2. a = Poser(s, SecondAppareil, deux) BY <3>1, <2>8
    <3>3. /\ DOMAIN a = {PremierAppareil, SecondAppareil} /\ a[SecondAppareil] = deux
          /\ \A d \in DOMAIN a : d # SecondAppareil => a[d] = un
      BY <3>2, <2>7 DEF Poser
    <3>4. deux.revoque = e BY <3>1 DEF Joint
    <3> QED BY <3>1, <3>3, <3>4
  <2>10. le[ici] # Aucune
    <3>1. le[ici].racine = ici /\ Aucune.racine = 0 /\ ici # 0
      BY <2>1, <2>2, RepliqueAssumption DEF Aucune
    <3> QED BY <3>1
  <2>11. op.quoi = "revoque" /\ op.appareil = SecondAppareil /\ op.le = le[ici] BY <2>3
  <2>12. CASE r = Pair[ici]
    <3>1. Pair[r] = ici /\ r # ici BY <2>2, <2>12, DeuxRacines
    <3>2. PICK f : f = enRoute[r] OBVIOUS
    <3>3. f = <<op>> BY <3>2, <2>5, <2>12
    <3>4. DOMAIN f = {1} /\ f[1] = op BY <3>3
    <3>5. Dit(op, "revoque", SecondAppareil, le[ici]) BY <2>11 DEF Dit
    <3>6. ASSUME NEW d \in DOMAIN appareils[Pair[r]]
          PROVE  /\ d \in DOMAIN appareils[r]
                 /\ Revoque(Pair[r], d) =>
                      \/ Revoque(r, d) /\ appareils[r][d].revoque = appareils[Pair[r]][d].revoque
                      \/ \E i \in DOMAIN f : Dit(f[i], "revoque", d, appareils[Pair[r]][d].revoque)
      BY <1>1, <2>9, <3>1, <3>4, <3>5 DEF Revoque
    <3>7. /\ SecondAppareil \in DOMAIN appareils[r] /\ SecondAppareil \in DOMAIN appareils[ici]
          /\ Revoque(ici, SecondAppareil) /\ appareils[ici][SecondAppareil].revoque = le[ici]
      BY <2>2, <2>9, <2>10 DEF Revoque
    <3> QED BY <3>1, <3>2, <3>4, <3>6, <3>7, <2>11
  <2>13. CASE r # Pair[ici]
    <3>1. Pair[r] # ici BY <2>2, <2>13, DeuxRacines
    <3> QED BY <1>1, <2>4, <2>9, <2>13, <3>1 DEF Revoque
  <2> QED BY <2>12, <2>13
<1>4. CASE InitDeux
  <2>1. appareils[r] = appareils[Pair[r]] /\ enRoute[r] = <<>>
    BY <1>1, <1>4 DEF InitDeux, InitVoie
  <2>2. DOMAIN enRoute[r] = {} BY <2>1
  <2> QED BY <2>1, <2>2 DEF Revoque
<1> QED BY <1>2, <1>3, <1>4 DEF Init

LEMMA InitAccord ==
  ASSUME Init
  PROVE  Accord /\ Datees
<1>1. IInv /\ SansSurprise BY InitIInv DEF Init, SansSurprise
<1>2. ASSUME NEW q \in Racine, NEW g, NEW k, NEW v, Tenu(q, g, k, v)
      PROVE  \/ g = "compte" /\ k \in DOMAIN comptes[q] /\ v = k
             \/ /\ g = "appareil" /\ k \in DOMAIN appareils[q]
                /\ v = appareils[q][k].proprietaire
             \/ /\ g = "revoque" /\ k \in DOMAIN appareils[q] /\ Revoque(q, k)
                /\ v = appareils[q][k].revoque
  <2>1. /\ \A c \in DOMAIN comptes[q] : ~Efface(q, c) /\ comptes[q][c].reclamation = c
        /\ DOMAIN descriptions[q] = {} /\ DOMAIN points[q] = {}
        /\ \A d \in DOMAIN appareils[q] : ~appareils[q][d].prouve
    BY DepartSimple DEF Efface
  <2> QED BY <1>2, <2>1 DEF Tenu, TenuCompte, TenuAppareil
<1>3. ASSUME NEW q \in Racine, NEW i \in DOMAIN enRoute[q], NEW g, NEW k, NEW v,
             Porte(enRoute[q][i], g, k, v)
      PROVE  g = "revoque" /\ k = enRoute[q][i].appareil /\ v = enRoute[q][i].le
  BY <1>3, DepartPartage DEF Porte, Dit
<1>4. Unicite
  <2> SUFFICES ASSUME NEW g \in {"alias", "efface", "appareil"}, NEW k, NEW v, NEW w,
                      Vu(g, k, v), Vu(g, k, w)
               PROVE  v = w
    BY DEF Unicite
  <2>1. \A x : Vu(g, k, x) =>
          \E q \in Racine : k \in DOMAIN appareils[q] /\ x = appareils[q][k].proprietaire
    BY <1>2, <1>3 DEF Vu
  <2>2. ASSUME NEW p \in Racine, NEW q \in Racine,
               k \in DOMAIN appareils[p], k \in DOMAIN appareils[q]
        PROVE  appareils[p][k].proprietaire = appareils[q][k].proprietaire
    BY <2>2, DepartSimple
  <2> QED BY <2>1, <2>2
<1>5. ASSUME NEW r \in Racine PROVE Verite(r)
  <2> SUFFICES ASSUME NEW i \in DOMAIN enRoute[r], NEW g, NEW k, NEW v,
                      Porte(enRoute[r][i], g, k, v)
               PROVE  Su(Pair[r], g, k, v)
    BY DEF Verite
  <2>1. PICK op : op = enRoute[r][i] OBVIOUS
  <2>2. g = "revoque" /\ k = op.appareil /\ v = op.le BY <1>3, <2>1
  <2>3. /\ op.appareil \in DOMAIN appareils[Pair[r]] /\ Revoque(Pair[r], op.appareil)
        /\ appareils[Pair[r]][op.appareil].revoque = op.le
    BY <2>1, DepartPartage
  <2>4. Tenu(Pair[r], g, k, v) BY <2>2, <2>3 DEF Tenu, TenuAppareil
  <2> QED BY <2>4, <1>1, TenuSu, DeuxRacines
<1>6. ASSUME NEW r \in Racine PROVE Couverture(r)
  <2> SUFFICES ASSUME NEW g, NEW k, NEW v, Tenu(Pair[r], g, k, v)
               PROVE  Tenu(r, g, k, v) \/ \E i \in DOMAIN enRoute[r] : Dit(enRoute[r][i], g, k, v)
    BY <1>1, TenuSu DEF Couverture
  <2>1. Pair[r] \in Racine BY DeuxRacines
  <2>2. CASE g = "compte" /\ k \in DOMAIN comptes[Pair[r]] /\ v = k
    <3>1. k \in DOMAIN comptes[r] BY <2>1, <2>2, DepartSimple
    <3> QED BY <2>2, <3>1 DEF Tenu, TenuCompte
  <2>3. CASE /\ g = "appareil" /\ k \in DOMAIN appareils[Pair[r]]
             /\ v = appareils[Pair[r]][k].proprietaire
    <3>1. k \in DOMAIN appareils[r] BY <2>3, DepartPartage
    <3>2. appareils[r][k].proprietaire = v BY <2>1, <2>3, <3>1, DepartSimple
    <3> QED BY <3>1, <3>2, <2>3 DEF Tenu, TenuAppareil
  <2>4. CASE /\ g = "revoque" /\ k \in DOMAIN appareils[Pair[r]] /\ Revoque(Pair[r], k)
             /\ v = appareils[Pair[r]][k].revoque
    BY <2>4, DepartPartage DEF Tenu, TenuAppareil
  <2> QED BY <1>2, <2>1, <2>2, <2>3, <2>4
<1>7. ASSUME NEW r \in Racine
      PROVE  Saines(r) /\ \A i \in DOMAIN enRoute[r] : Precedee(r, i) /\ Datee(enRoute[r][i])
  <2>1. \A c \in DOMAIN comptes[r] : Saine(c, comptes[r][c])
    BY DepartSimple, OrdreTotal DEF Saine
  <2>2. \A i \in DOMAIN enRoute[r] :
          enRoute[r][i].quoi = "revoque" /\ enRoute[r][i].appareil \in DOMAIN appareils[r]
    BY DepartPartage
  <2> QED BY <2>1, <2>2 DEF Saines, Precedee, Connu, Datee
<1>8. ASSUME NEW r \in Racine PROVE TablesDatees(r)
  <2>1. /\ \A c \in DOMAIN comptes[r] :
             comptes[r][c].reclamation = c /\ c.compteur <= compteur[r]
        /\ DOMAIN descriptions[r] = {} /\ DOMAIN points[r] = {}
    BY DepartSimple
  <2> QED BY <2>1 DEF TablesDatees
<1> QED BY <1>4, <1>5, <1>6, <1>7, <1>8 DEF Accord, Datees

-----------------------------------------------------------------------------
(* Every step keeps the agreement, as long as no erasure came between the two *)
(* transactions of a request.                                               *)

\* The agreement holds unless an account was erased under a request in hand.
AccordTenu == SansSurprise => Accord /\ Datees

LEMMA PasAccord == IInv /\ AccordTenu /\ [Next]_vars => AccordTenu'
<1> SUFFICES ASSUME IInv, AccordTenu, [Next]_vars, SansSurprise'
             PROVE  Accord' /\ Datees'
  BY DEF AccordTenu
<1>1. IInv' BY PasIInv
<1>2. SansSurprise
  <2>1. ASSUME NEW r \in Racine, Recevoir(r) PROVE \A q \in Racine : surpris[q] \subseteq surpris'[q]
    BY <2>1 DEF Recevoir, IInv, Racines
  <2>2. CASE UNCHANGED surpris BY <2>2 DEF SansSurprise
  <2>3. CASE \E r \in Racine : Recevoir(r) BY <2>1, <2>3 DEF SansSurprise
  <2>4. UNCHANGED surpris \/ \E r \in Racine : Recevoir(r)
    <3>1. CASE UNCHANGED vars BY <3>1 DEF vars
    <3>2. ASSUME NEW r \in Racine, Tarder(r) \/ Rendre(r) \/ Amorcer(r) PROVE UNCHANGED surpris
      BY <3>2 DEF Tarder, Rendre, Amorcer
    <3>3. ASSUME NEW r \in Racine, CreerCompte(r) \/ EffacerUnOrphelin(r) PROVE UNCHANGED surpris
      BY <3>3 DEF CreerCompte, EffacerUnOrphelin, Effacer
    <3>4. ASSUME NEW r \in Racine, Demander(r) PROVE UNCHANGED surpris
      BY <3>4 DEF Demander, CreerAppareil, ReclamerAlias, EffacerCompte, Effacer,
         RevoquerAppareil, AttesterAppareil, PoserDescription, PoserPoint
    <3> QED BY <3>1, <3>2, <3>3, <3>4 DEF Next
  <2> QED BY <2>2, <2>3, <2>4
<1>3. Accord /\ Datees BY <1>2 DEF AccordTenu
<1>4. CASE UNCHANGED vars BY <1>4, <1>3, ImmobileAccord DEF vars, tables, voie
<1>5. ASSUME NEW r \in Racine, Tarder(r) \/ Rendre(r) PROVE Accord' /\ Datees'
  BY <1>3, <1>5, ImmobileAccord DEF Tarder, Rendre
<1>6. ASSUME NEW r \in Racine, Ailleurs(r), \E op : Sienne(r, op) PROVE Accord' /\ Datees'
  BY <1>1, <1>2, <1>3, <1>6, EcritAccord
<1>7. ASSUME NEW r \in Racine, CreerCompte(r) PROVE Accord' /\ Datees'
  BY <1>3, <1>6, <1>7, AilleursRien, EcritCompte
<1>8. ASSUME NEW r \in Racine, Demander(r) PROVE Accord' /\ Datees'
  <2>0. Ailleurs(r) BY <1>8, AilleursRien
  <2>1. PICK qui \in Demandeurs(r) :
          \/ CreerAppareil(r, qui) \/ ReclamerAlias(r, qui) \/ EffacerCompte(r, qui)
          \/ RevoquerAppareil(r, qui) \/ AttesterAppareil(r, qui)
          \/ PoserDescription(r, qui) \/ PoserPoint(r, qui)
    BY <1>8 DEF Demander
  <2>2. CASE CreerAppareil(r, qui) BY <2>0, <2>2, <1>2, <1>3, <1>6, EcritAppareil
  <2>3. CASE ReclamerAlias(r, qui) BY <2>0, <2>3, <1>3, <1>6, EcritAlias
  <2>4. CASE EffacerCompte(r, qui)
    <3>1. Effacer(r, qui.compte, "titulaire") /\ "titulaire" \in Cause
      BY <2>4 DEF EffacerCompte, Cause
    <3> QED BY <3>1, <2>0, <1>6, EcritEffacement
  <2>5. CASE RevoquerAppareil(r, qui) BY <2>0, <2>5, <1>6, EcritRevocation
  <2>6. CASE AttesterAppareil(r, qui) BY <2>0, <2>6, <1>6, EcritAttestation
  <2>7. CASE PoserDescription(r, qui) BY <2>0, <2>7, <1>2, <1>3, <1>6, EcritDescription
  <2>8. CASE PoserPoint(r, qui) BY <2>0, <2>8, <1>3, <1>6, EcritPoint
  <2> QED BY <2>1, <2>2, <2>3, <2>4, <2>5, <2>6, <2>7, <2>8
<1>9. ASSUME NEW r \in Racine, EffacerUnOrphelin(r) PROVE Accord' /\ Datees'
  <2>1. PICK c : Effacer(r, c, "orphelin") BY <1>9 DEF EffacerUnOrphelin
  <2>2. "orphelin" \in Cause BY DEF Cause
  <2> QED BY <2>1, <2>2, <1>6, <1>9, AilleursRien, EcritEffacement
<1>10. ASSUME NEW r \in Racine, Recevoir(r) PROVE Accord' /\ Datees'
  BY <1>1, <1>2, <1>3, <1>10, RecevoirAccord, RecevoirDatees
<1>11. ASSUME NEW r \in Racine, Amorcer(r) PROVE Accord' /\ Datees'
  BY <1>1, <1>2, <1>3, <1>11, AmorcerAccord
<1> QED BY <1>4, <1>5, <1>7, <1>8, <1>9, <1>10, <1>11 DEF Next

-----------------------------------------------------------------------------
(* At rest: what a root holds is known to the other one, and back.          *)

\* All that the other root holds, root r knows.
Instruit(r) == \A g, k, v : Tenu(Pair[r], g, k, v) => Su(r, g, k, v)

LEMMA MemesAuRepos ==
  ASSUME IInv, Accord, RienEnRoute, NEW r \in Racine
  PROVE  Instruit(r)
<1>1. Couverture(r) BY DEF Accord
<1>2. DOMAIN enRoute[r] = {}
  <2>1. enRoute[r] = <<>> BY DEF RienEnRoute
  <2> QED BY <2>1
<1> QED BY <1>1, <1>2 DEF Couverture, Instruit

\* The account is erased there too, and no sooner.
LEMMA EffaceLaBas ==
  ASSUME IInv, NEW q \in Racine, NEW p \in Racine, q = Pair[p], Instruit(p),
         NEW c \in DOMAIN comptes[q]
  PROVE  /\ c \in DOMAIN comptes[p]
         /\ Efface(q, c) =>
              Efface(p, c) /\ ~Avant(comptes[q][c].estampille, comptes[p][c].estampille)
         /\ ~Efface(q, c) /\ comptes[q][c].reclamation # c =>
              Efface(p, c) \/ ~Avant(comptes[p][c].reclamation, comptes[q][c].reclamation)
<1>1. c \in DOMAIN comptes[p]
  <2>1. Tenu(q, "compte", c, c) BY DEF Tenu, TenuCompte
  <2> QED BY <2>1 DEF Instruit, Su, SuCompte
<1>2. ASSUME Efface(q, c)
      PROVE  Efface(p, c) /\ ~Avant(comptes[q][c].estampille, comptes[p][c].estampille)
  <2>1. PICK v : v = [cause |-> comptes[q][c].efface, estampille |-> comptes[q][c].estampille]
    OBVIOUS
  <2>2. Tenu(q, "efface", c, v) BY <1>2, <2>1 DEF Tenu, TenuCompte
  <2>3. SuCompte(p, "efface", c, v) BY <2>2 DEF Instruit, Su
  <2> QED BY <2>1, <2>3 DEF SuCompte
<1>3. ASSUME ~Efface(q, c), comptes[q][c].reclamation # c
      PROVE  Efface(p, c) \/ ~Avant(comptes[p][c].reclamation, comptes[q][c].reclamation)
  <2>1. PICK v : v = Pretention(comptes[q][c].alias, comptes[q][c].reclamation) OBVIOUS
  <2>2. Tenu(q, "alias", c, v) BY <1>3, <2>1 DEF Tenu, TenuCompte
  <2>3. SuCompte(p, "alias", c, v) BY <2>2 DEF Instruit, Su
  <2> QED BY <2>1, <2>3 DEF SuCompte, Pretention
<1> QED BY <1>1, <1>2, <1>3

LEMMA MemesComptesAuRepos ==
  ASSUME IInv, Accord, NEW q \in Racine, NEW p \in Racine, q = Pair[p], p = Pair[q],
         Instruit(p), Instruit(q)
  PROVE  comptes[q] = comptes[p]
<1>1. DOMAIN comptes[q] = DOMAIN comptes[p] BY EffaceLaBas
<1>2. ASSUME NEW c \in DOMAIN comptes[q] PROVE comptes[q][c] = comptes[p][c]
  <2>1. PICK a, b : a = comptes[q][c] /\ b = comptes[p][c] OBVIOUS
  <2>2. /\ c \in Emise /\ a \in CompteDe(Emise) /\ b \in CompteDe(Emise)
        /\ Saine(c, a) /\ Saine(c, b)
    BY <1>1, <2>1, Reflexes DEF Accord, Saines
  <2>3. Emise \subseteq Estampille BY DEF Emise
  <2>4. /\ c \in Estampille
        /\ a.estampille \in Estampille /\ b.estampille \in Estampille
        /\ a.reclamation \in Estampille /\ b.reclamation \in Estampille
        /\ a.estampille = a.reclamation /\ b.estampille = b.reclamation
        /\ a.efface # "non" => a.alias = SansAlias
        /\ b.efface # "non" => b.alias = SansAlias
    BY <2>2, <2>3 DEF CompteDe, Saine
  <2>5. (Efface(q, c) <=> a.efface # "non") /\ (Efface(p, c) <=> b.efface # "non")
    BY <1>1, <2>1 DEF Efface
  <2>6. /\ Efface(q, c) => Efface(p, c) /\ ~Avant(a.estampille, b.estampille)
        /\ Efface(p, c) => Efface(q, c) /\ ~Avant(b.estampille, a.estampille)
        /\ ~Efface(q, c) /\ a.reclamation # c =>
             Efface(p, c) \/ ~Avant(b.reclamation, a.reclamation)
        /\ ~Efface(p, c) /\ b.reclamation # c =>
             Efface(q, c) \/ ~Avant(a.reclamation, b.reclamation)
    BY <1>1, <2>1, EffaceLaBas
  <2>7. a.estampille = b.estampille /\ a.alias = b.alias /\ a.efface = b.efface
    <3>1. CASE Efface(q, c)
      <4>1. Efface(p, c) /\ a.estampille = b.estampille BY <3>1, <2>4, <2>6, OrdreTotal
      <4>2. PICK v, w : /\ v = [cause |-> a.efface, estampille |-> a.estampille]
                        /\ w = [cause |-> b.efface, estampille |-> b.estampille]
        OBVIOUS
      <4>3. Tenu(q, "efface", c, v) /\ Tenu(p, "efface", c, w)
        BY <3>1, <4>1, <4>2, <1>1, <2>1 DEF Tenu, TenuCompte
      <4>4. Vu("efface", c, v) /\ Vu("efface", c, w) BY <4>3 DEF Vu
      <4>5. Marque("efface", c, v) = Marque("efface", c, w) BY <4>1, <4>2 DEF Marque
      <4>6. v = w BY <4>4, <4>5 DEF Accord, Unicite
      <4>7. v.cause = w.cause BY <4>6
      <4> QED BY <3>1, <4>1, <4>2, <4>7, <2>4, <2>5
    <3>2. CASE ~Efface(q, c)
      <4>1. a.efface = "non" /\ b.efface = "non" /\ ~Efface(p, c) BY <3>2, <2>5, <2>6
      <4>2. /\ ~Avant(a.reclamation, c) /\ ~Avant(b.reclamation, c)
            /\ a.reclamation = c => a.alias = SansAlias
            /\ b.reclamation = c => b.alias = SansAlias
        BY <2>2, <4>1 DEF Saine
      <4>3. a.reclamation = b.reclamation BY <3>2, <4>1, <4>2, <2>4, <2>6, OrdreTotal
      <4>4. CASE a.reclamation = c BY <4>1, <4>2, <4>3, <4>4, <2>4
      <4>5. CASE a.reclamation # c
        <5>1. PICK v, w : /\ v = Pretention(a.alias, a.reclamation)
                          /\ w = Pretention(b.alias, b.reclamation)
          OBVIOUS
        <5>2. Tenu(q, "alias", c, v) /\ Tenu(p, "alias", c, w)
          BY <3>2, <4>1, <4>3, <4>5, <5>1, <1>1, <2>1 DEF Tenu, TenuCompte
        <5>3. Vu("alias", c, v) /\ Vu("alias", c, w) BY <5>2 DEF Vu
        <5>4. Marque("alias", c, v) = Marque("alias", c, w)
          BY <4>3, <5>1 DEF Marque, Pretention
        <5>5. v = w BY <5>3, <5>4 DEF Accord, Unicite
        <5>6. v.alias = a.alias /\ w.alias = b.alias BY <5>1 DEF Pretention
        <5> QED BY <4>1, <4>3, <5>5, <5>6, <2>4
      <4> QED BY <4>4, <4>5
    <3> QED BY <3>1, <3>2
  <2>8. ASSUME NEW x \in CompteDe(Emise)
        PROVE  x = [estampille |-> x.estampille, alias |-> x.alias,
                    reclamation |-> x.reclamation, efface |-> x.efface]
    BY DEF CompteDe
  <2>9. a.reclamation = b.reclamation BY <2>4, <2>7
  <2>10. a = b BY <2>2, <2>7, <2>8, <2>9
  <2> QED BY <2>1, <2>10
<1>3. /\ comptes[q] \in [DOMAIN comptes[q] -> CompteDe(Emise)]
      /\ comptes[p] \in [DOMAIN comptes[p] -> CompteDe(Emise)]
  BY DEF IInv, Locale, Rangees, TableDe
<1> QED BY <1>1, <1>2, <1>3

\* A device of q is there on p, and what is known of it.
LEMMA AppareilLaBas ==
  ASSUME IInv, SansSurprise, NEW q \in Racine, NEW p \in Racine, q = Pair[p], Instruit(p),
         comptes[q] = comptes[p], NEW d \in DOMAIN appareils[q]
  PROVE  /\ d \in DOMAIN appareils[p]
         /\ Revoque(q, d) =>
              /\ Revoque(p, d)
              /\ ~Avant(appareils[q][d].revoque, appareils[p][d].revoque)
         /\ appareils[q][d].prouve => appareils[p][d].prouve
         /\ d \in DOMAIN descriptions[q] =>
              d \in DOMAIN descriptions[p] /\ ~Avant(descriptions[p][d], descriptions[q][d])
         /\ d \in DOMAIN points[q] =>
              \/ Revoque(p, d)
              \/ d \in DOMAIN points[p] /\ ~Avant(points[p][d], points[q][d])
<1>1. ~Delaisse(p, d)
  <2>1. PICK c : c = appareils[q][d].proprietaire OBVIOUS
  <2>2. Tenu(q, "appareil", d, c) BY <2>1 DEF Tenu, TenuAppareil
  <2>3. Vu("appareil", d, c) BY <2>2 DEF Vu
  <2>4. ~Efface(q, c) BY <2>1 DEF IInv, Locale, SurvieDe, SansSurprise
  <2>5. ~Efface(p, c) BY <2>4 DEF Efface
  <2> QED BY <2>3, <2>5 DEF Delaisse
<1>2. ASSUME NEW g \in {"appareil", "revoque", "atteste", "description", "point"}, NEW v,
             Tenu(q, g, d, v)
      PROVE  SuAppareil(p, g, d, v)
  BY <1>2 DEF Instruit, Su
<1>3. d \in DOMAIN appareils[p]
  <2>1. Tenu(q, "appareil", d, appareils[q][d].proprietaire) BY DEF Tenu, TenuAppareil
  <2> QED BY <2>1, <1>1, <1>2 DEF SuAppareil, Connu
<1>4. ASSUME Revoque(q, d)
      PROVE  Revoque(p, d) /\ ~Avant(appareils[q][d].revoque, appareils[p][d].revoque)
  <2>1. Tenu(q, "revoque", d, appareils[q][d].revoque) BY <1>4 DEF Tenu, TenuAppareil
  <2> QED BY <2>1, <1>1, <1>2 DEF SuAppareil
<1>5. ASSUME appareils[q][d].prouve PROVE appareils[p][d].prouve
  <2>1. Tenu(q, "atteste", d, d) BY <1>5 DEF Tenu, TenuAppareil
  <2> QED BY <2>1, <1>1, <1>2 DEF SuAppareil
<1>6. ASSUME d \in DOMAIN descriptions[q]
      PROVE  d \in DOMAIN descriptions[p] /\ ~Avant(descriptions[p][d], descriptions[q][d])
  <2>1. Tenu(q, "description", d, descriptions[q][d]) BY <1>6 DEF Tenu
  <2> QED BY <2>1, <1>1, <1>2 DEF SuAppareil
<1>7. ASSUME d \in DOMAIN points[q]
      PROVE  \/ Revoque(p, d)
             \/ d \in DOMAIN points[p] /\ ~Avant(points[p][d], points[q][d])
  <2>1. Tenu(q, "point", d, points[q][d]) BY <1>7 DEF Tenu
  <2> QED BY <2>1, <1>1, <1>2 DEF SuAppareil
<1> QED BY <1>3, <1>4, <1>5, <1>6, <1>7

LEMMA MemesAppareilsAuRepos ==
  ASSUME IInv, Accord, SansSurprise, NEW q \in Racine, NEW p \in Racine,
         q = Pair[p], p = Pair[q], Instruit(p), Instruit(q), comptes[q] = comptes[p]
  PROVE  /\ appareils[q] = appareils[p] /\ descriptions[q] = descriptions[p]
         /\ points[q] = points[p]
<1>1. Rangees(q, Emise) /\ Rangees(p, Emise) BY DEF IInv, Locale
<1>2. Emise \subseteq Estampille BY DEF Emise
<1>3. DOMAIN appareils[q] = DOMAIN appareils[p] BY AppareilLaBas
<1>4. ASSUME NEW d \in DOMAIN appareils[q] PROVE appareils[q][d] = appareils[p][d]
  <2>1. PICK a, b : a = appareils[q][d] /\ b = appareils[p][d] OBVIOUS
  <2>2. a \in AppareilDe(Emise) /\ b \in AppareilDe(Emise) BY <1>3, <2>1, Reflexes
  <2>3. a.proprietaire = b.proprietaire
    <3>1. Tenu(q, "appareil", d, a.proprietaire) /\ Tenu(p, "appareil", d, b.proprietaire)
      BY <1>3, <2>1 DEF Tenu, TenuAppareil
    <3>2. Vu("appareil", d, a.proprietaire) /\ Vu("appareil", d, b.proprietaire)
      BY <3>1 DEF Vu
    <3>3. Marque("appareil", d, a.proprietaire) = Marque("appareil", d, b.proprietaire)
      BY DEF Marque
    <3> QED BY <3>2, <3>3 DEF Accord, Unicite
  <2>4. a.prouve = b.prouve
    <3>1. a.prouve <=> b.prouve BY <1>3, <2>1, AppareilLaBas
    <3>2. a.prouve \in BOOLEAN /\ b.prouve \in BOOLEAN BY <2>2 DEF AppareilDe
    <3> QED BY <3>1, <3>2
  <2>5. a.revoque = b.revoque
    <3>1. /\ a.revoque # Aucune => b.revoque # Aucune /\ ~Avant(a.revoque, b.revoque)
          /\ b.revoque # Aucune => a.revoque # Aucune /\ ~Avant(b.revoque, a.revoque)
      BY <1>3, <2>1, AppareilLaBas DEF Revoque
    <3>2. /\ a.revoque # Aucune => a.revoque \in Estampille
          /\ b.revoque # Aucune => b.revoque \in Estampille
      BY <1>2, <2>2 DEF AppareilDe
    <3> QED BY <3>1, <3>2, OrdreTotal
  <2>6. ASSUME NEW x \in AppareilDe(Emise)
        PROVE  x = [proprietaire |-> x.proprietaire, prouve |-> x.prouve, revoque |-> x.revoque]
    BY DEF AppareilDe
  <2>7. a = b BY <2>2, <2>3, <2>4, <2>5, <2>6
  <2> QED BY <2>1, <2>7
<1>5. appareils[q] = appareils[p]
  <2>1. /\ appareils[q] \in [DOMAIN appareils[q] -> AppareilDe(Emise)]
        /\ appareils[p] \in [DOMAIN appareils[p] -> AppareilDe(Emise)]
    BY <1>1 DEF Rangees, TableDe
  <2> QED BY <2>1, <1>3, <1>4
<1>6. /\ DOMAIN descriptions[q] \subseteq DOMAIN appareils[q]
      /\ DOMAIN descriptions[p] \subseteq DOMAIN appareils[p]
      /\ \A d \in DOMAIN points[q] : d \in DOMAIN appareils[q] /\ ~Revoque(q, d)
      /\ \A d \in DOMAIN points[p] : d \in DOMAIN appareils[p] /\ ~Revoque(p, d)
  BY DEF IInv, Locale, SurvieDe, PointsDe, SansSurprise, Revoque
<1>7. \A d : Revoque(q, d) <=> Revoque(p, d) BY <1>5 DEF Revoque
<1>8. /\ descriptions[q] \in [DOMAIN descriptions[q] -> Estampille]
      /\ descriptions[p] \in [DOMAIN descriptions[p] -> Estampille]
      /\ points[q] \in [DOMAIN points[q] -> Estampille]
      /\ points[p] \in [DOMAIN points[p] -> Estampille]
  BY <1>1, <1>2 DEF Rangees, TableDe
<1>9. descriptions[q] = descriptions[p]
  <2>1. DOMAIN descriptions[q] = DOMAIN descriptions[p] BY <1>6, AppareilLaBas
  <2>2. ASSUME NEW d \in DOMAIN descriptions[q]
        PROVE  descriptions[q][d] = descriptions[p][d]
    <3>1. /\ ~Avant(descriptions[p][d], descriptions[q][d])
          /\ ~Avant(descriptions[q][d], descriptions[p][d])
      BY <2>1, <1>6, AppareilLaBas
    <3>2. descriptions[q][d] \in Estampille /\ descriptions[p][d] \in Estampille
      BY <2>1, <1>8
    <3> QED BY <3>1, <3>2, OrdreTotal
  <2>3. PICK f, g : f = descriptions[q] /\ g = descriptions[p] OBVIOUS
  <2>4. f \in [DOMAIN f -> Estampille] /\ g \in [DOMAIN g -> Estampille] BY <2>3, <1>8
  <2>5. DOMAIN f = DOMAIN g /\ \A d \in DOMAIN f : f[d] = g[d] BY <2>1, <2>2, <2>3
  <2>6. f = g BY <2>4, <2>5
  <2> QED BY <2>3, <2>6
<1>10. points[q] = points[p]
  <2>1. DOMAIN points[q] = DOMAIN points[p] BY <1>6, <1>7, AppareilLaBas
  <2>2. ASSUME NEW d \in DOMAIN points[q] PROVE points[q][d] = points[p][d]
    <3>1. d \in DOMAIN appareils[q] /\ d \in DOMAIN appareils[p] BY <2>1, <1>6
    <3>2. ~Revoque(q, d) /\ ~Revoque(p, d) BY <2>1, <1>6
    <3>3. ~Avant(points[p][d], points[q][d]) /\ ~Avant(points[q][d], points[p][d])
      BY <2>1, <3>1, <3>2, AppareilLaBas
    <3>4. points[q][d] \in Estampille /\ points[p][d] \in Estampille BY <2>1, <1>8
    <3> QED BY <3>3, <3>4, OrdreTotal
  <2>3. PICK f, g : f = points[q] /\ g = points[p] OBVIOUS
  <2>4. f \in [DOMAIN f -> Estampille] /\ g \in [DOMAIN g -> Estampille] BY <2>3, <1>8
  <2>5. DOMAIN f = DOMAIN g /\ \A d \in DOMAIN f : f[d] = g[d] BY <2>1, <2>2, <2>3
  <2>6. f = g BY <2>4, <2>5
  <2> QED BY <2>3, <2>6
<1> QED BY <1>5, <1>9, <1>10

LEMMA AccordAuRepos == IInv /\ AccordTenu => RacinesDAccord
<1> SUFFICES ASSUME IInv, AccordTenu, ToutRecu, SansSurprise, NEW r \in Racine
             PROVE  /\ comptes[r] = comptes[Pair[r]]
                    /\ reclamations[r] = reclamations[Pair[r]]
                    /\ appareils[r] = appareils[Pair[r]]
                    /\ descriptions[r] = descriptions[Pair[r]]
                    /\ points[r] = points[Pair[r]]
  BY DEF RacinesDAccord
<1>1. Accord BY DEF AccordTenu
<1>2. PICK p : p = Pair[r] OBVIOUS
<1>3. p \in Racine /\ r = Pair[p] BY <1>2, DeuxRacines
<1>4. Instruit(r) /\ Instruit(p) BY <1>1, <1>3, MemesAuRepos DEF ToutRecu
<1>5. comptes[r] = comptes[p] BY <1>1, <1>2, <1>3, <1>4, MemesComptesAuRepos
<1>6. appareils[r] = appareils[p] /\ descriptions[r] = descriptions[p] /\ points[r] = points[p]
  BY <1>1, <1>2, <1>3, <1>4, <1>5, MemesAppareilsAuRepos
<1>7. reclamations[r] = reclamations[p]
  <2>1. AliasDe(r) /\ AliasDe(p) BY <1>3 DEF IInv, Locale
  <2> QED BY <2>1, <1>5 DEF AliasDe
<1> QED BY <1>2, <1>5, <1>6, <1>7

\* Once everything is received, both roots hold the same accounts, aliases, devices,
\* descriptions and push points, whatever crossed on the way, unless the peer erased an
\* account between the two transactions of one of its requests.
THEOREM ComptesRacinesDAccord == Spec => []RacinesDAccord
<1>1. Init => AccordTenu BY InitAccord DEF AccordTenu
<1> QED BY <1>1, SpecIInv, PasAccord, AccordAuRepos, PTL DEF Spec
=============================================================================
