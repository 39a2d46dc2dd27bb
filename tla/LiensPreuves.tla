---------------------------- MODULE LiensPreuves ----------------------------
(***************************************************************************)
(* Proofs about what links a root to the others.                           *)
(*                                                                         *)
(* Voie.tla, the path between two roots, for any set of roots that come in *)
(* pairs, any part size and any value of the bounds: the types, the        *)
(* inductive invariant Inv (VoieInvariant.tla) with the safety properties  *)
(* that follow from it, then what speaks of steps: nothing moves back, and *)
(* the refinement of Rattrapage.tla.                                       *)
(*                                                                         *)
(* Sessions.tla, the connections: its types, the role of a connection, that *)
(* a challenge counts once, and that the order to close a connection whose *)
(* key is withdrawn is never lost.                                         *)
(***************************************************************************)
EXTENDS VoieInvariant, Sessions, TLAPS

\* The rest of this module uses these facts about the topology everywhere.
LEMMA Paires ==
  ASSUME NEW r \in Racine
  PROVE  /\ Pair[r] \in Racine
         /\ Pair[r] # r
         /\ Pair[Pair[r]] = r
BY VoieAssumption

\* What the type invariant says of one root.
LEMMA Types ==
  ASSUME TypeOK, NEW s \in Racine
  PROVE  /\ compteur[s] \in Nat /\ ecrit[s] \in Nat /\ retirees[s] \in Nat
         /\ curseur[s] \in Nat /\ derniere[s] \in Nat
         /\ rangees[s] \in SUBSET Estampille /\ operations[s] \in SUBSET Nat
         /\ aVenir[s] \in SUBSET Estampille /\ transit[s] \in SUBSET Estampille
         /\ coupe[s] \in Nat /\ portes[s] \in Nat /\ servi[s] \in Nat /\ vu[s] \in Nat
         /\ pannes \in Nat
BY DEF TypeOK

\* The maximum of two counters.
LEMMA LePlusHautDeDeux ==
  ASSUME NEW a \in Nat, NEW b \in Nat
  PROVE  /\ LePlusHaut(a, b) \in {a, b}
         /\ LePlusHaut(a, b) \in Nat
         /\ LePlusHaut(a, b) >= a
         /\ LePlusHaut(a, b) >= b
BY DEF LePlusHaut

\* Every action keeps the types: the store's part of it.
LEMMA TypeMagasin ==
  ASSUME TypeOK, NEW r \in Racine, Magasin(r)
  PROVE  TypeOK'
<1>1. CASE Ecrire(r)
  <2> DEFINE n == compteur[r] + 1
  <2>6. compteur[r] \in Nat /\ ecrit[r] \in Nat
    BY Types
  <2>7. n \in Nat
    BY <2>6
  <2> HIDE DEF n
  <2>1. n \in Nat /\ LePlusHaut(ecrit[r], n) \in Nat
    BY <2>6, <2>7, LePlusHautDeDeux
  <2>2. [compteur |-> n, racine |-> r] \in Estampille
    BY <2>1 DEF Estampille
  <2>3. compteur' \in [Racine -> Nat] /\ ecrit' \in [Racine -> Nat]
    BY <1>1, <2>1 DEF TypeOK, Ecrire, n, Hisser
  <2>4. rangees' \in [Racine -> SUBSET Estampille]
    BY <1>1, <2>2 DEF TypeOK, Ecrire, n
  <2>5. operations' \in [Racine -> SUBSET Nat]
    BY <1>1, <2>1 DEF TypeOK, Ecrire, n
  <2> QED BY <1>1, <2>3, <2>4, <2>5 DEF TypeOK, Ecrire, flux
<1>2. CASE Prevenir(r)
  <2>1. PICK e \in Ecrites(r, rangees[r]) :
          derniere' = [derniere EXCEPT ![r] = e.compteur] /\ UNCHANGED <<entrepot, phase, flux, pannes>>
    BY <1>2 DEF Prevenir
  <2>4. rangees[r] \subseteq Estampille
    BY DEF TypeOK
  <2>2. e.compteur \in Nat
    BY <2>1, <2>4 DEF Ecrites, Estampille
  <2>3. derniere' \in [Racine -> Nat]
    BY <2>1, <2>2 DEF TypeOK
  <2> QED BY <2>1, <2>3 DEF TypeOK, entrepot, flux
<1>3. CASE Expirer(r)
  <2>1. PICK n \in operations[r] :
          /\ operations' = [operations EXCEPT ![r] = {c \in @ : c > n}]
          /\ retirees'   = [retirees   EXCEPT ![r] = LePlusHaut(@, n)]
    BY <1>3 DEF Expirer, Hisser
  <2>2. n \in Nat /\ LePlusHaut(retirees[r], n) \in Nat
    BY DEF TypeOK, LePlusHaut
  <2>3. operations' \in [Racine -> SUBSET Nat] /\ retirees' \in [Racine -> Nat]
    BY <2>1, <2>2 DEF TypeOK
  <2> QED BY <1>3, <2>3 DEF TypeOK, Expirer, flux
<1> QED BY <1>1, <1>2, <1>3 DEF Magasin

\* A stream given up keeps the types of what it held.
LEMMA TypeSansFlux ==
  ASSUME TypeOK, NEW S, SansFlux(S)
  PROVE  /\ aVenir'  \in [Racine -> SUBSET Estampille]
         /\ transit' \in [Racine -> SUBSET Estampille]
         /\ fin'     \in [Racine -> {"sans", "a venir", "en transit"}]
         /\ coupe'   \in [Racine -> Nat]
         /\ portes'  \in [Racine -> Nat]
         /\ servi'   \in [Racine -> Nat]
         /\ vu'      \in [Racine -> Nat]
         /\ clos'    \in [Racine -> BOOLEAN]
         /\ lus'     \in [Racine -> BOOLEAN]
BY DEF TypeOK, SansFlux

\* A set of counters of q, read as stamps.
LEMMA Estampilles ==
  ASSUME NEW q \in Racine, NEW S \in SUBSET Nat
  PROVE  {[compteur |-> c, racine |-> q] : c \in S} \in SUBSET Estampille
BY DEF Estampille

\* Opening a session or a stream, and reading a snapshot, keep the types.
LEMMA TypeOuvrir ==
  ASSUME TypeOK, NEW r \in Racine,
         \/ OuvrirLaSession(r) \/ OuvrirLesOperations(r) \/ RepondreHorsJournal(r)
         \/ OuvrirLInstantane(r) \/ LireLInstantane(r) \/ EchouerALire(r)
  PROVE  TypeOK'
<1> Pair[r] \in Racine
  BY Paires
<1>1. CASE OuvrirLaSession(r)
  BY <1>1 DEF TypeOK, OuvrirLaSession, Phase, entrepot, flux
<1>2. CASE OuvrirLesOperations(r)
  <2> DEFINE suite == SuiteApres(Pair[r], curseur[r])
             cadres == {[compteur |-> c, racine |-> Pair[r]] : c \in suite}
  <2>1. suite \in SUBSET Nat /\ curseur[r] \in Nat /\ derniere[Pair[r]] \in Nat
    BY DEF TypeOK, SuiteApres
  <2>2. cadres \in SUBSET Estampille
    BY <2>1, Estampilles
  <2>3. /\ aVenir' = [aVenir EXCEPT ![r] = cadres]
        /\ phase'  = [phase EXCEPT ![r] = "operations"]
        /\ vu'     = [vu EXCEPT ![r] = derniere[Pair[r]]]
    BY <1>2, <2>1 DEF OuvrirLesOperations
  <2>4. aVenir' \in [Racine -> SUBSET Estampille]
    BY <2>2, <2>3 DEF TypeOK
  <2>9. PICK dernier \in suite \cup {curseur[r]} : servi' = [servi EXCEPT ![r] = dernier]
    BY <1>2 DEF OuvrirLesOperations
  <2>5. servi' \in [Racine -> Nat] /\ vu' \in [Racine -> Nat] /\ phase' \in [Racine -> Phase]
    BY <2>1, <2>3, <2>9 DEF TypeOK, Phase
  <2>6. /\ transit' \in [Racine -> SUBSET Estampille]
        /\ fin'     \in [Racine -> {"sans", "a venir", "en transit"}]
        /\ coupe'   \in [Racine -> Nat]
        /\ portes'  \in [Racine -> Nat]
    BY <1>2 DEF TypeOK, OuvrirLesOperations
  <2>7. clos' \in [Racine -> BOOLEAN] /\ lus' \in [Racine -> BOOLEAN]
    BY <1>2 DEF TypeOK, OuvrirLesOperations
  <2>8. UNCHANGED <<entrepot, derniere, pannes>>
    BY <1>2 DEF OuvrirLesOperations
  <2> QED BY <2>4, <2>5, <2>6, <2>7, <2>8 DEF TypeOK, entrepot
<1>3. CASE RepondreHorsJournal(r)
  BY <1>3, TypeSansFlux DEF TypeOK, RepondreHorsJournal, Phase, entrepot
<1>4. CASE OuvrirLInstantane(r)
  BY <1>4 DEF TypeOK, OuvrirLInstantane, Phase, entrepot
<1>5. CASE LireLInstantane(r)
  BY <1>5 DEF TypeOK, LireLInstantane, Phase, entrepot
<1>6. CASE EchouerALire(r)
  <2>1. pannes' = pannes + 1
    BY <1>6 DEF EchouerALire
  <2>3. pannes' \in Nat
    BY <2>1, Types
  <2>2. phase' \in [Racine -> Phase] /\ clos' \in [Racine -> BOOLEAN]
    BY <1>6 DEF TypeOK, EchouerALire, Phase
  <2> QED BY <1>6, <2>3, <2>2 DEF TypeOK, EchouerALire, entrepot
<1> QED BY <1>1, <1>2, <1>3, <1>4, <1>5, <1>6

\* Framing, closing and following the journal keep the types.
LEMMA TypeServir ==
  ASSUME TypeOK, NEW r \in Racine, Cadrer(r) \/ Clore(r) \/ SuivreLeJournal(r)
  PROVE  TypeOK'
<1> Pair[r] \in Racine
  BY Paires
<1>1. CASE Cadrer(r)
  <2>1. portes' \in [Racine -> Nat]
    <3>1. portes' = [portes EXCEPT ![r] = @ + 1]
      BY <1>1 DEF Cadrer
    <3>2. portes[r] + 1 \in Nat
      BY Types
    <3> QED BY <3>1, <3>2 DEF TypeOK
  <2>2. /\ aVenir'  \in [Racine -> SUBSET Estampille]
        /\ transit' \in [Racine -> SUBSET Estampille]
        /\ fin'     \in [Racine -> {"sans", "a venir", "en transit"}]
    <3>1. CASE \E e \in aVenir[r] :
                 /\ aVenir'  = [aVenir  EXCEPT ![r] = @ \ {e}]
                 /\ transit' = [transit EXCEPT ![r] = @ \cup {e}]
                 /\ UNCHANGED fin
      <4>1. PICK e \in aVenir[r] :
                 /\ aVenir'  = [aVenir  EXCEPT ![r] = @ \ {e}]
                 /\ transit' = [transit EXCEPT ![r] = @ \cup {e}]
        BY <3>1
      <4>2. aVenir[r] \ {e} \in SUBSET Estampille /\ transit[r] \cup {e} \in SUBSET Estampille
        BY Types
      <4>3. aVenir' \in [Racine -> SUBSET Estampille]
        BY <4>1, <4>2 DEF TypeOK
      <4>4. transit' \in [Racine -> SUBSET Estampille]
        BY <4>1, <4>2 DEF TypeOK
      <4> QED BY <3>1, <4>3, <4>4 DEF TypeOK
    <3>2. CASE fin' = [fin EXCEPT ![r] = "en transit"] /\ UNCHANGED <<aVenir, transit>>
      BY <3>2 DEF TypeOK
    <3> QED BY <1>1, <3>1, <3>2 DEF Cadrer
  <2>3. UNCHANGED <<entrepot, derniere, phase, coupe, servi, vu, clos, lus, pannes>>
    BY <1>1 DEF Cadrer
  <2> QED BY <2>1, <2>2, <2>3 DEF TypeOK, entrepot
<1>2. CASE Clore(r)
  <2>1. aVenir' \in [Racine -> SUBSET Estampille]
    BY <1>2 DEF TypeOK, Clore
  <2>2. clos' \in [Racine -> BOOLEAN]
    BY <1>2 DEF TypeOK, Clore
  <2> QED BY <1>2, <2>1, <2>2 DEF TypeOK, Clore, entrepot
<1>3. CASE SuivreLeJournal(r)
  <2> DEFINE suite == SuiteApres(Pair[r], servi[r])
             cadres == {[compteur |-> c, racine |-> Pair[r]] : c \in suite}
  <2>1. UNCHANGED <<entrepot, derniere, phase, transit, fin, coupe, portes, lus, pannes>>
    BY <1>3 DEF SuivreLeJournal
  <2>4. servi[r] \in Nat /\ retirees[Pair[r]] \in Nat
    BY Types
  <2>2. CASE servi[r] >= retirees[Pair[r]]
    <3>1. suite \in SUBSET Nat /\ servi[r] \in Nat /\ derniere[Pair[r]] \in Nat
      BY Types DEF SuiteApres
    <3>2. cadres \in SUBSET Estampille
      BY <3>1, Estampilles
    <3>3. PICK dernier \in suite \cup {servi[r]} : servi' = [servi EXCEPT ![r] = dernier]
      BY <1>3, <2>2, <2>4 DEF SuivreLeJournal, JournalRemonte, SuiteApres
    <3>4. /\ aVenir' = [aVenir EXCEPT ![r] = cadres]
          /\ vu' = [vu EXCEPT ![r] = derniere[Pair[r]]]
          /\ UNCHANGED clos
      BY <1>3, <2>2, <2>4 DEF SuivreLeJournal, JournalRemonte, SuiteApres
    <3>5. aVenir' \in [Racine -> SUBSET Estampille]
      BY <3>2, <3>4 DEF TypeOK
    <3>6. servi' \in [Racine -> Nat] /\ vu' \in [Racine -> Nat]
      BY <3>1, <3>3, <3>4 DEF TypeOK
    <3> QED BY <2>1, <3>4, <3>5, <3>6 DEF TypeOK, entrepot
  <2>3. CASE ~(servi[r] >= retirees[Pair[r]])
    <3>1. clos' = [clos EXCEPT ![r] = TRUE] /\ UNCHANGED <<vu, aVenir, servi>>
      BY <1>3, <2>3 DEF SuivreLeJournal, JournalRemonte, SuiteApres
    <3> QED BY <2>1, <3>1 DEF TypeOK, entrepot
  <2> QED BY <2>2, <2>3
<1> QED BY <1>1, <1>2, <1>3

\* Storing a stamp keeps the types.
LEMMA TypeRanger ==
  ASSUME TypeOK, NEW r \in Racine, NEW e \in Estampille, Ranger(r, e)
  PROVE  /\ rangees'  \in [Racine -> SUBSET Estampille]
         /\ compteur' \in [Racine -> Nat]
         /\ ecrit'    \in [Racine -> Nat]
<1>1. e.compteur \in Nat
  BY DEF Estampille
<1>2. /\ LePlusHaut(compteur[r], e.compteur) \in Nat
      /\ LePlusHaut(ecrit[r], e.compteur) \in Nat
  BY <1>1, Types, LePlusHautDeDeux
<1> QED BY <1>2 DEF TypeOK, Ranger, Hisser

\* What the puller does with what it reads keeps the types.
LEMMA TypeAppliquer ==
  ASSUME TypeOK, NEW r \in Racine,
         \/ AppliquerUneOperation(r) \/ AppliquerDeLInstantane(r)
         \/ AppliquerLaFin(r) \/ FinirLeFlux(r)
  PROVE  TypeOK'
<1>1. CASE AppliquerUneOperation(r)
  <2>1. PICK e \in transit[r] :
          /\ transit' = [transit EXCEPT ![r] = @ \ {e}]
          /\ \/ UNCHANGED <<rangees, compteur, ecrit, curseur>>
             \/ Ranger(r, e) /\ curseur' = [curseur EXCEPT ![r] = LePlusHaut(@, e.compteur)]
    BY <1>1 DEF AppliquerUneOperation, Hisser
  <2>2. e \in Estampille /\ e.compteur \in Nat /\ curseur[r] \in Nat
    BY Types DEF Estampille
  <2>3. LePlusHaut(curseur[r], e.compteur) \in Nat
    BY <2>2, LePlusHautDeDeux
  <2>4. /\ rangees' \in [Racine -> SUBSET Estampille] /\ compteur' \in [Racine -> Nat]
        /\ ecrit' \in [Racine -> Nat] /\ curseur' \in [Racine -> Nat]
    <3>1. CASE UNCHANGED <<rangees, compteur, ecrit, curseur>>
      BY <3>1 DEF TypeOK
    <3>2. CASE Ranger(r, e) /\ curseur' = [curseur EXCEPT ![r] = LePlusHaut(@, e.compteur)]
      <4>1. curseur' \in [Racine -> Nat]
        BY <3>2, <2>3 DEF TypeOK
      <4> QED BY <3>2, <4>1, <2>2, TypeRanger
    <3> QED BY <2>1, <3>1, <3>2
  <2>5. transit' \in [Racine -> SUBSET Estampille]
    BY <2>1 DEF TypeOK
  <2>6. lus' \in [Racine -> BOOLEAN]
    BY <1>1 DEF TypeOK, AppliquerUneOperation
  <2>7. UNCHANGED <<operations, retirees, derniere, phase, aVenir, fin, coupe, portes,
                    servi, vu, clos, pannes>>
    BY <1>1 DEF AppliquerUneOperation
  <2> QED BY <2>4, <2>5, <2>6, <2>7 DEF TypeOK
<1>2. CASE AppliquerDeLInstantane(r)
  <2>1. PICK e \in transit[r] : transit' = [transit EXCEPT ![r] = @ \ {e}] /\ Ranger(r, e)
    BY <1>2 DEF AppliquerDeLInstantane
  <2>2. e \in Estampille
    BY Types
  <2>3. /\ rangees' \in [Racine -> SUBSET Estampille] /\ compteur' \in [Racine -> Nat]
        /\ ecrit' \in [Racine -> Nat]
    BY <2>1, <2>2, TypeRanger
  <2>4. transit' \in [Racine -> SUBSET Estampille] /\ lus' \in [Racine -> BOOLEAN]
    BY <1>2, <2>1 DEF TypeOK, AppliquerDeLInstantane
  <2>5. UNCHANGED <<operations, retirees, curseur, derniere, phase, aVenir, fin, coupe,
                    portes, servi, vu, clos, pannes>>
    BY <1>2 DEF AppliquerDeLInstantane
  <2> QED BY <2>3, <2>4, <2>5 DEF TypeOK
<1>3. CASE AppliquerLaFin(r)
  <2>1. LePlusHaut(compteur[r], coupe[r]) \in Nat /\ LePlusHaut(curseur[r], coupe[r]) \in Nat
    BY Types, LePlusHautDeDeux
  <2>2. compteur' \in [Racine -> Nat] /\ curseur' \in [Racine -> Nat]
    BY <1>3, <2>1 DEF TypeOK, AppliquerLaFin, Hisser
  <2>3. phase' \in [Racine -> Phase]
    BY <1>3 DEF TypeOK, AppliquerLaFin, Phase
  <2>4. SansFlux({r}) /\ UNCHANGED <<ecrit, rangees, operations, retirees, derniere, pannes>>
    BY <1>3 DEF AppliquerLaFin
  <2> QED BY <2>2, <2>3, <2>4, TypeSansFlux DEF TypeOK
<1>4. CASE FinirLeFlux(r)
  <2>1. phase' \in [Racine -> Phase] /\ UNCHANGED <<entrepot, derniere, pannes>>
    BY <1>4 DEF TypeOK, FinirLeFlux, Phase
  <2>2. CASE SansFlux({r})
    BY <2>1, <2>2, TypeSansFlux DEF TypeOK, entrepot
  <2>3. CASE /\ clos' = [clos EXCEPT ![r] = FALSE]
             /\ UNCHANGED <<aVenir, transit, fin, coupe, portes, servi, vu, lus>>
    BY <2>1, <2>3 DEF TypeOK, entrepot
  <2> QED BY <1>4, <2>2, <2>3 DEF FinirLeFlux
<1> QED BY <1>1, <1>2, <1>3, <1>4

\* A cut connection and a restart keep the types.
LEMMA TypePanne ==
  ASSUME TypeOK, NEW r \in Racine, Couper(r) \/ Redemarrer(r)
  PROVE  TypeOK'
<1>1. pannes' \in Nat
  BY Types DEF Couper, Redemarrer
<1>2. CASE Couper(r)
  <2>1. phase' \in [Racine -> Phase]
    BY <1>2 DEF TypeOK, Couper, Phase
  <2> QED BY <1>1, <1>2, <2>1, TypeSansFlux DEF TypeOK, Couper, entrepot
<1>3. CASE Redemarrer(r)
  <2>1. phase' \in [Racine -> Phase]
    BY <1>3 DEF TypeOK, Redemarrer, Phase
  <2>2. derniere' \in [Racine -> Nat]
    BY <1>3, Types DEF TypeOK, Redemarrer
  <2>3. SansFlux({r, Pair[r]}) /\ UNCHANGED entrepot
    BY <1>3 DEF Redemarrer
  <2> QED BY <1>1, <2>1, <2>2, <2>3, TypeSansFlux DEF TypeOK, entrepot
<1> QED BY <1>2, <1>3

\* Every variable keeps its type.
THEOREM TypeCorrect == Spec => []TypeOK
<1>1. Init => TypeOK
  BY DEF Init, TypeOK, Phase
<1>2. TypeOK /\ [Next]_vars => TypeOK'
  <2> SUFFICES ASSUME TypeOK, [Next]_vars PROVE TypeOK'
    OBVIOUS
  <2>1. ASSUME NEW r \in Racine, Magasin(r) PROVE TypeOK'
    BY <2>1, TypeMagasin
  <2>2. ASSUME NEW r \in Racine, Tirer(r) PROVE TypeOK'
    BY <2>2, TypeOuvrir, TypeServir, TypeAppliquer DEF Tirer
  <2>3. ASSUME NEW r \in Racine, Panne(r) PROVE TypeOK'
    BY <2>3, TypeOuvrir, TypePanne DEF Panne
  <2>4. CASE UNCHANGED vars
    BY <2>4 DEF TypeOK, vars, entrepot, flux
  <2> QED BY <2>1, <2>2, <2>3, <2>4 DEF Next
<1> QED BY <1>1, <1>2, PTL DEF Spec

-----------------------------------------------------------------------------
(* The inductive invariant.                                                *)

\* The stream r reads, as far as Inv speaks of it, does not change.
MemeFlux(r) ==
  /\ phase'[r] = phase[r]   /\ aVenir'[r] = aVenir[r] /\ transit'[r] = transit[r]
  /\ fin'[r]   = fin[r]     /\ coupe'[r]  = coupe[r]  /\ servi'[r]   = servi[r]
  /\ clos'[r]  = clos[r]

\* The store of r, as far as Inv speaks of it, does not change.
MemeMagasin(r) ==
  /\ compteur'[r]   = compteur[r]   /\ ecrit'[r]    = ecrit[r]    /\ rangees'[r] = rangees[r]
  /\ operations'[r] = operations[r] /\ retirees'[r] = retirees[r] /\ curseur'[r] = curseur[r]

\* What is invariant of the stream alone.
SessionDe(r) == FluxDe(r) /\ SuiteDe(r) /\ InstantaneDe(r)

\* The variables are functions on the roots.
LEMMA Domaines ==
  ASSUME TypeOK
  PROVE  /\ DOMAIN compteur = Racine /\ DOMAIN ecrit = Racine /\ DOMAIN rangees = Racine
         /\ DOMAIN operations = Racine /\ DOMAIN retirees = Racine /\ DOMAIN curseur = Racine
         /\ DOMAIN phase = Racine /\ DOMAIN aVenir = Racine /\ DOMAIN transit = Racine
         /\ DOMAIN fin = Racine /\ DOMAIN coupe = Racine /\ DOMAIN servi = Racine
         /\ DOMAIN clos = Racine
BY DEF TypeOK

\* A root whose store, peer's store and stream are left alone keeps its part.
LEMMA Ailleurs ==
  ASSUME NEW s \in Racine, InvDe(s), MemeFlux(s), MemeMagasin(s), MemeMagasin(Pair[s])
  PROVE  InvDe(s)'
<1>1. HorlogeDe(s)' /\ JournalDe(s)' /\ SansTrouDe(s)'
  BY DEF InvDe, HorlogeDe, JournalDe, SansTrouDe, Ecrites, MemeMagasin
<1>2. FluxDe(s)'
  BY DEF InvDe, FluxDe, MemeFlux, MemeMagasin
<1>3. SuiteDe(s)'
  BY DEF InvDe, SuiteDe, Ecrites, MemeFlux, MemeMagasin
<1>4. InstantaneDe(s)'
  BY DEF InvDe, InstantaneDe, Ecrites, MemeFlux, MemeMagasin
<1> QED BY <1>1, <1>2, <1>3, <1>4 DEF InvDe

\* A step of the session of r that leaves the stores alone: only what Inv says
\* of the stream of r is left to prove.
LEMMA PasDeSession ==
  ASSUME Inv, TypeOK', NEW r \in Racine, UNCHANGED entrepot,
         \A s \in Racine \ {r} : MemeFlux(s),
         SessionDe(r)'
  PROVE  Inv'
<1>1. ASSUME NEW s \in Racine PROVE MemeMagasin(s)
  BY DEF entrepot, MemeMagasin
<1>2. ASSUME NEW s \in Racine PROVE InvDe(s)'
  <2>1. CASE s = r
    <3>1. HorlogeDe(s)' /\ JournalDe(s)' /\ SansTrouDe(s)'
      BY DEF Inv, InvDe, HorlogeDe, JournalDe, SansTrouDe, Ecrites, entrepot
    <3> QED BY <3>1, <2>1 DEF InvDe, SessionDe
  <2>2. CASE s # r
    BY <2>2, <1>1, Ailleurs, Paires DEF Inv
  <2> QED BY <2>1, <2>2
<1> QED BY <1>2 DEF Inv

\* An empty stream satisfies everything Inv says of one.
LEMMA FluxVide ==
  ASSUME TypeOK', NEW s \in Racine, phase'[s] \in {"coupee", "ouverte", "amorcage"},
         aVenir'[s] = {}, transit'[s] = {}, fin'[s] = "sans", coupe'[s] = 0
  PROVE  SessionDe(s)'
<1>1. compteur'[Pair[s]] \in Nat
  <2>1. compteur' \in [Racine -> Nat]
    BY DEF TypeOK
  <2> QED BY <2>1, Paires
<1> QED BY <1>1 DEF SessionDe, FluxDe, SuiteDe, InstantaneDe

\* Giving up a stream.
LEMMA FluxAbandonne ==
  ASSUME TypeOK, TypeOK', NEW S \in SUBSET Racine, SansFlux(S)
  PROVE  /\ \A s \in S : phase'[s] \in {"coupee", "ouverte", "amorcage"} => SessionDe(s)'
         /\ \A s \in Racine \ S : phase'[s] = phase[s] => MemeFlux(s)
<1>1. ASSUME NEW s \in S, phase'[s] \in {"coupee", "ouverte", "amorcage"}
      PROVE  SessionDe(s)'
  BY <1>1, FluxVide DEF SansFlux
<1>2. ASSUME NEW s \in Racine \ S, phase'[s] = phase[s] PROVE MemeFlux(s)
  BY <1>2 DEF SansFlux, MemeFlux
<1> QED BY <1>1, <1>2

\* Opening the session, the snapshot's stream, or being told 410.
LEMMA InvOuvrir ==
  ASSUME Inv, TypeOK', NEW r \in Racine,
         \/ OuvrirLaSession(r) \/ RepondreHorsJournal(r) \/ OuvrirLInstantane(r)
         \/ LireLInstantane(r) \/ EchouerALire(r)
  PROVE  Inv'
<1> USE DEF Inv
<1>1. InvDe(r) /\ Pair[r] \in Racine /\ InvDe(Pair[r])
  BY Paires
<1>2. CASE OuvrirLaSession(r)
  <2>1. SessionDe(r)'
    <3>1. /\ phase[r] = "coupee" /\ phase' = [phase EXCEPT ![r] = "ouverte"]
          /\ UNCHANGED entrepot /\ UNCHANGED flux
      BY <1>2 DEF OuvrirLaSession
    <3>2. phase'[r] = "ouverte"
      BY <1>1, <3>1, Domaines
    <3>3. FluxDe(r)'
      BY <1>1, <3>1, <3>2 DEF InvDe, FluxDe, flux, entrepot
    <3>4. SuiteDe(r)'
      BY <3>2 DEF SuiteDe
    <3>5. InstantaneDe(r)'
      BY <1>1, <3>1 DEF InvDe, InstantaneDe, Ecrites, flux, entrepot
    <3> QED BY <3>3, <3>4, <3>5 DEF SessionDe
  <2>2. \A s \in Racine \ {r} : MemeFlux(s)
    BY <1>2, Domaines DEF OuvrirLaSession, MemeFlux, flux
  <2> QED BY <1>2, <2>1, <2>2, PasDeSession DEF OuvrirLaSession
<1>3. CASE RepondreHorsJournal(r)
  <2>1. SansFlux({r}) /\ phase' = [phase EXCEPT ![r] = "amorcage"] /\ UNCHANGED entrepot
    BY <1>3 DEF RepondreHorsJournal
  <2>2. phase'[r] = "amorcage" /\ \A s \in Racine \ {r} : phase'[s] = phase[s]
    BY <2>1 DEF TypeOK
  <2> QED BY <2>1, <2>2, FluxAbandonne, PasDeSession
<1>4. CASE OuvrirLInstantane(r)
  <2>3. /\ phase[r] = "amorcage"
        /\ phase'[r] = IF fin[r] = "a venir" THEN "instantane" ELSE "preparation"
        /\ aVenir'[r] = aVenir[r] /\ transit'[r] = transit[r]
        /\ fin'[r] = fin[r] /\ coupe'[r] = coupe[r] /\ UNCHANGED entrepot
    BY <1>4, Domaines DEF OuvrirLInstantane
  <2>4. fin[r] \in {"sans", "a venir", "en transit"}
    BY DEF TypeOK
  <2>1. SessionDe(r)'
    BY <1>1, <2>3, <2>4 DEF InvDe, SessionDe, FluxDe, SuiteDe, InstantaneDe, Ecrites, entrepot
  <2>2. \A s \in Racine \ {r} : MemeFlux(s)
    BY <1>4, Domaines DEF OuvrirLInstantane, MemeFlux
  <2> QED BY <1>4, <2>1, <2>2, PasDeSession DEF OuvrirLInstantane
<1>5. CASE LireLInstantane(r)
  <2>1. compteur[Pair[r]] \in Nat
    BY <1>1, Types
  <2>4. /\ phase[r] = "preparation" /\ phase'[r] = "instantane"
        /\ aVenir'[r] = rangees[Pair[r]] /\ transit'[r] = transit[r]
        /\ fin'[r] = "a venir" /\ coupe'[r] = compteur[Pair[r]] /\ UNCHANGED entrepot
    BY <1>5, Domaines DEF LireLInstantane
  <2>7. transit'[r] = {}
    BY <1>1, <2>4 DEF InvDe, FluxDe
  <2>8. compteur' = compteur /\ rangees' = rangees
    BY <2>4 DEF entrepot
  <2>9. coupe'[r] <= compteur'[Pair[r]]
    <3>1. coupe'[r] = compteur[Pair[r]] /\ compteur'[Pair[r]] = compteur[Pair[r]]
      BY <2>4, <2>8
    <3>2. ASSUME NEW x \in Nat PROVE x <= x
      OBVIOUS
    <3> QED BY <2>1, <3>1, <3>2
  <2>10. aVenir'[r] \cup transit'[r] \subseteq rangees'[Pair[r]]
    BY <2>4, <2>7, <2>8
  <2>5. FluxDe(r)'
    BY <2>4, <2>7, <2>9, <2>10 DEF FluxDe
  <2>6. InstantaneDe(r)'
    BY <2>4 DEF InstantaneDe, Ecrites, entrepot
  <2>2. SessionDe(r)'
    BY <2>4, <2>5, <2>6 DEF SessionDe, SuiteDe
  <2>3. \A s \in Racine \ {r} : MemeFlux(s)
    BY <1>5, Domaines DEF LireLInstantane, MemeFlux
  <2> QED BY <1>5, <2>2, <2>3, PasDeSession DEF LireLInstantane
<1>6. CASE EchouerALire(r)
  <2>3. /\ phase[r] = "preparation" /\ phase'[r] = "instantane"
        /\ aVenir'[r] = aVenir[r] /\ transit'[r] = transit[r]
        /\ fin'[r] = fin[r] /\ coupe'[r] = coupe[r] /\ UNCHANGED entrepot
    BY <1>6, Domaines DEF EchouerALire
  <2>1. SessionDe(r)'
    BY <1>1, <2>3 DEF InvDe, SessionDe, FluxDe, SuiteDe, InstantaneDe, Ecrites, entrepot
  <2>2. \A s \in Racine \ {r} : MemeFlux(s)
    BY <1>6, Domaines DEF EchouerALire, MemeFlux
  <2> QED BY <1>6, <2>1, <2>2, PasDeSession DEF EchouerALire
<1> QED BY <1>2, <1>3, <1>4, <1>5, <1>6

\* Opening the operations stream: what the journal of q holds above the cursor
\* is all q wrote above it, because the journal reaches back to the cursor.
LEMMA InvOuvrirLesOperations ==
  ASSUME Inv, TypeOK', NEW r \in Racine, OuvrirLesOperations(r)
  PROVE  Inv'
<1> DEFINE q == Pair[r]
           suite == SuiteApres(q, curseur[r])
           cadres == {[compteur |-> c, racine |-> q] : c \in suite}
<1>1. /\ TypeOK /\ InvDe(r) /\ q \in Racine /\ InvDe(q) /\ Pair[q] = r
  BY Paires DEF Inv
<1>2. PICK dernier \in suite \cup {curseur[r]} :
        /\ \A c \in suite : c <= dernier
        /\ suite # {} => dernier \in suite
        /\ servi' = [servi EXCEPT ![r] = dernier]
  BY DEF OuvrirLesOperations
<1>3. /\ phase'[r] = "operations" /\ aVenir'[r] = cadres /\ servi'[r] = dernier
      /\ transit'[r] = {} /\ fin'[r] = "sans" /\ coupe'[r] = 0 /\ clos'[r] = FALSE
  BY <1>1, <1>2, Domaines DEF OuvrirLesOperations
<1>4. curseur[r] >= retirees[q] /\ UNCHANGED entrepot
  BY DEF OuvrirLesOperations, JournalRemonte, SuiteApres
<1>5. \A s \in Racine \ {r} : MemeFlux(s)
  BY <1>1, <1>2, Domaines DEF OuvrirLesOperations, MemeFlux
<1>6. /\ curseur[r] \in Nat /\ retirees[q] \in Nat /\ compteur[q] \in Nat /\ suite \in SUBSET Nat
      /\ rangees[q] \in SUBSET Estampille
  BY <1>1, Types DEF SuiteApres
<1>7. \A c \in suite : [compteur |-> c, racine |-> q] \in rangees[q] /\ c <= compteur[q]
  BY <1>1 DEF InvDe, JournalDe, HorlogeDe, SuiteApres
<1>8. \A e \in Ecrites(q, rangees[q]) : e.compteur > curseur[r] => e \in cadres /\ e.compteur \in suite
  <2> SUFFICES ASSUME NEW e \in Ecrites(q, rangees[q]), e.compteur > curseur[r]
               PROVE  e \in cadres /\ e.compteur \in suite
    OBVIOUS
  <2>1. e.compteur \in Nat /\ e = [compteur |-> e.compteur, racine |-> q]
    BY <1>6 DEF Ecrites, Estampille
  <2>2. e.compteur \in suite
    BY <1>1, <1>4, <1>6, <2>1 DEF InvDe, JournalDe, SuiteApres
  <2> QED BY <2>1, <2>2
<1>9. FluxDe(r)'
  BY <1>3, <1>4, <1>6, <1>7 DEF FluxDe, entrepot
<1>10. SuiteDe(r)'
  <2>4. curseur[r] <= compteur[q]
    BY <1>1 DEF InvDe, HorlogeDe
  <2>1. curseur[r] <= dernier /\ dernier <= compteur[q] /\ dernier \in Nat
    <3>1. CASE dernier \in suite
      <4>1. dernier \in Nat /\ dernier > curseur[r] /\ dernier <= compteur[q]
        BY <1>6, <1>7, <3>1 DEF SuiteApres
      <4> QED BY <4>1, <1>6
    <3>2. CASE dernier = curseur[r]
      BY <1>6, <2>4, <3>2
    <3> QED BY <3>1, <3>2
  <2>2. \A e \in cadres : e.racine = q /\ curseur[r] < e.compteur /\ e.compteur <= dernier
    BY <1>2, <1>6 DEF SuiteApres
  <2>3. \A e \in Ecrites(q, rangees[q]) :
          e.compteur <= dernier => e.compteur <= curseur[r] \/ e \in cadres
    BY <1>6, <1>8 DEF Ecrites, Estampille
  <2> HIDE DEF cadres, suite
  <2> QED BY <1>3, <1>4, <2>1, <2>2, <2>3 DEF SuiteDe, Ecrites, entrepot
<1>11. InstantaneDe(r)'
  BY <1>3 DEF InstantaneDe
<1> QED BY <1>4, <1>5, <1>9, <1>10, <1>11, PasDeSession DEF SessionDe

\* Framing: the frame that goes on the wire was the first of those to come.
LEMMA InvCadrer ==
  ASSUME Inv, TypeOK', NEW r \in Racine, Cadrer(r)
  PROVE  Inv'
<1>1. TypeOK /\ InvDe(r)
  BY DEF Inv
<1>2. /\ UNCHANGED entrepot
      /\ phase[r] \in {"operations", "instantane"} /\ ~clos[r] /\ UNCHANGED <<phase, coupe, servi, clos>>
  BY DEF Cadrer
<1>3. CASE \E e \in aVenir[r] :
             /\ EnTete(r, e, aVenir[r])
             /\ aVenir'  = [aVenir  EXCEPT ![r] = @ \ {e}]
             /\ transit' = [transit EXCEPT ![r] = @ \cup {e}]
             /\ UNCHANGED fin
  <2>1. PICK e \in aVenir[r] :
             /\ EnTete(r, e, aVenir[r])
             /\ aVenir'  = [aVenir  EXCEPT ![r] = @ \ {e}]
             /\ transit' = [transit EXCEPT ![r] = @ \cup {e}]
             /\ UNCHANGED fin
    BY <1>3
  <2>2. /\ aVenir'[r] = aVenir[r] \ {e} /\ transit'[r] = transit[r] \cup {e}
        /\ \A s \in Racine \ {r} : aVenir'[s] = aVenir[s] /\ transit'[s] = transit[s]
    BY <1>1, <2>1, Domaines
  <2>3. \A s \in Racine \ {r} : MemeFlux(s)
    BY <1>2, <2>1, <2>2 DEF MemeFlux
  <2>4. FluxDe(r)'
    BY <1>1, <1>2, <2>1, <2>2 DEF InvDe, FluxDe, entrepot
  <2>5. InstantaneDe(r)'
    BY <1>1, <1>2, <2>1, <2>2 DEF InvDe, InstantaneDe, Ecrites, entrepot
  <2>6. SuiteDe(r)'
    <3>1. CASE phase[r] = "operations"
      <4> DEFINE q == Pair[r]
      <4>1. /\ aVenir[r] \in SUBSET Estampille /\ transit[r] \in SUBSET Estampille
            /\ rangees[q] \in SUBSET Estampille
        BY <1>1, Types, Paires
      <4>2. \A f \in aVenir[r] : e.compteur <= f.compteur
        BY <2>1, <3>1 DEF EnTete
      <4>3. \A f \in aVenir'[r] : f.compteur # e.compteur
        <5>1. \A f \in aVenir[r] : f.racine = q
          BY <1>1, <3>1 DEF InvDe, SuiteDe
        <5>2. \A f \in aVenir[r] : f = [compteur |-> f.compteur, racine |-> q]
          BY <4>1, <5>1 DEF Estampille
        <5> QED BY <2>2, <5>2
      <4>4. \A f \in Estampille : f.compteur \in Nat
        BY DEF Estampille
      <4>5. \A f \in aVenir'[r] : e.compteur < f.compteur
        BY <2>2, <4>1, <4>2, <4>3, <4>4
      <4>6. \A g \in transit'[r], f \in aVenir'[r] : g.compteur < f.compteur
        BY <1>1, <2>2, <3>1, <4>5 DEF InvDe, SuiteDe
      <4>7. ASSUME NEW g \in Ecrites(q, rangees[q]) , NEW f \in transit'[r], g.compteur <= f.compteur
            PROVE  g.compteur <= curseur[r] \/ g \in transit'[r]
        <5>1. g \in Estampille /\ f \in Estampille
          BY <2>2, <4>1 DEF Ecrites
        <5>2. CASE f \in transit[r]
          BY <1>1, <2>2, <3>1, <4>7, <5>2 DEF InvDe, SuiteDe
        <5>3. CASE f = e
          <6>1. g.compteur <= servi[r]
            <7>1. e.compteur <= servi[r] /\ servi[r] \in Nat
              BY <1>1, <3>1, Types DEF InvDe, SuiteDe
            <7> QED BY <4>7, <5>1, <5>3, <7>1, <4>4
          <6>2. g.compteur <= curseur[r] \/ g \in transit[r] \/ g \in aVenir[r]
            BY <1>1, <1>2, <3>1, <6>1 DEF InvDe, SuiteDe
          <6>3. g \in aVenir[r] => g = e
            <7> SUFFICES ASSUME g \in aVenir[r], g # e PROVE FALSE
              OBVIOUS
            <7>1. e.compteur < g.compteur
              BY <2>2, <4>5
            <7> QED BY <4>4, <4>7, <5>1, <5>3, <7>1
          <6> QED BY <2>2, <6>2, <6>3
        <5> QED BY <2>2, <5>2, <5>3
      <4>8. \A g \in Ecrites(q, rangees[q]) :
              ~clos[r] /\ g.compteur <= servi[r] =>
                g.compteur <= curseur[r] \/ g \in transit'[r] \/ g \in aVenir'[r]
        BY <1>1, <2>2, <3>1 DEF InvDe, SuiteDe
      <4>9. \A f \in aVenir'[r] \cup transit'[r] :
              f.racine = q /\ curseur[r] < f.compteur /\ f.compteur <= servi[r]
        BY <1>1, <2>2, <3>1 DEF InvDe, SuiteDe
      <4>10. curseur[r] <= servi[r] /\ servi[r] <= compteur[q]
        BY <1>1, <3>1 DEF InvDe, SuiteDe
      <4> QED BY <1>2, <4>6, <4>7, <4>8, <4>9, <4>10 DEF SuiteDe, Ecrites, entrepot
    <3>2. CASE phase[r] # "operations"
      BY <1>2, <3>2 DEF SuiteDe
    <3> QED BY <3>1, <3>2
  <2> QED BY <1>2, <2>3, <2>4, <2>5, <2>6, PasDeSession DEF SessionDe
<1>4. CASE /\ aVenir[r] = {} /\ fin[r] = "a venir"
           /\ fin' = [fin EXCEPT ![r] = "en transit"] /\ UNCHANGED <<aVenir, transit>>
  <2>1. fin'[r] = "en transit" /\ \A s \in Racine \ {r} : fin'[s] = fin[s]
    BY <1>1, <1>4, Domaines
  <2>2. phase[r] = "instantane"
    BY <1>1, <1>2, <1>4 DEF InvDe, FluxDe
  <2>3. SessionDe(r)'
    BY <1>1, <1>2, <1>4, <2>1, <2>2
       DEF InvDe, SessionDe, FluxDe, SuiteDe, InstantaneDe, Ecrites, entrepot
  <2>4. \A s \in Racine \ {r} : MemeFlux(s)
    BY <1>2, <1>4, <2>1 DEF MemeFlux
  <2> QED BY <1>2, <2>3, <2>4, PasDeSession
<1> QED BY <1>3, <1>4 DEF Cadrer

\* Closing: what an operations stream drops is above all that is on the wire.
LEMMA InvClore ==
  ASSUME Inv, TypeOK', NEW r \in Racine, Clore(r)
  PROVE  Inv'
<1>1. TypeOK /\ InvDe(r)
  BY DEF Inv
<1>2. /\ UNCHANGED entrepot /\ UNCHANGED <<phase, transit, fin, coupe, servi>>
      /\ clos' = [clos EXCEPT ![r] = TRUE]
      /\ aVenir' = [aVenir EXCEPT ![r] = IF phase[r] = "operations" THEN {} ELSE @]
  BY DEF Clore
<1>3. /\ clos'[r] = TRUE /\ aVenir'[r] = IF phase[r] = "operations" THEN {} ELSE aVenir[r]
      /\ \A s \in Racine \ {r} : clos'[s] = clos[s] /\ aVenir'[s] = aVenir[s]
  BY <1>1, <1>2, Domaines
<1>4. \A s \in Racine \ {r} : MemeFlux(s)
  BY <1>2, <1>3 DEF MemeFlux
<1>5. FluxDe(r)'
  <2>1. aVenir'[r] \subseteq aVenir[r] /\ (aVenir[r] = {} => aVenir'[r] = {})
    BY <1>3
  <2>2. compteur' = compteur /\ rangees' = rangees
    BY <1>2 DEF entrepot
  <2> QED BY <1>1, <1>2, <2>1, <2>2 DEF InvDe, FluxDe
<1>6. SuiteDe(r)'
  BY <1>1, <1>2, <1>3 DEF InvDe, SuiteDe, Ecrites, entrepot
<1>7. InstantaneDe(r)'
  BY <1>1, <1>2, <1>3 DEF InvDe, InstantaneDe, FluxDe, Ecrites, entrepot
<1> QED BY <1>2, <1>4, <1>5, <1>6, <1>7, PasDeSession DEF SessionDe

\* Following the journal: everything up to servi is applied or on the wire, and
\* the journal, if it reaches back to servi, holds all that was written since.
LEMMA InvSuivreLeJournal ==
  ASSUME Inv, TypeOK', NEW r \in Racine, SuivreLeJournal(r)
  PROVE  Inv'
<1> DEFINE q == Pair[r]
           suite == SuiteApres(q, servi[r])
           cadres == {[compteur |-> c, racine |-> q] : c \in suite}
<1>1. /\ TypeOK /\ InvDe(r) /\ q \in Racine /\ InvDe(q) /\ Pair[q] = r
  BY Paires DEF Inv
<1>2. /\ UNCHANGED entrepot /\ UNCHANGED <<phase, transit, fin, coupe>>
      /\ phase[r] = "operations" /\ ~clos[r] /\ aVenir[r] = {}
  BY DEF SuivreLeJournal
<1>3. /\ servi[r] \in Nat /\ retirees[q] \in Nat /\ curseur[r] \in Nat /\ compteur[q] \in Nat
      /\ suite \in SUBSET Nat /\ rangees[q] \in SUBSET Estampille
      /\ transit[r] \in SUBSET Estampille
  BY <1>1, Types DEF SuiteApres
<1>4. /\ curseur[r] <= servi[r] /\ servi[r] <= compteur[q]
      /\ \A e \in transit[r] : e.racine = q /\ curseur[r] < e.compteur /\ e.compteur <= servi[r]
      /\ \A e \in Ecrites(q, rangees[q]) :
           /\ \A f \in transit[r] :
                e.compteur <= f.compteur => e.compteur <= curseur[r] \/ e \in transit[r]
           /\ e.compteur <= servi[r] => e.compteur <= curseur[r] \/ e \in transit[r]
  BY <1>1, <1>2 DEF InvDe, SuiteDe
<1>5. InstantaneDe(r)'
  BY <1>1, <1>2 DEF InvDe, FluxDe, InstantaneDe
<1>6. CASE servi[r] >= retirees[q]
  <2>1. /\ aVenir' = [aVenir EXCEPT ![r] = cadres] /\ UNCHANGED clos
    BY <1>3, <1>6 DEF SuivreLeJournal, JournalRemonte, SuiteApres
  <2>2. PICK dernier \in suite \cup {servi[r]} :
          /\ \A c \in suite : c <= dernier
          /\ servi' = [servi EXCEPT ![r] = dernier]
    BY <1>3, <1>6 DEF SuivreLeJournal, JournalRemonte, SuiteApres
  <2>3. /\ aVenir'[r] = cadres /\ servi'[r] = dernier
        /\ \A s \in Racine \ {r} : aVenir'[s] = aVenir[s] /\ servi'[s] = servi[s]
    BY <1>1, <2>1, <2>2, Domaines
  <2>4. \A s \in Racine \ {r} : MemeFlux(s)
    BY <1>2, <2>1, <2>3 DEF MemeFlux
  <2>5. \A c \in suite : [compteur |-> c, racine |-> q] \in rangees[q] /\ c <= compteur[q]
    BY <1>1 DEF InvDe, JournalDe, HorlogeDe, SuiteApres
  <2>6. \A e \in Ecrites(q, rangees[q]) : e.compteur > servi[r] => e \in cadres
    <3> SUFFICES ASSUME NEW e \in Ecrites(q, rangees[q]), e.compteur > servi[r]
                 PROVE  e \in cadres
      OBVIOUS
    <3>1. e.compteur \in Nat /\ e = [compteur |-> e.compteur, racine |-> q]
      BY <1>3 DEF Ecrites, Estampille
    <3>2. e.compteur \in suite
      BY <1>1, <1>3, <1>6, <3>1 DEF InvDe, JournalDe, SuiteApres
    <3> QED BY <3>1, <3>2
  <2>7. dernier \in Nat /\ servi[r] <= dernier /\ dernier <= compteur[q]
    <3>1. CASE dernier \in suite
      <4>1. dernier \in Nat /\ dernier > servi[r] /\ dernier <= compteur[q]
        BY <1>3, <2>5, <3>1 DEF SuiteApres
      <4> QED BY <4>1, <1>3
    <3>2. CASE dernier = servi[r]
      BY <1>3, <1>4, <3>2
    <3> QED BY <3>1, <3>2
  <2>8. FluxDe(r)'
    <3>1. transit[r] \subseteq rangees[q] /\ coupe[r] <= compteur[q] /\ fin[r] = "sans"
      BY <1>1, <1>2 DEF InvDe, FluxDe
    <3>2. cadres \subseteq rangees[q]
      BY <2>5
    <3> HIDE DEF cadres
    <3> QED BY <1>2, <2>3, <3>1, <3>2 DEF FluxDe, entrepot
  <2>9. SuiteDe(r)'
    <3>1. \A e \in cadres : e.racine = q /\ servi[r] < e.compteur /\ e.compteur <= dernier
                            /\ e.compteur \in Nat
      BY <1>3, <2>2 DEF SuiteApres
    <3>2. curseur[r] <= dernier
      BY <1>3, <1>4, <2>7
    <3>3. \A e \in cadres : curseur[r] < e.compteur
      BY <1>3, <1>4, <3>1
    <3>4. \A e \in transit[r] : e.compteur <= dernier /\ e.compteur \in Nat
      BY <1>3, <1>4, <2>7 DEF Estampille
    <3>5. \A e \in transit[r], f \in cadres : e.compteur < f.compteur
      <4> SUFFICES ASSUME NEW e \in transit[r], NEW f \in cadres PROVE e.compteur < f.compteur
        OBVIOUS
      <4>1. e.compteur <= servi[r] /\ servi[r] < f.compteur /\ e.compteur \in Nat /\ f.compteur \in Nat
        BY <1>4, <3>1, <3>4
      <4> HIDE DEF cadres
      <4> QED BY <4>1, <1>3
    <3>6. \A e \in Ecrites(q, rangees[q]) :
            e.compteur <= curseur[r] \/ e \in transit[r] \/ e \in cadres
      BY <1>3, <1>4, <2>6 DEF Ecrites, Estampille
    <3> HIDE DEF cadres, suite
    <3> QED BY <1>2, <1>4, <2>1, <2>3, <2>7, <3>1, <3>2, <3>3, <3>4, <3>5, <3>6
            DEF SuiteDe, Ecrites, entrepot
  <2> QED BY <1>2, <1>5, <2>4, <2>8, <2>9, PasDeSession DEF SessionDe
<1>7. CASE ~(servi[r] >= retirees[q])
  <2>1. clos' = [clos EXCEPT ![r] = TRUE] /\ UNCHANGED <<vu, aVenir, servi>>
    BY <1>3, <1>7 DEF SuivreLeJournal, JournalRemonte, SuiteApres
  <2>2. clos'[r] = TRUE /\ \A s \in Racine \ {r} : clos'[s] = clos[s]
    BY <1>1, <2>1, Domaines
  <2>3. \A s \in Racine \ {r} : MemeFlux(s)
    BY <1>2, <2>1, <2>2 DEF MemeFlux
  <2>4. FluxDe(r)'
    BY <1>1, <1>2, <2>1 DEF InvDe, FluxDe, entrepot
  <2>5. SuiteDe(r)'
    BY <1>1, <1>2, <2>1, <2>2 DEF InvDe, SuiteDe, Ecrites, entrepot
  <2> QED BY <1>2, <1>5, <2>3, <2>4, <2>5, PasDeSession DEF SessionDe
<1> QED BY <1>6, <1>7

\* The end of a stream and the failures leave the stores alone.
LEMMA InvAbandonner ==
  ASSUME Inv, TypeOK', NEW r \in Racine, FinirLeFlux(r) \/ Couper(r) \/ Redemarrer(r)
  PROVE  Inv'
<1>1. TypeOK /\ InvDe(r) /\ Pair[r] \in Racine
  BY Paires DEF Inv
<1>2. ASSUME SansFlux({r}), UNCHANGED entrepot,
             \E p \in {"coupee", "ouverte", "amorcage"} : phase' = [phase EXCEPT ![r] = p]
      PROVE  Inv'
  <2>1. /\ phase'[r] \in {"coupee", "ouverte", "amorcage"}
        /\ \A s \in Racine \ {r} : phase'[s] = phase[s]
    BY <1>1, <1>2, Domaines
  <2> QED BY <1>1, <1>2, <2>1, FluxAbandonne, PasDeSession
<1>3. CASE FinirLeFlux(r)
  <2>1. CASE SansFlux({r})
    BY <1>2, <1>3, <2>1 DEF FinirLeFlux
  <2>2. CASE ~SansFlux({r})
    <3>1. /\ phase[r] = "instantane" /\ phase' = [phase EXCEPT ![r] = "amorcage"]
          /\ transit[r] = {} /\ fin[r] # "en transit"
          /\ clos' = [clos EXCEPT ![r] = FALSE] /\ UNCHANGED entrepot
          /\ UNCHANGED <<aVenir, transit, fin, coupe, servi>>
      BY <1>3, <2>2 DEF FinirLeFlux
    <3>2. /\ phase'[r] = "amorcage"
          /\ \A s \in Racine \ {r} : clos'[s] = clos[s] /\ phase'[s] = phase[s]
      BY <1>1, <3>1, Domaines
    <3>3. \A s \in Racine \ {r} : MemeFlux(s)
      BY <3>1, <3>2 DEF MemeFlux
    <3>4. FluxDe(r)'
      BY <1>1, <3>1, <3>2 DEF InvDe, FluxDe, entrepot
    <3>5. InstantaneDe(r)'
      BY <1>1, <3>1, <3>2 DEF InvDe, InstantaneDe, Ecrites, entrepot
    <3>6. SuiteDe(r)'
      BY <3>2 DEF SuiteDe
    <3> QED BY <3>1, <3>3, <3>4, <3>5, <3>6, PasDeSession DEF SessionDe
  <2> QED BY <2>1, <2>2
<1>4. CASE Couper(r)
  BY <1>2, <1>4 DEF Couper
<1>5. CASE Redemarrer(r)
  <2> DEFINE S == {r, Pair[r]}
  <2>1. SansFlux(S) /\ UNCHANGED entrepot /\ S \in SUBSET Racine
    BY <1>1, <1>5 DEF Redemarrer
  <2>2. /\ \A s \in S : phase'[s] = "coupee"
        /\ \A s \in Racine \ S : phase'[s] = phase[s]
    BY <1>1, <1>5 DEF Redemarrer
  <2>3. /\ \A s \in S : SessionDe(s)'
        /\ \A s \in Racine \ S : MemeFlux(s)
    BY <1>1, <2>1, <2>2, FluxAbandonne
  <2>4. \A s \in Racine : MemeMagasin(s)
    BY <2>1 DEF MemeMagasin, entrepot
  <2>5. ASSUME NEW s \in S PROVE InvDe(s)'
    <3>1. InvDe(s)
      BY <2>1, <2>5 DEF Inv
    <3>2. HorlogeDe(s)' /\ JournalDe(s)' /\ SansTrouDe(s)'
      BY <2>1, <3>1 DEF InvDe, HorlogeDe, JournalDe, SansTrouDe, Ecrites, entrepot
    <3> QED BY <2>3, <2>5, <3>2 DEF InvDe, SessionDe
  <2>6. ASSUME NEW s \in Racine \ S PROVE InvDe(s)'
    BY <2>3, <2>4, <2>6, Ailleurs, Paires DEF Inv
  <2> QED BY <2>5, <2>6 DEF Inv
<1> QED BY <1>3, <1>4, <1>5

-----------------------------------------------------------------------------
(* The steps that change a store.                                          *)

\* A stamp of q in r's store, seen from q's side.
LEMMA Miennes ==
  ASSUME Inv, NEW r \in Racine, NEW e \in rangees[Pair[r]], e.racine = r
  PROVE  /\ e \in rangees[r] /\ e.compteur <= compteur[r] /\ e.compteur <= ecrit[r]
<1>1. InvDe(r)
  BY DEF Inv
<1> QED BY <1>1 DEF InvDe, HorlogeDe, JournalDe, Ecrites

\* A local write is above the clock, so above every cursor, cut and stream
\* end that the peer has of this root.
LEMMA InvEcrire ==
  ASSUME Inv, TypeOK', NEW r \in Racine, Ecrire(r)
  PROVE  Inv'
<1> DEFINE n == compteur[r] + 1
           x == [compteur |-> n, racine |-> r]
           q == Pair[r]
<1>1. TypeOK /\ InvDe(r) /\ q \in Racine /\ InvDe(q) /\ Pair[q] = r /\ q # r
  BY Paires DEF Inv
<1>2. /\ compteur[r] \in Nat /\ ecrit[r] \in Nat /\ curseur[q] \in Nat /\ coupe[q] \in Nat
      /\ servi[q] \in Nat /\ CompteurMax \in Nat /\ retirees[r] \in Nat
      /\ rangees[r] \in SUBSET Estampille
  BY <1>1, Types, VoieAssumption
<1>3. n \in Nat /\ n > compteur[r] /\ n <= CompteurMax
  BY <1>2 DEF Ecrire
<1>4. ecrit[r] <= compteur[r]
  BY <1>1 DEF InvDe, HorlogeDe
<1>5. LePlusHaut(ecrit[r], n) = n
  BY <1>2, <1>3, <1>4 DEF LePlusHaut
<1>6. /\ compteur'[r] = n /\ ecrit'[r] = n /\ rangees'[r] = rangees[r] \cup {x}
      /\ operations'[r] = operations[r] \cup {n}
      /\ \A s \in Racine \ {r} :
            /\ compteur'[s] = compteur[s] /\ ecrit'[s] = ecrit[s]
            /\ rangees'[s] = rangees[s] /\ operations'[s] = operations[s]
      /\ UNCHANGED <<retirees, curseur, phase, aVenir, transit, fin, coupe, servi, clos>>
  BY <1>1, <1>5, Domaines DEF Ecrire, flux, Hisser
<1>7. \A e \in rangees[r] : e.compteur \in Nat /\ e.compteur < n
  BY <1>1, <1>2, <1>3 DEF InvDe, HorlogeDe, Estampille
<1>8. HorlogeDe(r)'
  <2>1. curseur[q] <= compteur[r]
    BY <1>1 DEF InvDe, HorlogeDe
  <2>2. curseur'[q] <= n /\ compteur'[r] <= CompteurMax /\ ecrit'[r] <= compteur'[r]
    BY <1>2, <1>3, <1>6, <2>1
  <2>3. \A e \in rangees'[r] : e.racine \in {r, q} /\ e.compteur <= n
    BY <1>1, <1>3, <1>6, <1>7 DEF InvDe, HorlogeDe
  <2>4. Ecrites(r, rangees'[q]) \subseteq rangees'[r]
    BY <1>1, <1>6 DEF InvDe, HorlogeDe, Ecrites
  <2> HIDE DEF n
  <2> QED BY <1>6, <2>2, <2>3, <2>4 DEF HorlogeDe, Ecrites
<1>9. JournalDe(r)'
  <2>1. retirees[r] < n
    <3>1. retirees[r] <= ecrit[r]
      BY <1>1 DEF InvDe, JournalDe
    <3> QED BY <1>2, <1>3, <1>4, <3>1
  <2>2. \A c \in operations'[r] : [compteur |-> c, racine |-> r] \in rangees'[r] /\ c > retirees'[r]
    BY <1>1, <1>2, <1>3, <1>6, <2>1 DEF InvDe, JournalDe
  <2>3. \A e \in Ecrites(r, rangees'[r]) :
          e.compteur <= n /\ (e.compteur \in operations'[r] \/ e.compteur <= retirees[r])
    BY <1>1, <1>3, <1>6, <1>7 DEF InvDe, JournalDe, Ecrites
  <2>4. retirees'[r] <= ecrit'[r]
    BY <1>2, <1>3, <1>6, <2>1
  <2> HIDE DEF n
  <2> QED BY <1>6, <2>2, <2>3, <2>4 DEF JournalDe, Ecrites
<1>10. SansTrouDe(r)' /\ SessionDe(r)'
  <2>1. Ecrites(q, rangees'[q]) = Ecrites(q, rangees[q])
    BY <1>1, <1>6 DEF Ecrites
  <2>2. SansTrouDe(r)'
    BY <1>1, <1>6, <2>1 DEF InvDe, SansTrouDe, Ecrites
  <2>3. FluxDe(r)'
    BY <1>1, <1>6 DEF InvDe, FluxDe
  <2>4. SuiteDe(r)'
    BY <1>1, <1>6 DEF InvDe, SuiteDe, Ecrites
  <2>5. InstantaneDe(r)'
    BY <1>1, <1>6 DEF InvDe, InstantaneDe, Ecrites
  <2> QED BY <2>2, <2>3, <2>4, <2>5 DEF SessionDe
<1>11. HorlogeDe(q)' /\ JournalDe(q)'
  BY <1>1, <1>6 DEF InvDe, HorlogeDe, JournalDe, Ecrites
<1>12. Ecrites(r, rangees'[r]) = Ecrites(r, rangees[r]) \cup {x}
  BY <1>6 DEF Ecrites
<1>13. SansTrouDe(q)' /\ SessionDe(q)'
  <2>1. x.compteur = n /\ ~(n <= curseur[q]) /\ ~(n <= coupe[q])
    <3>1. curseur[q] <= compteur[r] /\ coupe[q] <= compteur[r]
      BY <1>1 DEF InvDe, HorlogeDe, FluxDe
    <3> QED BY <1>2, <1>3, <3>1
  <2>2. SansTrouDe(q)'
    BY <1>1, <1>6, <1>12, <2>1 DEF InvDe, SansTrouDe
  <2>3. FluxDe(q)'
    <3>1. coupe[q] <= n
      BY <1>2, <1>3, <2>1
    <3> HIDE DEF n, x
    <3> QED BY <1>1, <1>6, <3>1 DEF InvDe, FluxDe
  <2>4. InstantaneDe(q)'
    BY <1>1, <1>6, <1>12, <2>1 DEF InvDe, InstantaneDe
  <2>5. SuiteDe(q)'
    <3>1. CASE phase[q] = "operations"
      <4>1. servi[q] <= compteur[r]
        BY <1>1, <3>1 DEF InvDe, SuiteDe
      <4>2. servi[q] <= n /\ ~(n <= servi[q])
        BY <1>2, <1>3, <4>1
      <4>3. \A f \in transit[q] : ~(n <= f.compteur)
        <5>1. transit[q] \subseteq rangees[r]
          BY <1>1 DEF InvDe, FluxDe
        <5> QED BY <1>3, <1>7, <5>1
      <4>4. ASSUME NEW e \in Ecrites(r, rangees'[r])
            PROVE  /\ \A f \in transit[q] :
                        e.compteur <= f.compteur => e.compteur <= curseur[q] \/ e \in transit[q]
                   /\ ~clos[q] /\ e.compteur <= servi[q] =>
                        e.compteur <= curseur[q] \/ e \in transit[q] \/ e \in aVenir[q]
        <5>1. CASE e = x
          BY <2>1, <4>2, <4>3, <5>1
        <5>2. CASE e \in Ecrites(r, rangees[r])
          BY <1>1, <3>1, <5>2 DEF InvDe, SuiteDe
        <5> QED BY <1>12, <5>1, <5>2
      <4>5. /\ curseur[q] <= servi[q]
            /\ \A e \in aVenir[q] \cup transit[q] :
                 e.racine = r /\ curseur[q] < e.compteur /\ e.compteur <= servi[q]
            /\ \A e \in transit[q], f \in aVenir[q] : e.compteur < f.compteur
            /\ clos[q] => aVenir[q] = {}
        BY <1>1, <3>1 DEF InvDe, SuiteDe
      <4> HIDE DEF n, x
      <4> QED BY <1>1, <1>6, <4>2, <4>4, <4>5 DEF SuiteDe
    <3>2. CASE phase[q] # "operations"
      BY <1>6, <3>2 DEF SuiteDe
    <3> QED BY <3>1, <3>2
  <2> QED BY <2>2, <2>3, <2>4, <2>5 DEF SessionDe
<1>14. ASSUME NEW s \in Racine, s # r, s # q PROVE InvDe(s)'
  <2>1. Pair[s] \in Racine /\ Pair[s] # r
    BY <1>1, <1>14, Paires
  <2> QED BY <1>6, <1>14, <2>1, Ailleurs DEF Inv, MemeFlux, MemeMagasin
<1>15. InvDe(r)' /\ InvDe(q)'
  BY <1>8, <1>9, <1>10, <1>11, <1>13 DEF InvDe, SessionDe
<1> QED BY <1>14, <1>15 DEF Inv

\* Retention removes a prefix of the journal, and the floor rises with it.
LEMMA InvExpirer ==
  ASSUME Inv, TypeOK', NEW r \in Racine, Expirer(r)
  PROVE  Inv'
<1>1. TypeOK /\ InvDe(r)
  BY DEF Inv
<1>2. PICK n \in operations[r] :
        /\ operations' = [operations EXCEPT ![r] = {c \in @ : c > n}]
        /\ retirees'   = [retirees   EXCEPT ![r] = LePlusHaut(@, n)]
        /\ UNCHANGED <<compteur, ecrit, rangees, curseur, derniere, phase, flux, pannes>>
  BY DEF Expirer, Hisser
<1>3. /\ n \in Nat /\ retirees[r] \in Nat /\ n > retirees[r] /\ operations[r] \in SUBSET Nat
      /\ rangees[r] \in SUBSET Estampille
  BY <1>1, Types DEF InvDe, JournalDe
<1>4. LePlusHaut(retirees[r], n) = n
  BY <1>3 DEF LePlusHaut
<1>5. /\ operations'[r] = {c \in operations[r] : c > n} /\ retirees'[r] = n
      /\ \A s \in Racine \ {r} : operations'[s] = operations[s] /\ retirees'[s] = retirees[s]
      /\ UNCHANGED <<compteur, ecrit, rangees, curseur, phase, aVenir, transit, fin, coupe, servi, clos>>
  BY <1>1, <1>2, <1>4, Domaines DEF flux
<1>6. JournalDe(r)'
  <2>1. \A e \in Ecrites(r, rangees[r]) :
          e.compteur \in operations'[r] \/ e.compteur <= n
    BY <1>1, <1>3, <1>5 DEF InvDe, JournalDe, Ecrites, Estampille
  <2>2. n <= ecrit[r]
    <3> DEFINE x == [compteur |-> n, racine |-> r]
    <3>1. x \in rangees[r] /\ x.racine = r /\ x.compteur = n
      BY <1>1 DEF InvDe, JournalDe
    <3>2. x \in Ecrites(r, rangees[r])
      BY <3>1 DEF Ecrites
    <3> HIDE DEF x
    <3> QED BY <1>1, <3>1, <3>2 DEF InvDe, JournalDe
  <2> QED BY <1>1, <1>3, <1>5, <2>1, <2>2 DEF InvDe, JournalDe, Ecrites
<1>7. ASSUME NEW s \in Racine
      PROVE  HorlogeDe(s)' /\ (s # r => JournalDe(s)') /\ SansTrouDe(s)' /\ SessionDe(s)'
  <2>1. InvDe(s)
    BY DEF Inv
  <2>2. HorlogeDe(s)' /\ SansTrouDe(s)'
    BY <1>5, <2>1 DEF InvDe, HorlogeDe, SansTrouDe, Ecrites
  <2>3. s # r => JournalDe(s)'
    BY <1>5, <2>1 DEF InvDe, JournalDe, Ecrites
  <2>4. FluxDe(s)' /\ SuiteDe(s)' /\ InstantaneDe(s)'
    BY <1>5, <2>1 DEF InvDe, FluxDe, SuiteDe, InstantaneDe, Ecrites
  <2> QED BY <2>2, <2>3, <2>4 DEF SessionDe
<1> QED BY <1>6, <1>7 DEF Inv, InvDe, SessionDe

\* Storing a stamp of q that q holds: what r holds grows by it, and nothing of
\* r's own is added (a stamp of r that q holds is in r's store already).
LEMMA InvRanger ==
  ASSUME Inv, NEW r \in Racine, NEW e \in rangees[Pair[r]], Ranger(r, e)
  PROVE  /\ rangees'[r] = rangees[r] \cup {e}
         /\ Ecrites(r, rangees'[r]) = Ecrites(r, rangees[r])
         /\ ecrit'[r] = ecrit[r]
         /\ compteur'[r] \in Nat /\ compteur'[r] >= compteur[r] /\ compteur'[r] >= e.compteur
         /\ compteur'[r] <= CompteurMax
         /\ \A s \in Racine \ {r} : /\ compteur'[s] = compteur[s] /\ ecrit'[s] = ecrit[s]
                                     /\ rangees'[s] = rangees[s]
<1> DEFINE q == Pair[r]
<1>1. TypeOK /\ InvDe(r) /\ q \in Racine /\ InvDe(q) /\ Pair[q] = r /\ q # r
  BY Paires DEF Inv
<1>2. /\ compteur[r] \in Nat /\ ecrit[r] \in Nat /\ compteur[q] \in Nat /\ CompteurMax \in Nat
      /\ e.compteur \in Nat
  BY <1>1, Types, VoieAssumption DEF Estampille
<1>3. /\ compteur'[r] = LePlusHaut(compteur[r], e.compteur)
      /\ rangees'[r] = rangees[r] \cup {e}
      /\ ecrit'[r] = IF e.racine = r THEN LePlusHaut(ecrit[r], e.compteur) ELSE ecrit[r]
      /\ \A s \in Racine \ {r} : /\ compteur'[s] = compteur[s] /\ ecrit'[s] = ecrit[s]
                                  /\ rangees'[s] = rangees[s]
  BY <1>1, Domaines DEF Ranger, Hisser
<1>4. e.compteur <= compteur[q] /\ compteur[q] <= CompteurMax /\ compteur[r] <= CompteurMax
  BY <1>1 DEF InvDe, HorlogeDe
<1>5. ecrit'[r] = ecrit[r]
  BY <1>2, <1>3, Miennes DEF LePlusHaut
<1>6. Ecrites(r, rangees'[r]) = Ecrites(r, rangees[r])
  BY <1>3, Miennes DEF Ecrites
<1>7. /\ LePlusHaut(compteur[r], e.compteur) \in {compteur[r], e.compteur}
      /\ LePlusHaut(compteur[r], e.compteur) >= compteur[r]
      /\ LePlusHaut(compteur[r], e.compteur) >= e.compteur
  BY <1>2, LePlusHautDeDeux
<1>8. compteur'[r] \in Nat /\ compteur'[r] <= CompteurMax
  BY <1>2, <1>3, <1>4, <1>7
<1> QED BY <1>3, <1>5, <1>6, <1>7, <1>8

\* A step of r that stores nothing of its own, raises its clock and advances
\* its cursor keeps all of Inv but what concerns r's cursor and r's stream.
LEMMA PasDApplication ==
  ASSUME Inv, TypeOK', NEW r \in Racine,
         UNCHANGED <<operations, retirees>>,
         ecrit' = ecrit, rangees[r] \subseteq rangees'[r],
         \A e \in rangees'[r] \ rangees[r] : e \in rangees[Pair[r]],
         \A e \in rangees'[r] : e.compteur <= compteur'[r],
         Ecrites(r, rangees'[r]) = Ecrites(r, rangees[r]),
         compteur'[r] >= compteur[r], compteur'[r] <= CompteurMax,
         curseur'[r] <= compteur[Pair[r]],
         \A s \in Racine \ {r} : /\ compteur'[s] = compteur[s] /\ rangees'[s] = rangees[s]
                                  /\ curseur'[s] = curseur[s] /\ MemeFlux(s),
         SansTrouDe(r)', SessionDe(r)'
  PROVE  Inv'
<1> DEFINE q == Pair[r]
<1>1. TypeOK /\ InvDe(r) /\ q \in Racine /\ InvDe(q) /\ Pair[q] = r /\ q # r
  BY Paires DEF Inv
<1>2. /\ compteur[r] \in Nat /\ compteur'[r] \in Nat /\ ecrit[r] \in Nat
      /\ curseur[q] \in Nat /\ coupe[q] \in Nat /\ servi[q] \in Nat
  BY <1>1, Types DEF TypeOK
<1>3. HorlogeDe(r)'
  <2>1. ecrit[r] <= compteur[r] /\ curseur[q] <= compteur[r]
    BY <1>1 DEF InvDe, HorlogeDe
  <2>2. ecrit'[r] <= compteur'[r] /\ curseur'[q] <= compteur'[r]
    BY <1>1, <1>2, <2>1
  <2>3. \A e \in rangees'[r] : e.racine \in {r, q}
    BY <1>1 DEF InvDe, HorlogeDe
  <2>4. Ecrites(r, rangees'[q]) \subseteq rangees'[r]
    BY <1>1 DEF InvDe, HorlogeDe, Ecrites
  <2> QED BY <2>2, <2>3, <2>4 DEF HorlogeDe, Ecrites
<1>4. JournalDe(r)'
  BY <1>1 DEF InvDe, JournalDe, Ecrites
<1>5. HorlogeDe(q)'
  <2>1. Ecrites(q, rangees'[r]) \subseteq rangees[q]
    BY <1>1 DEF InvDe, HorlogeDe, Ecrites
  <2>2. curseur'[Pair[q]] <= compteur'[q]
    BY <1>1
  <2> QED BY <1>1, <2>1, <2>2 DEF InvDe, HorlogeDe, Ecrites
<1>6. JournalDe(q)' /\ SansTrouDe(q)'
  BY <1>1 DEF InvDe, JournalDe, SansTrouDe, Ecrites
<1>7. FluxDe(q)'
  <2>1. coupe[q] <= compteur'[r]
    <3>1. coupe[q] <= compteur[r]
      BY <1>1 DEF InvDe, FluxDe
    <3> QED BY <1>2, <3>1
  <2> QED BY <1>1, <2>1 DEF InvDe, FluxDe, MemeFlux
<1>8. SuiteDe(q)'
  <2>1. CASE phase[q] = "operations"
    <3>1. servi[q] <= compteur'[r]
      <4>1. servi[q] <= compteur[r]
        BY <1>1, <2>1 DEF InvDe, SuiteDe
      <4> QED BY <1>2, <4>1
    <3>2. Ecrites(r, rangees'[r]) = Ecrites(r, rangees[r])
      OBVIOUS
    <3> QED BY <1>1, <2>1, <3>1, <3>2 DEF InvDe, SuiteDe, MemeFlux
  <2>2. CASE phase[q] # "operations"
    BY <1>1, <2>2 DEF SuiteDe, MemeFlux
  <2> QED BY <2>1, <2>2
<1>9. InstantaneDe(q)'
  BY <1>1 DEF InvDe, InstantaneDe, MemeFlux
<1>10. ASSUME NEW s \in Racine, s # r, s # q PROVE InvDe(s)'
  <2>1. Pair[s] \in Racine /\ Pair[s] # r
    BY <1>1, <1>10, Paires
  <2> QED BY <1>10, <2>1, Ailleurs DEF Inv, MemeMagasin
<1>11. InvDe(r)' /\ InvDe(q)'
  BY <1>3, <1>4, <1>5, <1>6, <1>7, <1>8, <1>9 DEF InvDe, SessionDe
<1> QED BY <1>10, <1>11 DEF Inv

\* The head of the operations stream is applied: everything its writer wrote
\* below it is already applied, so the cursor passes over nothing.
LEMMA InvAppliquerUneOperation ==
  ASSUME Inv, TypeOK', NEW r \in Racine, AppliquerUneOperation(r)
  PROVE  Inv'
<1> DEFINE q == Pair[r]
<1>1. TypeOK /\ InvDe(r) /\ q \in Racine /\ InvDe(q) /\ Pair[q] = r /\ q # r
  BY Paires DEF Inv
<1>2. /\ phase[r] = "operations"
      /\ UNCHANGED <<operations, retirees, phase, aVenir, fin, coupe, servi, clos>>
  BY DEF AppliquerUneOperation
<1>3. PICK e \in transit[r] :
        /\ EnTete(r, e, transit[r])
        /\ transit' = [transit EXCEPT ![r] = @ \ {e}]
        /\ ~Refusee(r, e) => Ranger(r, e) /\ curseur' = [curseur EXCEPT ![r] = LePlusHaut(@, e.compteur)]
  BY DEF AppliquerUneOperation, Hisser
<1>4. /\ rangees[r] \in SUBSET Estampille /\ rangees[q] \in SUBSET Estampille
      /\ transit[r] \in SUBSET Estampille /\ curseur[r] \in Nat /\ compteur[r] \in Nat
      /\ compteur[q] \in Nat /\ servi[r] \in Nat
  BY <1>1, Types
<1>5. /\ e \in rangees[q] /\ e.racine = q /\ curseur[r] < e.compteur /\ e.compteur <= servi[r]
  BY <1>1, <1>2 DEF InvDe, FluxDe, SuiteDe
<1>6. \A f \in Estampille : f.compteur \in Nat /\ f = [compteur |-> f.compteur, racine |-> f.racine]
  BY DEF Estampille
<1>7. e \in Estampille /\ e.compteur \in Nat /\ LePlusHaut(curseur[r], e.compteur) = e.compteur
  BY <1>4, <1>5, <1>6 DEF LePlusHaut
<1>8. Ranger(r, e) /\ curseur'[r] = e.compteur
  BY <1>1, <1>3, <1>4, <1>5, <1>7, Domaines DEF Refusee
<1>9. /\ transit'[r] = transit[r] \ {e}
      /\ \A s \in Racine \ {r} : transit'[s] = transit[s] /\ curseur'[s] = curseur[s]
  BY <1>1, <1>3, <1>4, <1>5, <1>7, Domaines DEF Refusee
<1>10. /\ rangees'[r] = rangees[r] \cup {e} /\ Ecrites(r, rangees'[r]) = Ecrites(r, rangees[r])
       /\ ecrit'[r] = ecrit[r]
       /\ compteur'[r] \in Nat /\ compteur'[r] >= compteur[r] /\ compteur'[r] >= e.compteur
       /\ compteur'[r] <= CompteurMax
       /\ \A s \in Racine \ {r} : /\ compteur'[s] = compteur[s] /\ ecrit'[s] = ecrit[s]
                                   /\ rangees'[s] = rangees[s]
  BY <1>5, <1>8, InvRanger
<1>11. ecrit' = ecrit
  <2>1. ecrit \in [Racine -> Nat] /\ ecrit' \in [Racine -> Nat]
    BY <1>1 DEF TypeOK
  <2> QED BY <1>10, <2>1
<1>12. \A f \in transit[r] : e.compteur <= f.compteur
  BY <1>2, <1>3 DEF EnTete
<1>13. \A f \in transit[r] : f.racine = q
  BY <1>1, <1>2 DEF InvDe, SuiteDe
<1>14. \A f \in transit'[r] : e.compteur < f.compteur
  BY <1>4, <1>5, <1>6, <1>7, <1>9, <1>12, <1>13
<1>15. \A g \in Ecrites(q, rangees[q]) :
         g.compteur <= e.compteur => g.compteur <= curseur[r] \/ g = e
  <2> SUFFICES ASSUME NEW g \in Ecrites(q, rangees[q]), g.compteur <= e.compteur,
                      ~(g.compteur <= curseur[r])
               PROVE  g = e
    OBVIOUS
  <2>1. g \in Estampille /\ g \in transit[r]
    BY <1>1, <1>2, <1>4 DEF InvDe, SuiteDe, Ecrites
  <2> QED BY <1>6, <1>7, <1>9, <1>14, <2>1
<1>16. SansTrouDe(r)'
  BY <1>1, <1>8, <1>10, <1>15 DEF InvDe, SansTrouDe, Ecrites
<1>17. FluxDe(r)'
  BY <1>1, <1>2, <1>9, <1>10 DEF InvDe, FluxDe
<1>18. SuiteDe(r)'
  <2>1. /\ e.compteur <= servi[r] /\ servi[r] <= compteur[q]
        /\ \A f \in aVenir[r] \cup transit'[r] :
             f.racine = q /\ e.compteur < f.compteur /\ f.compteur <= servi[r]
    BY <1>1, <1>2, <1>9, <1>14 DEF InvDe, SuiteDe
  <2>2. /\ \A g \in transit'[r], f \in aVenir[r] : g.compteur < f.compteur
        /\ clos[r] => aVenir[r] = {}
    BY <1>1, <1>2, <1>9 DEF InvDe, SuiteDe
  <2>3. ASSUME NEW g \in Ecrites(q, rangees[q])
        PROVE  /\ g.compteur <= curseur[r] => g.compteur <= e.compteur
               /\ g \in transit[r] => g.compteur <= e.compteur \/ g \in transit'[r]
    BY <1>4, <1>5, <1>6, <1>7, <1>9 DEF Ecrites
  <2>4. ASSUME NEW g \in Ecrites(q, rangees[q])
        PROVE  /\ \A f \in transit'[r] :
                    g.compteur <= f.compteur => g.compteur <= e.compteur \/ g \in transit'[r]
               /\ ~clos[r] /\ g.compteur <= servi[r] =>
                    g.compteur <= e.compteur \/ g \in transit'[r] \/ g \in aVenir[r]
    BY <1>1, <1>2, <1>9, <2>3 DEF InvDe, SuiteDe
  <2>5. rangees'[q] = rangees[q] /\ compteur'[q] = compteur[q]
    BY <1>1, <1>10
  <2> QED BY <1>2, <1>8, <2>1, <2>2, <2>4, <2>5 DEF SuiteDe
<1>19. InstantaneDe(r)'
  BY <1>1, <1>2 DEF InvDe, FluxDe, InstantaneDe
<1>20. \A f \in rangees'[r] : f.compteur <= compteur'[r]
  BY <1>1, <1>4, <1>6, <1>10 DEF InvDe, HorlogeDe
<1>21. curseur'[r] <= compteur[q]
  BY <1>1, <1>5, <1>8 DEF InvDe, HorlogeDe
<1>22. \A s \in Racine \ {r} : MemeFlux(s)
  BY <1>2, <1>9 DEF MemeFlux
<1> QED BY <1>2, <1>5, <1>9, <1>10, <1>11, <1>16, <1>17, <1>18, <1>19, <1>20, <1>21, <1>22,
           PasDApplication DEF SessionDe

\* A record of a snapshot is stored; the cursor does not move.
LEMMA InvAppliquerDeLInstantane ==
  ASSUME Inv, TypeOK', NEW r \in Racine, AppliquerDeLInstantane(r)
  PROVE  Inv'
<1> DEFINE q == Pair[r]
<1>1. TypeOK /\ InvDe(r) /\ q \in Racine /\ InvDe(q) /\ Pair[q] = r /\ q # r
  BY Paires DEF Inv
<1>2. /\ phase[r] = "instantane"
      /\ UNCHANGED <<operations, retirees, curseur, phase, aVenir, fin, coupe, servi, clos>>
  BY DEF AppliquerDeLInstantane
<1>3. PICK e \in transit[r] : transit' = [transit EXCEPT ![r] = @ \ {e}] /\ Ranger(r, e)
  BY DEF AppliquerDeLInstantane
<1>4. e \in rangees[q] /\ rangees[q] \in SUBSET Estampille /\ rangees[r] \in SUBSET Estampille
      /\ compteur[r] \in Nat
  BY <1>1, Types DEF InvDe, FluxDe
<1>5. /\ transit'[r] = transit[r] \ {e} /\ \A s \in Racine \ {r} : transit'[s] = transit[s]
  BY <1>1, <1>3, Domaines
<1>6. /\ rangees'[r] = rangees[r] \cup {e} /\ Ecrites(r, rangees'[r]) = Ecrites(r, rangees[r])
      /\ ecrit'[r] = ecrit[r]
      /\ compteur'[r] \in Nat /\ compteur'[r] >= compteur[r] /\ compteur'[r] >= e.compteur
      /\ compteur'[r] <= CompteurMax
      /\ \A s \in Racine \ {r} : /\ compteur'[s] = compteur[s] /\ ecrit'[s] = ecrit[s]
                                  /\ rangees'[s] = rangees[s]
  BY <1>3, <1>4, InvRanger
<1>7. ecrit' = ecrit
  <2>1. ecrit \in [Racine -> Nat] /\ ecrit' \in [Racine -> Nat]
    BY <1>1 DEF TypeOK
  <2> QED BY <1>6, <2>1
<1>8. SansTrouDe(r)'
  BY <1>1, <1>2, <1>6 DEF InvDe, SansTrouDe, Ecrites
<1>9. FluxDe(r)'
  BY <1>1, <1>2, <1>5, <1>6 DEF InvDe, FluxDe
<1>10. SuiteDe(r)'
  BY <1>2 DEF SuiteDe
<1>11. InstantaneDe(r)'
  BY <1>1, <1>2, <1>5, <1>6 DEF InvDe, InstantaneDe, Ecrites
<1>12. \A f \in rangees'[r] : f.compteur <= compteur'[r]
  BY <1>1, <1>4, <1>6 DEF InvDe, HorlogeDe, Estampille
<1>13. curseur'[r] <= compteur[q]
  BY <1>1, <1>2 DEF InvDe, HorlogeDe
<1>14. \A s \in Racine \ {r} : MemeFlux(s)
  BY <1>2, <1>5 DEF MemeFlux
<1> QED BY <1>2, <1>4, <1>6, <1>7, <1>8, <1>9, <1>10, <1>11, <1>12, <1>13, <1>14,
           PasDApplication DEF SessionDe

\* The end frame: the whole of the cut is held, the cursor goes to it.
LEMMA InvAppliquerLaFin ==
  ASSUME Inv, TypeOK', NEW r \in Racine, AppliquerLaFin(r)
  PROVE  Inv'
<1> DEFINE q == Pair[r]
<1>1. TypeOK /\ InvDe(r) /\ q \in Racine /\ InvDe(q) /\ Pair[q] = r /\ q # r
  BY Paires DEF Inv
<1>2. /\ phase[r] = "instantane" /\ transit[r] = {} /\ fin[r] = "en transit"
      /\ compteur' = [compteur EXCEPT ![r] = LePlusHaut(@, coupe[r])]
      /\ curseur'  = [curseur  EXCEPT ![r] = LePlusHaut(@, coupe[r])]
      /\ phase'    = [phase    EXCEPT ![r] = "ouverte"]
      /\ SansFlux({r}) /\ UNCHANGED <<ecrit, rangees, operations, retirees>>
  BY DEF AppliquerLaFin, Hisser
<1>3. /\ compteur[r] \in Nat /\ curseur[r] \in Nat /\ coupe[r] \in Nat /\ compteur[q] \in Nat
      /\ CompteurMax \in Nat /\ rangees[r] \in SUBSET Estampille /\ rangees[q] \in SUBSET Estampille
  BY <1>1, Types, VoieAssumption
<1>4. /\ compteur'[r] = LePlusHaut(compteur[r], coupe[r])
      /\ curseur'[r] = LePlusHaut(curseur[r], coupe[r]) /\ phase'[r] = "ouverte"
      /\ \A s \in Racine \ {r} : /\ compteur'[s] = compteur[s] /\ curseur'[s] = curseur[s]
                                  /\ phase'[s] = phase[s]
  BY <1>1, <1>2, Domaines
<1>5. /\ SessionDe(r)' /\ \A s \in Racine \ {r} : MemeFlux(s)
  BY <1>1, <1>2, <1>4, FluxAbandonne
<1>6. /\ coupe[r] <= compteur[q] /\ aVenir[r] = {} /\ curseur[r] <= compteur[q]
      /\ compteur[q] <= CompteurMax /\ compteur[r] <= CompteurMax
  BY <1>1, <1>2 DEF InvDe, FluxDe, HorlogeDe
<1>7. SansTrouDe(r)'
  <2>1. \A e \in Ecrites(q, rangees[q]) :
          e.compteur <= coupe[r] \/ e.compteur <= curseur[r] => e \in rangees[r]
    BY <1>1, <1>2, <1>6 DEF InvDe, InstantaneDe, SansTrouDe
  <2>2. curseur'[r] \in {coupe[r], curseur[r]}
    BY <1>3, <1>4, LePlusHautDeDeux
  <2> QED BY <1>2, <2>1, <2>2 DEF SansTrouDe
<1>8. compteur'[r] \in Nat /\ compteur'[r] >= compteur[r] /\ compteur'[r] <= CompteurMax
  BY <1>3, <1>4, <1>6 DEF LePlusHaut
<1>9. curseur'[r] <= compteur[q]
  BY <1>3, <1>4, <1>6 DEF LePlusHaut
<1>10. \A f \in rangees'[r] : f.compteur <= compteur'[r]
  <2> SUFFICES ASSUME NEW f \in rangees[r] PROVE f.compteur <= compteur'[r]
    BY <1>2
  <2>1. f.compteur \in Nat
    BY <1>3 DEF Estampille
  <2>2. f.compteur <= compteur[r]
    BY <1>1 DEF InvDe, HorlogeDe
  <2> QED BY <1>3, <1>8, <2>1, <2>2
<1> QED BY <1>2, <1>4, <1>5, <1>7, <1>8, <1>9, <1>10, PasDApplication

-----------------------------------------------------------------------------
(* The theorems.                                                           *)

LEMMA InvInitial ==
  Init => Inv
<1> SUFFICES ASSUME Init PROVE Inv
  OBVIOUS
<1>1. TypeOK
  BY DEF Init, TypeOK, Phase
<1>2. ASSUME NEW r \in Racine PROVE InvDe(r)
  <2>1. Pair[r] \in Racine /\ CompteurMax \in Nat
    BY Paires, VoieAssumption
  <2> QED BY <2>1 DEF Init, InvDe, HorlogeDe, JournalDe, SansTrouDe, FluxDe, SuiteDe,
                      InstantaneDe, Ecrites
<1> QED BY <1>1, <1>2 DEF Inv

\* One step, whichever root takes it, preserves the invariant.
LEMMA InvPreservee ==
  ASSUME Inv, [Next]_vars
  PROVE  Inv'
<1>1. TypeOK /\ TypeOK'
  <2>1. ASSUME NEW r \in Racine, Magasin(r) PROVE TypeOK'
    BY <2>1, TypeMagasin DEF Inv
  <2>2. ASSUME NEW r \in Racine, Tirer(r) PROVE TypeOK'
    BY <2>2, TypeOuvrir, TypeServir, TypeAppliquer DEF Tirer, Inv
  <2>3. ASSUME NEW r \in Racine, Panne(r) PROVE TypeOK'
    BY <2>3, TypeOuvrir, TypePanne DEF Panne, Inv
  <2>4. CASE UNCHANGED vars
    BY <2>4 DEF Inv, TypeOK, vars, entrepot, flux
  <2> QED BY <2>1, <2>2, <2>3, <2>4 DEF Next, Inv
<1>2. ASSUME UNCHANGED <<entrepot, phase, flux>> PROVE Inv'
  <2>1. ASSUME NEW s \in Racine PROVE MemeFlux(s) /\ MemeMagasin(s)
    BY <1>2 DEF entrepot, flux, MemeFlux, MemeMagasin
  <2>2. ASSUME NEW s \in Racine PROVE InvDe(s)'
    BY <2>1, Paires, Ailleurs DEF Inv
  <2> QED BY <1>1, <2>2 DEF Inv
<1>3. ASSUME NEW r \in Racine, Magasin(r) PROVE Inv'
  <2>1. CASE Ecrire(r)
    BY <1>1, <2>1, InvEcrire
  <2>2. CASE Prevenir(r)
    BY <1>2, <2>2 DEF Prevenir
  <2>3. CASE Expirer(r)
    BY <1>1, <2>3, InvExpirer
  <2> QED BY <1>3, <2>1, <2>2, <2>3 DEF Magasin
<1>4. ASSUME NEW r \in Racine, Tirer(r) PROVE Inv'
  BY <1>1, <1>4, InvOuvrir, InvOuvrirLesOperations, InvCadrer, InvClore, InvSuivreLeJournal,
     InvAppliquerUneOperation, InvAppliquerDeLInstantane, InvAppliquerLaFin, InvAbandonner
     DEF Tirer
<1>5. ASSUME NEW r \in Racine, Panne(r) PROVE Inv'
  BY <1>1, <1>5, InvOuvrir, InvAbandonner DEF Panne
<1>6. CASE UNCHANGED vars
  BY <1>2, <1>6 DEF vars
<1> QED BY <1>3, <1>4, <1>5, <1>6 DEF Next

\* The strengthened invariant holds of every behaviour.
THEOREM Surete == Spec => []Inv
BY InvInitial, InvPreservee, PTL DEF Spec

\* The cursor passes over nothing, for any number of pairs of roots.
THEOREM SansTrouTenu == Spec => []SansTrou
<1>1. Inv => SansTrou
  BY DEF Inv, InvDe, SansTrouDe, SansTrou
<1> QED BY <1>1, Surete, PTL

\* A cursor that has reached what the peer says it wrote has applied all of it.
THEOREM RienNeManqueTenu == Spec => []RienNeManque
<1>1. Inv => RienNeManque
  <2> SUFFICES ASSUME Inv, NEW r \in Racine, curseur[r] >= ecrit[Pair[r]],
                      NEW e \in Ecrites(Pair[r], rangees[Pair[r]])
               PROVE  e \in rangees[r]
    BY DEF RienNeManque
  <2>1. InvDe(r) /\ Pair[r] \in Racine /\ InvDe(Pair[r]) /\ TypeOK
    BY Paires DEF Inv
  <2>2. e.compteur \in Nat /\ curseur[r] \in Nat /\ ecrit[Pair[r]] \in Nat
    BY <2>1, Types DEF Ecrites, Estampille
  <2>3. e.compteur <= ecrit[Pair[r]]
    BY <2>1 DEF InvDe, JournalDe
  <2>4. e.compteur <= curseur[r]
    BY <2>2, <2>3
  <2> QED BY <2>1, <2>4 DEF InvDe, SansTrouDe
<1> QED BY <1>1, Surete, PTL

\* No root holds, carries or acknowledges a stamp of another root's future.
THEOREM HorlogeDevantTenue == Spec => []HorlogeDevant
<1>1. Inv => HorlogeDevant
  <2> SUFFICES ASSUME Inv, NEW r \in Racine
               PROVE  /\ \A e \in rangees[r] : e.compteur <= compteur[r]
                      /\ \A s \in Racine : \A e \in rangees[s] \cup aVenir[s] \cup transit[s] :
                            e.racine = r => e \in rangees[r] /\ e.compteur <= compteur[r]
                      /\ curseur[Pair[r]] <= compteur[r]
    BY DEF HorlogeDevant
  <2>1. InvDe(r) /\ Pair[r] \in Racine /\ Pair[Pair[r]] = r
    BY Paires DEF Inv
  <2>2. ASSUME NEW s \in Racine, NEW e \in rangees[s] \cup aVenir[s] \cup transit[s], e.racine = r
        PROVE  e \in rangees[r]
    <3>1. InvDe(s) /\ Pair[s] \in Racine /\ InvDe(Pair[s]) /\ Pair[Pair[s]] = s
      BY Paires DEF Inv
    <3>2. e \in rangees[s] \/ e \in rangees[Pair[s]]
      BY <3>1 DEF InvDe, FluxDe
    <3>3. r \in {s, Pair[s]}
      BY <2>2, <3>1, <3>2 DEF InvDe, HorlogeDe
    <3> QED BY <2>1, <2>2, <3>1, <3>2, <3>3 DEF InvDe, HorlogeDe, Ecrites
  <2> QED BY <2>1, <2>2 DEF InvDe, HorlogeDe
<1> QED BY <1>1, Surete, PTL

\* The refusals of the operations stream are never exercised.
THEOREM RienNEstRefuseTenu == Spec => []RienNEstRefuse
<1>1. Inv => RienNEstRefuse
  <2> SUFFICES ASSUME Inv, NEW r \in Racine, phase[r] = "operations",
                      NEW e \in transit[r] \cup aVenir[r]
               PROVE  ~Refusee(r, e)
    BY DEF RienNEstRefuse
  <2>1. InvDe(r) /\ TypeOK /\ Pair[r] # r
    BY Paires DEF Inv
  <2>2. e.racine = Pair[r] /\ curseur[r] < e.compteur
    BY <2>1 DEF InvDe, SuiteDe
  <2>3. e.compteur \in Nat /\ curseur[r] \in Nat
    BY <2>1, Types DEF Estampille
  <2> QED BY <2>1, <2>2, <2>3 DEF Refusee
<1> QED BY <1>1, Surete, PTL

-----------------------------------------------------------------------------
(* What speaks of steps: nothing moves back, and the refinement.           *)

\* What a step that is not an application does to the cursors and the records.
LEMMA PasMuets ==
  ASSUME NEW r \in Racine,
         \/ Prevenir(r) \/ Expirer(r) \/ OuvrirLaSession(r) \/ OuvrirLesOperations(r)
         \/ RepondreHorsJournal(r) \/ OuvrirLInstantane(r) \/ LireLInstantane(r)
         \/ EchouerALire(r) \/ Cadrer(r) \/ Clore(r) \/ SuivreLeJournal(r) \/ FinirLeFlux(r)
         \/ Couper(r) \/ Redemarrer(r)
  PROVE  UNCHANGED <<compteur, ecrit, rangees, curseur>>
BY DEF Prevenir, Expirer, OuvrirLaSession, OuvrirLesOperations, RepondreHorsJournal,
       OuvrirLInstantane, LireLInstantane, EchouerALire, Cadrer, Clore, SuivreLeJournal,
       FinirLeFlux, Couper, Redemarrer, entrepot

\* The only step that moves the floor of a journal.
LEMMA PasSansRetention ==
  ASSUME NEW r \in Racine, Next, ~(\E s \in Racine : Expirer(s))
  PROVE  UNCHANGED retirees
<1>1. ASSUME NEW s \in Racine, Ecrire(s) \/ Prevenir(s) PROVE UNCHANGED retirees
  BY <1>1 DEF Ecrire, Prevenir, entrepot
<1>2. ASSUME NEW s \in Racine, Tirer(s) PROVE UNCHANGED retirees
  <2>1. ASSUME OuvrirLaSession(s) \/ OuvrirLesOperations(s) \/ RepondreHorsJournal(s)
               \/ OuvrirLInstantane(s) \/ LireLInstantane(s)
        PROVE UNCHANGED retirees
    BY <2>1 DEF OuvrirLaSession, OuvrirLesOperations, RepondreHorsJournal, OuvrirLInstantane,
                LireLInstantane, entrepot
  <2>2. ASSUME Cadrer(s) \/ Clore(s) \/ SuivreLeJournal(s) \/ FinirLeFlux(s)
        PROVE UNCHANGED retirees
    BY <2>2 DEF Cadrer, Clore, SuivreLeJournal, FinirLeFlux, entrepot
  <2>3. ASSUME AppliquerUneOperation(s) \/ AppliquerDeLInstantane(s) \/ AppliquerLaFin(s)
        PROVE UNCHANGED retirees
    BY <2>3 DEF AppliquerUneOperation, AppliquerDeLInstantane, AppliquerLaFin
  <2> QED BY <1>2, <2>1, <2>2, <2>3 DEF Tirer
<1>3. ASSUME NEW s \in Racine, Panne(s) PROVE UNCHANGED retirees
  BY <1>3 DEF Panne, Couper, Redemarrer, EchouerALire, entrepot
<1> QED BY <1>1, <1>2, <1>3 DEF Next, Magasin

\* What an applied frame of the operations stream is: the peer's, above the
\* cursor, so never refused.
LEMMA OperationAppliquee ==
  ASSUME Inv, NEW r \in Racine, AppliquerUneOperation(r)
  PROVE  \E e \in rangees[Pair[r]] :
           /\ e.racine = Pair[r] /\ e.compteur \in Nat /\ curseur[r] < e.compteur
           /\ Ranger(r, e) /\ curseur' = [curseur EXCEPT ![r] = e.compteur]
           /\ UNCHANGED retirees
<1>1. TypeOK /\ InvDe(r) /\ Pair[r] # r
  BY Paires DEF Inv
<1>2. PICK e \in transit[r] :
        ~Refusee(r, e) => Ranger(r, e) /\ curseur' = [curseur EXCEPT ![r] = LePlusHaut(@, e.compteur)]
  BY DEF AppliquerUneOperation, Hisser
<1>3. phase[r] = "operations" /\ UNCHANGED retirees
  BY DEF AppliquerUneOperation
<1>4. e \in rangees[Pair[r]] /\ e.racine = Pair[r] /\ curseur[r] < e.compteur
  BY <1>1, <1>3 DEF InvDe, FluxDe, SuiteDe
<1>5. e.compteur \in Nat /\ curseur[r] \in Nat
  BY <1>1, Types DEF Estampille
<1>6. LePlusHaut(curseur[r], e.compteur) = e.compteur /\ ~Refusee(r, e)
  BY <1>1, <1>4, <1>5 DEF LePlusHaut, Refusee
<1> QED BY <1>2, <1>3, <1>4, <1>5, <1>6

\* What an applied record of a snapshot is: one the peer holds.
LEMMA EnregistrementApplique ==
  ASSUME Inv, NEW r \in Racine, AppliquerDeLInstantane(r)
  PROVE  \E e \in rangees[Pair[r]] : Ranger(r, e) /\ UNCHANGED <<curseur, retirees>>
<1>1. InvDe(r)
  BY DEF Inv
<1> QED BY <1>1 DEF AppliquerDeLInstantane, InvDe, FluxDe

\* One step never lowers the clock, the cursor, the floor of the journal or
\* what the root says it wrote, and never loses a record.
LEMMA PasEnAvant ==
  ASSUME Inv, Next, NEW s \in Racine
  PROVE  /\ compteur'[s] >= compteur[s] /\ curseur'[s]  >= curseur[s]
         /\ ecrit'[s]    >= ecrit[s]    /\ retirees'[s] >= retirees[s]
         /\ rangees[s] \subseteq rangees'[s]
<1>1. TypeOK
  BY DEF Inv
<1>2. /\ compteur[s] \in Nat /\ curseur[s] \in Nat /\ ecrit[s] \in Nat /\ retirees[s] \in Nat
      /\ coupe[s] \in Nat
  BY <1>1, Types
<1>3. retirees'[s] >= retirees[s]
  <2>1. ASSUME NEW r \in Racine, Expirer(r) PROVE retirees'[s] >= retirees[s]
    <3>1. PICK n \in operations[r] : retirees' = [retirees EXCEPT ![r] = LePlusHaut(@, n)]
      BY <2>1 DEF Expirer, Hisser
    <3>2. n \in Nat
      BY <1>1, Types
    <3>3. CASE s = r
      BY <1>1, <1>2, <3>1, <3>2, <3>3, Domaines, LePlusHautDeDeux
    <3>4. CASE s # r
      BY <1>1, <1>2, <3>1, <3>4, Domaines
    <3> QED BY <3>3, <3>4
  <2>2. CASE ~(\E r \in Racine : Expirer(r))
    BY <1>2, <2>2, PasSansRetention
  <2> QED BY <2>1, <2>2
<1>4. ASSUME UNCHANGED <<compteur, ecrit, rangees, curseur>>
      PROVE  /\ compteur'[s] >= compteur[s] /\ curseur'[s] >= curseur[s]
             /\ ecrit'[s] >= ecrit[s] /\ rangees[s] \subseteq rangees'[s]
  BY <1>2, <1>4
<1>5. ASSUME NEW r \in Racine, Ecrire(r)
      PROVE  /\ compteur'[s] >= compteur[s] /\ curseur'[s] >= curseur[s]
             /\ ecrit'[s] >= ecrit[s] /\ rangees[s] \subseteq rangees'[s]
  <2>1. compteur' = [compteur EXCEPT ![r] = @ + 1] /\ UNCHANGED curseur
        /\ ecrit' = [ecrit EXCEPT ![r] = LePlusHaut(@, compteur[r] + 1)]
        /\ \E x : rangees' = [rangees EXCEPT ![r] = @ \cup {x}]
    BY <1>5 DEF Ecrire, Hisser
  <2>2. compteur[s] + 1 \in Nat
    BY <1>2
  <2>3. LePlusHaut(ecrit[s], compteur[s] + 1) >= ecrit[s]
    BY <1>2, <2>2, LePlusHautDeDeux
  <2> QED BY <1>1, <1>2, <2>1, <2>3, Domaines
<1>6. ASSUME NEW r \in Racine, AppliquerUneOperation(r) \/ AppliquerDeLInstantane(r)
      PROVE  /\ compteur'[s] >= compteur[s] /\ curseur'[s] >= curseur[s]
             /\ ecrit'[s] >= ecrit[s] /\ rangees[s] \subseteq rangees'[s]
  <2>1. PICK e \in rangees[Pair[r]] : Ranger(r, e)
    BY <1>6, OperationAppliquee, EnregistrementApplique
  <2>2. compteur'[s] >= compteur[s] /\ ecrit'[s] >= ecrit[s] /\ rangees[s] \subseteq rangees'[s]
    BY <1>2, <2>1, InvRanger
  <2>3. curseur'[s] >= curseur[s]
    <3>1. CASE AppliquerUneOperation(r)
      <4>1. PICK n \in Nat : curseur[r] < n /\ curseur' = [curseur EXCEPT ![r] = n]
        BY <3>1, OperationAppliquee
      <4> QED BY <1>1, <1>2, <4>1, Domaines
    <3>2. CASE AppliquerDeLInstantane(r)
      BY <1>2, <3>2, EnregistrementApplique
    <3> QED BY <1>6, <3>1, <3>2
  <2> QED BY <2>2, <2>3
<1>7. ASSUME NEW r \in Racine, AppliquerLaFin(r)
      PROVE  /\ compteur'[s] >= compteur[s] /\ curseur'[s] >= curseur[s]
             /\ ecrit'[s] >= ecrit[s] /\ rangees[s] \subseteq rangees'[s]
  <2>1. /\ compteur' = [compteur EXCEPT ![r] = LePlusHaut(@, coupe[r])]
        /\ curseur'  = [curseur  EXCEPT ![r] = LePlusHaut(@, coupe[r])]
        /\ UNCHANGED <<ecrit, rangees>>
    BY <1>7 DEF AppliquerLaFin, Hisser
  <2>2. CASE s = r
    BY <1>1, <1>2, <2>1, <2>2, Domaines, LePlusHautDeDeux
  <2>3. CASE s # r
    BY <1>1, <1>2, <2>1, <2>3, Domaines
  <2> QED BY <2>2, <2>3
<1> QED BY <1>3, <1>4, <1>5, <1>6, <1>7, PasMuets DEF Next, Magasin, Tirer, Panne

\* Nothing ever moves back.
THEOREM RienNeReculeTenu == Spec => RienNeRecule
<1>1. Inv /\ [Next]_vars =>
        [\A r \in Racine :
           /\ compteur'[r] >= compteur[r] /\ curseur'[r]  >= curseur[r]
           /\ ecrit'[r]    >= ecrit[r]    /\ retirees'[r] >= retirees[r]
           /\ rangees[r] \subseteq rangees'[r]]_vars
  BY PasEnAvant
<1> QED BY <1>1, Surete, PTL DEF Spec, RienNeRecule

-----------------------------------------------------------------------------
(* The refinement.                                                         *)

\* Learning one record the peer holds, or none, while the cursor goes to n and
\* nothing the peer wrote up to n is missing.
LEMMA Apprentissage ==
  ASSUME Inv, NEW r \in Racine, NEW S \in SUBSET rangees[Pair[r]], NEW n \in 0..CompteurMax,
         n >= curseur[r],
         \A e \in Ecrites(Pair[r], rangees[Pair[r]]) : e.compteur <= n => e \in rangees[r] \cup S,
         rangees' = [rangees EXCEPT ![r] = @ \cup S],
         curseur' = [curseur EXCEPT ![r] = n]
  PROVE  R!Next
BY DEF R!Next, R!Apprendre, R!Ecrites, Ecrites

\* A local write of the detailed specification is one of the abstract one.
LEMMA EcritureAbstraite ==
  ASSUME Inv, NEW r \in Racine, Ecrire(r)
  PROVE  R!Next
<1> DEFINE n == compteur[r] + 1
<1>1. TypeOK /\ InvDe(r) /\ Pair[r] \in Racine /\ CompteurMax \in Nat
  BY Paires, VoieAssumption DEF Inv
<1>2. /\ compteur[r] \in Nat /\ curseur[Pair[r]] \in Nat /\ rangees[r] \in SUBSET Estampille
  BY <1>1, Types
<1>3. n \in 0..CompteurMax /\ UNCHANGED curseur
  BY <1>1, <1>2 DEF Ecrire
<1>4. rangees' = [rangees EXCEPT ![r] = @ \cup {[compteur |-> n, racine |-> r]}]
  BY DEF Ecrire
<1>5. curseur[Pair[r]] < n
  <2>1. curseur[Pair[r]] <= compteur[r]
    BY <1>1 DEF InvDe, HorlogeDe
  <2> QED BY <1>2, <2>1
<1>6. \A e \in rangees[r] : e.compteur < n
  <2> SUFFICES ASSUME NEW e \in rangees[r] PROVE e.compteur < n
    OBVIOUS
  <2>1. e.compteur \in Nat /\ e.compteur <= compteur[r]
    BY <1>1, <1>2 DEF InvDe, HorlogeDe, Estampille
  <2> QED BY <1>2, <2>1
<1> HIDE DEF n
<1> QED BY <1>3, <1>4, <1>5, <1>6 DEF R!Next, R!Ecrire

\* The cursor and the clock stay within the bound of the abstract clock.
LEMMA CurseurBorne ==
  ASSUME Inv, NEW r \in Racine
  PROVE  /\ curseur[r] \in 0..CompteurMax
         /\ \A e \in rangees[r] : e.compteur \in 0..CompteurMax
<1>1. /\ TypeOK /\ InvDe(r) /\ Pair[r] \in Racine /\ InvDe(Pair[r]) /\ Pair[Pair[r]] = r
      /\ CompteurMax \in Nat
  BY Paires, VoieAssumption DEF Inv
<1>2. /\ curseur[r] \in Nat /\ compteur[r] \in Nat /\ compteur[Pair[r]] \in Nat
      /\ \A e \in rangees[r] : e.compteur \in Nat
  BY <1>1, Types DEF Estampille
<1>3. /\ curseur[r] <= compteur[Pair[r]] /\ compteur[Pair[r]] <= CompteurMax
      /\ compteur[r] <= CompteurMax
      /\ \A e \in rangees[r] : e.compteur <= compteur[r]
  BY <1>1 DEF InvDe, HorlogeDe
<1> QED BY <1>1, <1>2, <1>3

\* A frame of the operations stream is one learnt record and the cursor on it.
LEMMA OperationAbstraite ==
  ASSUME Inv, TypeOK', NEW r \in Racine, AppliquerUneOperation(r), Inv'
  PROVE  R!Next
<1>1. TypeOK /\ Pair[r] \in Racine /\ Pair[r] # r
  BY Paires DEF Inv
<1>2. PICK e \in rangees[Pair[r]] :
        /\ e.compteur \in Nat /\ curseur[r] < e.compteur /\ Ranger(r, e)
        /\ curseur' = [curseur EXCEPT ![r] = e.compteur]
  BY OperationAppliquee
<1>3. /\ rangees' = [rangees EXCEPT ![r] = @ \cup {e}] /\ rangees'[r] = rangees[r] \cup {e}
      /\ rangees'[Pair[r]] = rangees[Pair[r]] /\ curseur'[r] = e.compteur
  BY <1>1, <1>2, Domaines DEF Ranger
<1>4. \A g \in Ecrites(Pair[r], rangees[Pair[r]]) : g.compteur <= e.compteur => g \in rangees[r] \cup {e}
  BY <1>3 DEF Inv, InvDe, SansTrouDe
<1>5. e.compteur \in 0..CompteurMax /\ e.compteur >= curseur[r]
  BY <1>1, <1>2, CurseurBorne, Types
<1> QED BY <1>2, <1>3, <1>4, <1>5, Apprentissage

\* A record of a snapshot is learnt without moving the cursor.
LEMMA EnregistrementAbstrait ==
  ASSUME Inv, NEW r \in Racine, AppliquerDeLInstantane(r)
  PROVE  R!Next
<1>1. TypeOK /\ InvDe(r)
  BY DEF Inv
<1>2. PICK e \in rangees[Pair[r]] : Ranger(r, e) /\ UNCHANGED curseur
  BY EnregistrementApplique
<1>3. rangees' = [rangees EXCEPT ![r] = @ \cup {e}] /\ curseur' = [curseur EXCEPT ![r] = curseur[r]]
  BY <1>1, <1>2 DEF Ranger, TypeOK
<1>4. \A g \in Ecrites(Pair[r], rangees[Pair[r]]) : g.compteur <= curseur[r] => g \in rangees[r] \cup {e}
  BY <1>1 DEF InvDe, SansTrouDe
<1>5. curseur[r] \in 0..CompteurMax /\ curseur[r] >= curseur[r]
  BY CurseurBorne
<1> QED BY <1>3, <1>4, <1>5, Apprentissage

\* The end frame moves the cursor over what is held.
LEMMA FinAbstraite ==
  ASSUME Inv, NEW r \in Racine, AppliquerLaFin(r), Inv'
  PROVE  R!Next
<1>1. TypeOK /\ TypeOK' /\ Pair[r] \in Racine
  BY Paires DEF Inv
<1>2. curseur' = [curseur EXCEPT ![r] = LePlusHaut(@, coupe[r])] /\ UNCHANGED rangees
  BY DEF AppliquerLaFin, Hisser
<1>3. curseur'[r] = LePlusHaut(curseur[r], coupe[r])
  BY <1>1, <1>2, Domaines
<1>4. curseur'[r] >= curseur[r] /\ curseur' = [curseur EXCEPT ![r] = curseur'[r]]
  <2>1. curseur[r] \in Nat /\ coupe[r] \in Nat
    BY <1>1, Types
  <2>2. LePlusHaut(curseur[r], coupe[r]) >= curseur[r]
    BY <2>1, LePlusHautDeDeux
  <2> QED BY <1>2, <1>3, <2>2
<1>5. rangees' = [rangees EXCEPT ![r] = @ \cup {}]
  <2>1. rangees[r] \cup {} = rangees[r]
    OBVIOUS
  <2>2. rangees = [rangees EXCEPT ![r] = rangees[r]]
    BY <1>1 DEF TypeOK
  <2> QED BY <1>2, <2>1, <2>2
<1>6. \A g \in Ecrites(Pair[r], rangees[Pair[r]]) : g.compteur <= curseur'[r] => g \in rangees[r]
  BY <1>2 DEF Inv, InvDe, SansTrouDe
<1>7. curseur'[r] \in 0..CompteurMax
  <2>1. InvDe(r)' /\ InvDe(Pair[r])' /\ Pair[Pair[r]] = r
    BY <1>1, Paires DEF Inv
  <2>2. curseur'[r] <= compteur'[Pair[r]] /\ compteur'[Pair[r]] <= CompteurMax
    BY <2>1 DEF InvDe, HorlogeDe
  <2>3. curseur'[r] \in Nat /\ compteur'[Pair[r]] \in Nat
    BY <1>1 DEF TypeOK
  <2> QED BY <2>2, <2>3, VoieAssumption
<1> QED BY <1>4, <1>5, <1>6, <1>7, Apprentissage

\* Voie implements Rattrapage: initial states, and every step or a stutter.
THEOREM Raffinement == Spec => Rattrape
<1>1. Init => R!Init
  BY DEF Init, R!Init
<1>2. Inv /\ Inv' /\ [Next]_vars => [R!Next]_(R!vars)
  <2> SUFFICES ASSUME Inv, Inv', [Next]_vars PROVE R!Next \/ UNCHANGED <<rangees, curseur>>
    BY DEF R!vars
  <2>1. ASSUME NEW r \in Racine, Magasin(r) PROVE R!Next \/ UNCHANGED <<rangees, curseur>>
    BY <2>1, EcritureAbstraite, PasMuets DEF Magasin
  <2>2. ASSUME NEW r \in Racine, Tirer(r) PROVE R!Next \/ UNCHANGED <<rangees, curseur>>
    BY <2>2, OperationAbstraite, EnregistrementAbstrait, FinAbstraite, PasMuets DEF Tirer, Inv
  <2>3. ASSUME NEW r \in Racine, Panne(r) PROVE R!Next \/ UNCHANGED <<rangees, curseur>>
    BY <2>3, PasMuets DEF Panne
  <2>4. CASE UNCHANGED vars
    BY <2>4 DEF vars, entrepot
  <2> QED BY <2>1, <2>2, <2>3, <2>4 DEF Next
<1> QED BY <1>1, <1>2, Surete, PTL DEF Spec, Rattrape, R!Spec

-----------------------------------------------------------------------------
(* Sessions: the facts about the constants, used everywhere below.         *)

USE SessionsAssumption

-----------------------------------------------------------------------------
(* Types, with what is known of the request being served.                  *)

UneSession == [defi : 0..DefisMax, pair : Identite \cup {Personne},
               cle : Cle \cup {SansCle}, local : BOOLEAN]

TypeEntrepot ==
  /\ cle \in [Identite -> Cle \cup {SansCle}]
  /\ connues \in [Identite -> SUBSET Cle] /\ clesRetirees \in [Identite -> SUBSET Cle]
  /\ proprietaire \in [Fermable -> Compte \cup {Personne}] /\ effaces \subseteq Compte
  /\ retraits \in Nat

TypeConnexions ==
  /\ etat \in [Connexion -> {"absente", "ouverte", "close"}]
  /\ session \in [Connexion -> UneSession]
  /\ tires \in 0..DefisMax /\ actes \in [1..DefisMax -> Nat]

TypeBoucle ==
  /\ tour \in {"debut", "lecture", "oubli"} /\ lue \in Connexion \cup {Personne}
  /\ demande \in [quoi : {"rien", "preuve", "attestation", "gestion"},
                   connexion : Connexion \cup {Personne},
                   qui : Identite \cup {Personne}, compte : Compte \cup {Personne},
                   cle : Cle \cup {SansCle}, defi : 0..DefisMax]
  /\ revoques \subseteq Fermable /\ canal \subseteq Fermable /\ enMain \subseteq Fermable

\* A request is served while the loop reads, on a connection that is open; what it
\* holds is worth something, or is nothing.
DemandeJuste ==
  /\ demande.quoi = "rien" => demande = Repos
  /\ demande.quoi # "rien" =>
       tour = "lecture" /\ demande.connexion \in Connexion /\ etat[demande.connexion] = "ouverte"
  /\ demande.quoi \in {"preuve", "attestation"} =>
       /\ demande.qui # Personne <=> demande.defi # 0
       /\ demande.cle # SansCle  <=> demande.defi # 0
       /\ demande.defi # 0 => demande.defi = session[demande.connexion].defi
  /\ demande.quoi = "attestation" =>
       demande.qui \in Appareil \cup {Personne} /\ demande.cle \in {SansCle, 1}
  /\ demande.quoi = "gestion" =>
       /\ demande.qui \in Appareil /\ demande.compte \in Compte
       /\ demande.defi = 0 /\ demande.cle = SansCle

TypeJuste == TypeEntrepot /\ TypeConnexions /\ TypeBoucle /\ DemandeJuste

LEMMA TypeEnTrois == TypeSessions <=> TypeEntrepot /\ TypeConnexions /\ TypeBoucle
BY DEF TypeSessions, TypeEntrepot, TypeConnexions, TypeBoucle, UneSession

\* 1 is the key of a device.
LEMMA CleUne == 1 \in Cle /\ SansCle \notin Cle /\ 0 \in 0..DefisMax
BY DEF Cle, SansCle

LEMMA TypeCreer ==
  ASSUME TypeEntrepot, NEW x \in Fermable, NEW u \in Compte, NEW k \in {SansCle, 1}, Creer(x, u, k)
  PROVE  TypeEntrepot'
BY CleUne DEF TypeEntrepot, Creer, Fermable, Identite

LEMMA TypeLierCle ==
  ASSUME TypeEntrepot, NEW x \in Fermable, NEW k \in Cle, LierCle(x, k)
  PROVE  TypeEntrepot'
BY DEF TypeEntrepot, LierCle, Fermable, Identite

LEMMA TypeRetirerCle ==
  ASSUME TypeEntrepot, NEW x \in Identite, NEW k \in Cle \cup {SansCle}, RetirerCle(x, k)
  PROVE  TypeEntrepot'
BY DEF TypeEntrepot, RetirerCle, Retrait

LEMMA TypeEffacer ==
  ASSUME TypeEntrepot, NEW comptes \in SUBSET Compte, Effacer(comptes), retraits' \in Nat
  PROVE  TypeEntrepot'
BY DEF TypeEntrepot, Effacer

LEMMA TypePossede == ASSUME NEW u PROVE Possede(u) \subseteq Fermable
BY DEF Possede

\* A closing leaves the connection of a request open only if there is no request.
LEMMA TypeFermer ==
  ASSUME TypeConnexions, NEW quels, NEW epargnee, Fermer(quels, epargnee),
         UNCHANGED <<session, tires, actes>>
  PROVE  TypeConnexions'
BY DEF TypeConnexions, Fermer
-----------------------------------------------------------------------------
(* What a request does to the session it came on.                          *)

\* The session of c alone is written.
SessionEcrite(c, neuve) ==
  /\ session' \in [Connexion -> UneSession]
  /\ session'[c] = neuve
  /\ \A x \in Connexion \ {c} : session'[x] = session[x]

LEMMA EcrireDefi ==
  ASSUME TypeConnexions, NEW c \in Connexion, NEW d \in 0..DefisMax,
         session' = [session EXCEPT ![c].defi = d]
  PROVE  SessionEcrite(c, [session[c] EXCEPT !.defi = d])
<1>1. [session[c] EXCEPT !.defi = d] \in UneSession
  BY ZenonT(40) DEF TypeConnexions, UneSession
<1> QED BY <1>1 DEF TypeConnexions, SessionEcrite

LEMMA EcrireAppareil ==
  ASSUME TypeConnexions, NEW c \in Connexion, NEW a \in Appareil,
         session' = [session EXCEPT ![c] = [@ EXCEPT !.defi = 0, !.pair = a, !.cle = 1]]
  PROVE  SessionEcrite(c, [session[c] EXCEPT !.defi = 0, !.pair = a, !.cle = 1])
<1>1. [session[c] EXCEPT !.defi = 0, !.pair = a, !.cle = 1] \in UneSession
  BY CleUne, ZenonT(40) DEF TypeConnexions, UneSession, Identite, Fermable
<1> QED BY <1>1 DEF TypeConnexions, SessionEcrite

LEMMA EcrirePreuve ==
  ASSUME TypeConnexions, NEW c \in Connexion, NEW x \in Identite, NEW k \in Cle,
         NEW d \in 0..DefisMax, Prouver(c, x, k, d, TRUE)
  PROVE  SessionEcrite(c, [defi |-> 0, pair |-> x, cle |-> k, local |-> x \in Local])
<1>1. [defi |-> 0, pair |-> x, cle |-> k, local |-> x \in Local] \in UneSession
  BY DEF UneSession
<1>2. session' = [session EXCEPT ![c] =
                    [defi |-> 0, pair |-> x, cle |-> k, local |-> x \in Local]]
  BY DEF Prouver, Pris, Locale
<1> QED BY <1>1, <1>2 DEF TypeConnexions, SessionEcrite

\* The challenge of c is taken, and counted if it was accepted.
DefiPris(c) ==
  /\ session' \in [Connexion -> UneSession]
  /\ session'[c].defi = 0
  /\ \A x \in Connexion \ {c} : session'[x] = session[x]
  /\ tires' = tires
  /\ \/ actes' = actes
     \/ session[c].defi # 0 /\ actes' = [actes EXCEPT ![session[c].defi] = @ + 1]

LEMMA PreuvePrise ==
  ASSUME TypeJuste, Verifier
  PROVE  DefiPris(demande.connexion)
<1> DEFINE c == demande.connexion
<1>1. c \in Connexion /\ demande.quoi = "preuve" /\ tires' = tires
  BY DEF TypeJuste, DemandeJuste, Verifier, Acheve
<1>2. CASE demande.defi = 0
  <2>1. session' = [session EXCEPT ![c].defi = 0] /\ actes' = actes
    BY <1>1, <1>2 DEF Verifier, Prouver, Pris, Compter
  <2>2. SessionEcrite(c, [session[c] EXCEPT !.defi = 0])
    BY <1>1, <2>1, CleUne, EcrireDefi DEF TypeJuste
  <2>3. session[c] \in UneSession
    BY <1>1 DEF TypeJuste, TypeConnexions
  <2> QED BY <1>1, <2>1, <2>2, <2>3 DEF SessionEcrite, DefiPris, UneSession
<1>3. CASE demande.defi # 0
  <2>1. /\ demande.qui \in Identite /\ demande.cle \in Cle /\ demande.defi \in 0..DefisMax
        /\ demande.defi = session[c].defi
    BY <1>1, <1>3 DEF TypeJuste, TypeBoucle, DemandeJuste
  <2>2. Prouver(c, demande.qui, demande.cle, demande.defi, TRUE)
    BY <1>3 DEF Verifier
  <2>3. SessionEcrite(c, [defi |-> 0, pair |-> demande.qui, cle |-> demande.cle,
                          local |-> demande.qui \in Local])
    BY <1>1, <2>1, <2>2, EcrirePreuve DEF TypeJuste
  <2>4. actes' = [actes EXCEPT ![session[c].defi] = @ + 1]
    BY <2>1, <2>2 DEF Prouver, Compter
  <2> QED BY <1>1, <1>3, <2>1, <2>3, <2>4 DEF SessionEcrite, DefiPris
<1> QED BY <1>2, <1>3

LEMMA AttestationPrise ==
  ASSUME TypeJuste, Attester
  PROVE  /\ DefiPris(demande.connexion)
         /\ \/ session'[demande.connexion] = [session[demande.connexion] EXCEPT !.defi = 0]
            \/ /\ demande.qui \in Appareil /\ demande.cle = 1
               /\ session'[demande.connexion] =
                    [session[demande.connexion] EXCEPT !.defi = 0, !.pair = demande.qui, !.cle = 1]
<1> DEFINE c == demande.connexion
           a == demande.qui
           accorde == a # Personne /\ proprietaire[a] # Personne
<1>1. c \in Connexion /\ demande.quoi = "attestation" /\ tires' = tires
  BY DEF TypeJuste, DemandeJuste, Attester, Acheve
<1>2. session[c] \in UneSession
  BY <1>1 DEF TypeJuste, TypeConnexions
<1>3. CASE ~accorde
  <2>1. session' = [session EXCEPT ![c].defi = 0] /\ actes' = actes
    BY <1>3 DEF Attester, Compter
  <2>2. SessionEcrite(c, [session[c] EXCEPT !.defi = 0])
    BY <1>1, <2>1, CleUne, EcrireDefi DEF TypeJuste
  <2> QED BY <1>1, <1>2, <2>1, <2>2 DEF SessionEcrite, DefiPris, UneSession
<1>4. CASE accorde
  <2>1. /\ a \in Appareil /\ demande.cle = 1 /\ demande.defi # 0
        /\ demande.defi = session[c].defi
    BY <1>1, <1>4 DEF TypeJuste, TypeBoucle, DemandeJuste
  <2>2. /\ session' = [session EXCEPT ![c] = [@ EXCEPT !.defi = 0, !.pair = a, !.cle = 1]]
        /\ actes' = [actes EXCEPT ![session[c].defi] = @ + 1]
    BY <1>4, <2>1 DEF Attester, Compter
  <2>3. SessionEcrite(c, [session[c] EXCEPT !.defi = 0, !.pair = a, !.cle = 1])
    BY <1>1, <2>1, <2>2, EcrireAppareil DEF TypeJuste
  <2> QED BY <1>1, <1>2, <2>1, <2>2, <2>3 DEF SessionEcrite, DefiPris, UneSession
<1> QED BY <1>3, <1>4

LEMMA CreationPrise ==
  ASSUME TypeJuste, NEW c \in Connexion, CreerCompte(c)
  PROVE  /\ DefiPris(c)
         /\ \E a \in Appareil, u \in Compte :
              /\ Creer(a, u, 1)
              /\ session'[c] = [session[c] EXCEPT !.defi = 0, !.pair = a, !.cle = 1]
<1>1. PICK a \in Appareil, u \in Compte :
        /\ session[c].defi # 0 /\ tires' = tires
        /\ Creer(a, u, 1)
        /\ session' = [session EXCEPT ![c] = [@ EXCEPT !.defi = 0, !.pair = a, !.cle = 1]]
        /\ actes' = [actes EXCEPT ![session[c].defi] = @ + 1]
  BY DEF CreerCompte, Compter
<1>2. SessionEcrite(c, [session[c] EXCEPT !.defi = 0, !.pair = a, !.cle = 1])
  BY <1>1, EcrireAppareil DEF TypeJuste
<1>3. session[c] \in UneSession
  BY DEF TypeJuste, TypeConnexions
<1>4. DefiPris(c)
  BY <1>1, <1>2, <1>3 DEF SessionEcrite, DefiPris, UneSession
<1>5. session'[c] = [session[c] EXCEPT !.defi = 0, !.pair = a, !.cle = 1]
  BY <1>2 DEF SessionEcrite
<1> QED BY <1>1, <1>4, <1>5

LEMMA AutrePrise ==
  ASSUME TypeJuste, NEW c \in Connexion, Enroler(c) \/ ConsommerLeDefi(c)
  PROVE  DefiPris(c) /\ session'[c] = [session[c] EXCEPT !.defi = 0]
<1>1. /\ session[c].defi # 0 /\ tires' = tires
      /\ session' = [session EXCEPT ![c].defi = 0]
      /\ actes' = actes \/ actes' = [actes EXCEPT ![session[c].defi] = @ + 1]
  BY DEF Enroler, ConsommerLeDefi, Compter
<1>2. SessionEcrite(c, [session[c] EXCEPT !.defi = 0])
  BY <1>1, CleUne, EcrireDefi DEF TypeJuste
<1>3. session[c] \in UneSession
  BY DEF TypeJuste, TypeConnexions
<1> QED BY <1>1, <1>2, <1>3 DEF SessionEcrite, DefiPris, UneSession

LEMMA TirageEcrit ==
  ASSUME TypeJuste, NEW c \in Connexion, TirerUnDefi(c)
  PROVE  SessionEcrite(c, [session[c] EXCEPT !.defi = tires + 1])
<1>1. tires + 1 \in 0..DefisMax /\ session' = [session EXCEPT ![c].defi = tires + 1]
  BY DEF TypeJuste, TypeConnexions, TirerUnDefi
<1> QED BY <1>1, EcrireDefi DEF TypeJuste

\* A challenge that is taken keeps the types of the connections.
LEMMA TypePris ==
  ASSUME TypeJuste, NEW c \in Connexion, DefiPris(c),
         etat' = etat
  PROVE  TypeConnexions'
<1>1. session[c].defi \in 0..DefisMax
  BY DEF TypeJuste, TypeConnexions, UneSession
<1>2. actes' \in [1..DefisMax -> Nat]
  BY <1>1 DEF TypeJuste, TypeConnexions, DefiPris
<1> QED BY <1>2 DEF TypeJuste, TypeConnexions, DefiPris
-----------------------------------------------------------------------------
(* Every step keeps the types.                                             *)

LEMMA ReposJuste ==
  /\ Repos \in [quoi : {"rien", "preuve", "attestation", "gestion"},
                 connexion : Connexion \cup {Personne},
                 qui : Identite \cup {Personne}, compte : Compte \cup {Personne},
                 cle : Cle \cup {SansCle}, defi : 0..DefisMax]
  /\ Repos.quoi = "rien" /\ Repos.qui = Personne /\ Repos.defi = 0 /\ Repos.cle = SansCle
BY CleUne DEF Repos

LEMMA DemandeRepos == ASSUME demande' = Repos PROVE DemandeJuste'
BY ReposJuste DEF DemandeJuste

LEMMA HorsLecture ==
  ASSUME TypeJuste, tour # "lecture" \/ EnLecture
  PROVE  demande = Repos
BY DEF TypeJuste, DemandeJuste, EnLecture

LEMMA TypeAuTour == ASSUME TypeJuste, AuTour PROVE TypeJuste'
<1>1. demande = Repos /\ demande' = Repos
  BY HorsLecture DEF AuTour
<1>2. PICK orphelins \in SUBSET Orphelins :
        /\ Effacer(orphelins) /\ UNCHANGED retraits
        /\ Fermer(revoques \cup canal \cup UNION {Possede(u) : u \in orphelins}, Personne)
  BY DEF AuTour
<1>3. TypeEntrepot'
  <2>1. orphelins \in SUBSET Compte
    BY DEF Orphelins
  <2> QED BY <1>2, <2>1, TypeEffacer DEF TypeJuste, TypeEntrepot
<1>4. TypeConnexions'
  BY <1>2, TypeFermer DEF AuTour, TypeJuste
<1>5. TypeBoucle'
  BY DEF AuTour, TypeJuste, TypeBoucle
<1> QED BY <1>1, <1>3, <1>4, <1>5, DemandeRepos DEF TypeJuste

LEMMA TypeDuTour ==
  ASSUME TypeJuste,
         \/ \E c \in Connexion : Ouvrir(c) \/ Tomber(c)
         \/ ApresLaLecture
         \/ OublierLesEteintes
  PROVE  TypeJuste'
<1>1. demande' = Repos
  BY HorsLecture DEF Ouvrir, Tomber, ApresLaLecture, OublierLesEteintes
<1>2. TypeEntrepot'
  BY DEF Ouvrir, Tomber, ApresLaLecture, OublierLesEteintes, magasin, TypeJuste, TypeEntrepot
<1>3. TypeConnexions'
  <2>1. CASE \E c \in Connexion : Ouvrir(c) \/ Tomber(c)
    BY <2>1 DEF Ouvrir, Tomber, TypeJuste, TypeConnexions
  <2>2. CASE ApresLaLecture
    BY <2>2, TypeFermer DEF ApresLaLecture, TypeJuste
  <2>3. CASE OublierLesEteintes
    <3>1. Neuve \in UneSession
      BY CleUne DEF Neuve, UneSession
    <3> QED BY <2>3, <3>1 DEF OublierLesEteintes, TypeJuste, TypeConnexions
  <2> QED BY <2>1, <2>2, <2>3
<1>4. TypeBoucle'
  BY DEF Ouvrir, Tomber, ApresLaLecture, OublierLesEteintes, RevoquesGardes, TypeJuste, TypeBoucle
<1> QED BY <1>1, <1>2, <1>3, <1>4, DemandeRepos DEF TypeJuste

\* What a request that begins leaves in the loop.
LEMMA TypeCommence ==
  ASSUME TypeJuste, NEW c \in Connexion, NEW d, Commence(c, d), revoques' = revoques,
         d \in [quoi : {"rien", "preuve", "attestation", "gestion"},
                connexion : Connexion \cup {Personne},
                qui : Identite \cup {Personne}, compte : Compte \cup {Personne},
                cle : Cle \cup {SansCle}, defi : 0..DefisMax]
  PROVE  TypeBoucle' /\ etat' = etat /\ etat[c] = "ouverte" /\ tour' = "lecture"
BY DEF Commence, EnLecture, TypeJuste, TypeBoucle

LEMMA TypeRequeteFaite ==
  ASSUME TypeJuste, NEW c \in Connexion,
         TirerUnDefi(c) \/ CreerCompte(c) \/ Enroler(c) \/ ConsommerLeDefi(c)
  PROVE  TypeJuste'
<1>1. Commence(c, Repos) /\ revoques' = revoques
  BY DEF TirerUnDefi, CreerCompte, Enroler, ConsommerLeDefi
<1>2. TypeBoucle' /\ etat' = etat /\ demande' = Repos
  BY <1>1, TypeCommence, ReposJuste DEF Commence
<1>3. TypeConnexions'
  <2>1. CASE TirerUnDefi(c)
    <3>1. session' \in [Connexion -> UneSession]
      BY <2>1, TirageEcrit DEF SessionEcrite
    <3>2. tires' \in 0..DefisMax /\ actes' = actes
      BY <2>1 DEF TirerUnDefi, TypeJuste, TypeConnexions
    <3> QED BY <1>2, <3>1, <3>2 DEF TypeJuste, TypeConnexions
  <2>2. CASE CreerCompte(c) \/ Enroler(c) \/ ConsommerLeDefi(c)
    BY <1>2, <2>2, TypePris, CreationPrise, AutrePrise
  <2> QED BY <2>1, <2>2
<1>4. TypeEntrepot'
  <2>1. CASE TirerUnDefi(c) \/ ConsommerLeDefi(c)
    BY <2>1 DEF TirerUnDefi, ConsommerLeDefi, magasin, TypeJuste, TypeEntrepot
  <2>2. CASE CreerCompte(c)
    BY <2>2, CreationPrise, TypeCreer DEF TypeJuste, Fermable
  <2>3. CASE Enroler(c)
    BY <2>3, TypeLierCle DEF Enroler, TypeJuste, Fermable
  <2> QED BY <2>1, <2>2, <2>3
<1> QED BY <1>2, <1>3, <1>4, DemandeRepos DEF TypeJuste

LEMMA SigneeJuste ==
  ASSUME TypeJuste, NEW quoi \in {"preuve", "attestation"}, NEW c \in Connexion, NEW x \in Identite,
         NEW k \in Cle \cup {SansCle}, NEW d \in 0..tires
  PROVE  /\ Signee(quoi, c, x, k, d) \in
              [quoi : {"rien", "preuve", "attestation", "gestion"},
               connexion : Connexion \cup {Personne},
               qui : Identite \cup {Personne}, compte : Compte \cup {Personne},
               cle : Cle \cup {SansCle}, defi : 0..DefisMax]
         /\ Signee(quoi, c, x, k, d).quoi = quoi /\ Signee(quoi, c, x, k, d).connexion = c
         /\ \/ /\ Signee(quoi, c, x, k, d).qui = Personne
               /\ Signee(quoi, c, x, k, d).cle = SansCle
               /\ Signee(quoi, c, x, k, d).defi = 0
            \/ /\ k # SansCle /\ session[c].defi # 0
               /\ Signee(quoi, c, x, k, d).qui = x
               /\ Signee(quoi, c, x, k, d).cle = k
               /\ Signee(quoi, c, x, k, d).defi = session[c].defi
<1>1. d \in 0..DefisMax
  BY DEF TypeJuste, TypeConnexions
<1> QED BY <1>1, CleUne DEF Signee

LEMMA TypeRequeteSignee ==
  ASSUME TypeJuste, NEW c \in Connexion, DemanderUnePreuve(c) \/ DemanderUneAttestation(c)
  PROVE  TypeJuste'
<1>1. PICK quoi \in {"preuve", "attestation"}, x \in Identite, k \in Cle \cup {SansCle},
           d \in 0..tires :
        /\ Commence(c, Signee(quoi, c, x, k, d))
        /\ quoi = "attestation" => x \in Appareil /\ k \in {SansCle, 1}
  <2>1. CASE DemanderUnePreuve(c)
    <3>1. PICK x \in Identite, d \in 0..tires : \E k \in connues[x] :
            Commence(c, Signee("preuve", c, x, IF cle[x] = k THEN k ELSE SansCle, d))
      BY <2>1 DEF DemanderUnePreuve
    <3> PICK k \in connues[x] :
            Commence(c, Signee("preuve", c, x, IF cle[x] = k THEN k ELSE SansCle, d))
      BY <3>1
    <3>2. (IF cle[x] = k THEN k ELSE SansCle) \in Cle \cup {SansCle}
      BY DEF TypeJuste, TypeEntrepot
    <3> QED BY <3>1, <3>2
  <2>2. CASE DemanderUneAttestation(c)
    <3>1. PICK a \in Appareil, d \in 0..tires :
            Commence(c, Signee("attestation", c, a, IF 1 \in clesRetirees[a] THEN SansCle ELSE 1, d))
      BY <2>2 DEF DemanderUneAttestation
    <3>2. (IF 1 \in clesRetirees[a] THEN SansCle ELSE 1) \in Cle \cup {SansCle} /\ a \in Identite
      BY CleUne DEF Identite, Fermable
    <3> QED BY <3>1, <3>2
  <2> QED BY <2>1, <2>2
<1>2. UNCHANGED <<magasin, session, tires, actes, revoques>>
  BY DEF DemanderUnePreuve, DemanderUneAttestation
<1>3. /\ TypeBoucle' /\ etat' = etat /\ etat[c] = "ouverte" /\ tour' = "lecture"
      /\ demande' = Signee(quoi, c, x, k, d)
  BY <1>1, <1>2, SigneeJuste, TypeCommence DEF Commence
<1>4. TypeEntrepot' /\ TypeConnexions'
  BY <1>2, <1>3 DEF magasin, TypeJuste, TypeEntrepot, TypeConnexions
<1>5. DemandeJuste'
  <2> DEFINE s == Signee(quoi, c, x, k, d)
  <2>1. /\ s.quoi = quoi /\ s.connexion = c
        /\ \/ s.qui = Personne /\ s.cle = SansCle /\ s.defi = 0
           \/ /\ k # SansCle /\ session[c].defi # 0
              /\ s.qui = x /\ s.cle = k /\ s.defi = session[c].defi
    BY SigneeJuste
  <2>2. x # Personne
    BY DEF Identite, Fermable, Annuaire
  <2> HIDE DEF s
  <2>3. demande' = s
    BY <1>3 DEF s
  <2>4. s.quoi \in {"preuve", "attestation"}
    BY <2>1
  <2>5. /\ s.qui # Personne <=> s.defi # 0
        /\ s.cle # SansCle <=> s.defi # 0
        /\ s.defi # 0 => s.defi = session'[c].defi
    BY <1>2, <2>1, <2>2
  <2>6. s.quoi = "attestation" => s.qui \in Appareil \cup {Personne} /\ s.cle \in {SansCle, 1}
    BY <1>1, <2>1
  <2> QED BY <1>3, <2>1, <2>3, <2>4, <2>5, <2>6 DEF DemandeJuste
<1> QED BY <1>3, <1>4, <1>5 DEF TypeJuste

LEMMA TypeRequeteDeGestion ==
  ASSUME TypeJuste, NEW c \in Connexion, DemanderUneGestion(c)
  PROVE  TypeJuste'
<1> DEFINE a == session[c].pair
           d == [quoi |-> "gestion", connexion |-> c, qui |-> a,
                 compte |-> proprietaire[a], cle |-> SansCle, defi |-> 0]
<1>1. /\ a \in Appareil /\ proprietaire[a] # Personne /\ Commence(c, d)
      /\ UNCHANGED <<magasin, session, tires, actes, revoques>>
  BY DEF DemanderUneGestion
<1>2. proprietaire[a] \in Compte /\ a \in Identite
  BY <1>1 DEF TypeJuste, TypeEntrepot, Identite, Fermable
<1>3. d \in [quoi : {"rien", "preuve", "attestation", "gestion"},
             connexion : Connexion \cup {Personne},
             qui : Identite \cup {Personne}, compte : Compte \cup {Personne},
             cle : Cle \cup {SansCle}, defi : 0..DefisMax]
  BY <1>2, CleUne
<1>4. /\ TypeBoucle' /\ etat' = etat /\ etat[c] = "ouverte" /\ tour' = "lecture"
      /\ demande' = d
  BY <1>1, <1>3, TypeCommence DEF Commence
<1>5. TypeEntrepot' /\ TypeConnexions'
  BY <1>1, <1>4 DEF magasin, TypeJuste, TypeEntrepot, TypeConnexions
<1>6. DemandeJuste'
  BY <1>1, <1>2, <1>4 DEF DemandeJuste
<1> QED BY <1>4, <1>5, <1>6 DEF TypeJuste
\* What an answer leaves in the loop, and in the store.
LEMMA TypeAcheve ==
  ASSUME TypeJuste, NEW quoi, Acheve(quoi), revoques' \subseteq Fermable
  PROVE  TypeBoucle' /\ DemandeJuste' /\ etat' = etat /\ tires' = tires
<1>1. demande' = Repos /\ UNCHANGED <<etat, tires, tour, lue, canal, enMain>>
  BY DEF Acheve
<1> QED BY <1>1, ReposJuste, DemandeRepos DEF TypeJuste, TypeBoucle

\* The identity of an answer to its owner.
LEMMA DeLaGestion ==
  ASSUME TypeJuste, Acheve("gestion")
  PROVE  demande.qui \in Appareil /\ demande.compte \in Compte
BY DEF Acheve, TypeJuste, DemandeJuste

LEMMA TypePreuve ==
  ASSUME TypeJuste, Verifier \/ Attester
  PROVE  TypeJuste'
<1>1. demande.connexion \in Connexion /\ DefiPris(demande.connexion)
  BY PreuvePrise, AttestationPrise DEF Verifier, Attester, Acheve, TypeJuste, DemandeJuste
<1>2. revoques' \subseteq Fermable
  BY DEF Verifier, Attester, TypeJuste, TypeBoucle
<1>3. TypeBoucle' /\ DemandeJuste' /\ etat' = etat
  BY <1>2, TypeAcheve DEF Verifier, Attester
<1>4. TypeConnexions'
  BY <1>1, <1>3, TypePris
<1>5. TypeEntrepot'
  <2>1. CASE Verifier
    BY <2>1 DEF Verifier, magasin, TypeJuste, TypeEntrepot
  <2>2. CASE Attester
    <3>1. cle' = cle \/ cle' = [cle EXCEPT ![demande.qui] = 1]
      BY <2>2 DEF Attester
    <3>2. cle' \in [Identite -> Cle \cup {SansCle}]
      BY <3>1, CleUne DEF TypeJuste, TypeEntrepot
    <3> QED BY <2>2, <3>2 DEF Attester, TypeJuste, TypeEntrepot
  <2> QED BY <2>1, <2>2
<1> QED BY <1>3, <1>4, <1>5 DEF TypeJuste

\* What the owner of a device may do, once its request is read.
Gestion ==
  \/ CreerAppareil \/ RevoquerUnAppareil \/ RevoquerUneCle \/ ModifierUneMachine
  \/ EffacerMonCompte \/ RetirerUnAnnuaire

LEMMA TypeGestion ==
  ASSUME TypeJuste, Gestion
  PROVE  TypeJuste'
<1>1. Acheve("gestion") /\ UNCHANGED <<session, actes>>
  BY DEF Gestion, CreerAppareil, RevoquerUnAppareil, RevoquerUneCle, ModifierUneMachine,
         EffacerMonCompte, RetirerUnAnnuaire
<1>2. demande.qui \in Appareil /\ demande.compte \in Compte
  BY <1>1, DeLaGestion
<1>3. revoques' \subseteq Fermable
  BY TypePossede DEF Gestion, CreerAppareil, RevoquerUnAppareil, RevoquerUneCle,
     ModifierUneMachine, EffacerMonCompte, RetirerUnAnnuaire, AFermer, TypeJuste, TypeBoucle
<1>4. TypeBoucle' /\ DemandeJuste' /\ etat' = etat /\ tires' = tires
  BY <1>1, <1>3, TypeAcheve
<1>5. TypeConnexions'
  BY <1>1, <1>4 DEF TypeJuste, TypeConnexions
<1>6. TypeEntrepot'
  <2>1. CASE CreerAppareil
    BY <1>2, <2>1, TypeCreer DEF CreerAppareil, TypeJuste, Fermable
  <2>2. CASE RevoquerUnAppareil
    BY <2>2, CleUne, TypeRetirerCle DEF RevoquerUnAppareil, TypeJuste, Identite, Fermable
  <2>3. CASE RevoquerUneCle
    <3>1. PICK m \in Machine : RetirerCle(m, cle[m])
      BY <2>3 DEF RevoquerUneCle
    <3>2. m \in Identite /\ cle[m] \in Cle \cup {SansCle}
      BY DEF TypeJuste, TypeEntrepot, Identite, Fermable
    <3> QED BY <3>1, <3>2, TypeRetirerCle DEF TypeJuste
  <2>4. CASE ModifierUneMachine
    BY <2>4 DEF ModifierUneMachine, Retrait, TypeJuste, TypeEntrepot
  <2>5. CASE EffacerMonCompte
    <3>1. Effacer({demande.compte}) /\ retraits' \in Nat
      BY <2>5 DEF EffacerMonCompte, Retrait, TypeJuste, TypeEntrepot
    <3> QED BY <1>2, <3>1, TypeEffacer DEF TypeJuste
  <2>6. CASE RetirerUnAnnuaire
    BY <2>6, CleUne, TypeRetirerCle DEF RetirerUnAnnuaire, TypeJuste, Identite, Annuaire
  <2> QED BY <2>1, <2>2, <2>3, <2>4, <2>5, <2>6 DEF Gestion
<1> QED BY <1>4, <1>5, <1>6 DEF TypeJuste

LEMMA TypeRendre == ASSUME TypeJuste, Rendre PROVE TypeJuste'
<1>1. TypeBoucle' /\ DemandeJuste' /\ etat' = etat /\ tires' = tires
  BY TypeAcheve DEF Rendre, TypeJuste, TypeBoucle
<1>2. TypeEntrepot' /\ TypeConnexions'
  BY <1>1 DEF Rendre, magasin, TypeJuste, TypeEntrepot, TypeConnexions
<1> QED BY <1>1, <1>2 DEF TypeJuste

LEMMA TypePuiser == ASSUME TypeJuste, Puiser PROVE TypeJuste'
<1>1. UNCHANGED boucle
  BY DEF Puiser, AppliquerAppareilRevoque, AppliquerCleRevoquee, AppliquerCleMachine,
         AppliquerMachineModifiee, AppliquerCompteEfface, AppliquerAnnuaireRetire, Commettre
<1>2. enMain' \subseteq Fermable
  BY TypePossede
  DEF Puiser, AppliquerAppareilRevoque, AppliquerCleRevoquee, AppliquerCleMachine,
      AppliquerMachineModifiee, AppliquerCompteEfface, AppliquerAnnuaireRetire, Commettre,
      TypeJuste, TypeBoucle, Fermable
<1>3. TypeConnexions' /\ TypeBoucle' /\ DemandeJuste'
  BY <1>1, <1>2 DEF boucle, TypeJuste, TypeConnexions, TypeBoucle, DemandeJuste
<1>4. TypeEntrepot'
  <2>1. CASE \E a \in Appareil : AppliquerAppareilRevoque(a)
    BY <2>1, CleUne, TypeRetirerCle DEF AppliquerAppareilRevoque, TypeJuste, Identite, Fermable
  <2>2. CASE \E m \in Machine, k \in Cle : AppliquerCleRevoquee(m, k)
    BY <2>2, TypeRetirerCle DEF AppliquerCleRevoquee, TypeJuste, Identite, Fermable
  <2>3. CASE \E m \in Machine, k \in Cle : AppliquerCleMachine(m, k)
    BY <2>3, TypeLierCle DEF AppliquerCleMachine, TypeJuste, Fermable
  <2>4. CASE \E m \in Machine : AppliquerMachineModifiee(m)
    BY <2>4 DEF AppliquerMachineModifiee, Retrait, TypeJuste, TypeEntrepot
  <2>5. CASE \E u \in Compte : AppliquerCompteEfface(u)
    <3> PICK u \in Compte : AppliquerCompteEfface(u)
      BY <2>5
    <3>1. Effacer({u}) /\ Retrait
      BY DEF AppliquerCompteEfface
    <3>3. retraits' \in Nat
      BY <3>1 DEF Retrait, TypeJuste, TypeEntrepot
    <3>2. {u} \in SUBSET Compte
      OBVIOUS
    <3> QED BY <3>1, <3>2, <3>3, TypeEffacer DEF TypeJuste
  <2>6. CASE \E l \in Local : AppliquerAnnuaireRetire(l)
    BY <2>6, CleUne, TypeRetirerCle DEF AppliquerAnnuaireRetire, TypeJuste, Identite, Annuaire
  <2> QED BY <2>1, <2>2, <2>3, <2>4, <2>5, <2>6 DEF Puiser
<1> QED BY <1>3, <1>4 DEF TypeJuste

LEMMA TypeEnvoyer == ASSUME TypeJuste, NEW x \in Fermable, EnvoyerUnOrdre(x) PROVE TypeJuste'
BY DEF EnvoyerUnOrdre, magasin, TypeJuste, TypeEntrepot, TypeConnexions, TypeBoucle, DemandeJuste

LEMMA TypeInit == ASSUME InitSessions PROVE TypeJuste
<1>1. TypeEntrepot
  BY CleUne DEF InitSessions, TypeEntrepot, Identite, Fermable, Annuaire
<1>2. TypeConnexions
  BY CleUne DEF InitSessions, TypeConnexions, Neuve, UneSession
<1>3. TypeBoucle
  BY ReposJuste DEF InitSessions, TypeBoucle
<1>4. DemandeJuste
  BY ReposJuste DEF InitSessions, DemandeJuste
<1> QED BY <1>1, <1>2, <1>3, <1>4 DEF TypeJuste

LEMMA TypePas == ASSUME TypeJuste, [NextSessions]_varsSessions PROVE TypeJuste'
<1>1. CASE UNCHANGED varsSessions
  BY <1>1 DEF varsSessions, magasin, boucle, TypeJuste, TypeEntrepot, TypeConnexions, TypeBoucle, DemandeJuste
<1>2. ASSUME NEW c \in Connexion, Ouvrir(c) \/ Tomber(c) PROVE TypeJuste'
  BY <1>2, TypeDuTour
<1>3. ASSUME NEW c \in Connexion, Requete(c) PROVE TypeJuste'
  BY <1>3, TypeRequeteFaite, TypeRequeteSignee, TypeRequeteDeGestion DEF Requete
<1>4. CASE Repondre
  BY <1>4, TypePreuve, TypeGestion, TypeRendre DEF Repondre, Gestion
<1>5. CASE Avancer
  BY <1>5, TypeAuTour, TypeDuTour DEF Avancer
<1>6. CASE Puiser
  BY <1>6, TypePuiser
<1>7. ASSUME NEW x \in Fermable, EnvoyerUnOrdre(x) PROVE TypeJuste'
  BY <1>7, TypeEnvoyer
<1> QED BY <1>1, <1>2, <1>3, <1>4, <1>5, <1>6, <1>7 DEF NextSessions

\* The states of the connections, of the requests and of the store stay of their
\* types, and a request in hand belongs to an open connection.
THEOREM TypeTenu == SpecSessions => []TypeJuste
<1>1. InitSessions => TypeJuste
  BY TypeInit
<1>2. TypeJuste /\ [NextSessions]_varsSessions => TypeJuste'
  BY TypePas
<1> QED BY <1>1, <1>2, PTL DEF SpecSessions
-----------------------------------------------------------------------------
(* The roles, and the challenges.                                          *)

\* A step writes no session, or forgets some, or writes the one of a request that
\* signs a challenge.
SessionsTenues == \A c \in Connexion : session'[c] \in {session[c], Neuve}

LEMMA PasDesSessions ==
  ASSUME TypeJuste, [NextSessions]_varsSessions
  PROVE  \/ SessionsTenues /\ UNCHANGED <<tires, actes>>
         \/ \E c \in Connexion : TirerUnDefi(c)
         \/ Verifier
         \/ Attester
         \/ \E c \in Connexion : CreerCompte(c)
         \/ \E c \in Connexion : Enroler(c) \/ ConsommerLeDefi(c)
<1>1. CASE UNCHANGED varsSessions
  BY <1>1 DEF varsSessions, boucle, SessionsTenues
<1>2. ASSUME NEW c \in Connexion, Ouvrir(c) \/ Tomber(c)
      PROVE  SessionsTenues /\ UNCHANGED <<tires, actes>>
  BY <1>2 DEF Ouvrir, Tomber, SessionsTenues
<1>3. ASSUME NEW c \in Connexion,
             DemanderUnePreuve(c) \/ DemanderUneAttestation(c) \/ DemanderUneGestion(c)
      PROVE  SessionsTenues /\ UNCHANGED <<tires, actes>>
  BY <1>3 DEF DemanderUnePreuve, DemanderUneAttestation, DemanderUneGestion, SessionsTenues
<1>4. ASSUME Gestion \/ Rendre PROVE SessionsTenues /\ UNCHANGED <<tires, actes>>
  BY <1>4 DEF Gestion, Rendre, CreerAppareil, RevoquerUnAppareil, RevoquerUneCle,
     ModifierUneMachine, EffacerMonCompte, RetirerUnAnnuaire, Acheve, SessionsTenues
<1>5. CASE Avancer
  BY <1>5 DEF Avancer, AuTour, ApresLaLecture, OublierLesEteintes, SessionsTenues, TypeJuste,
     TypeConnexions
<1>6. CASE Puiser
  BY <1>6 DEF Puiser, AppliquerAppareilRevoque, AppliquerCleRevoquee, AppliquerCleMachine,
     AppliquerMachineModifiee, AppliquerCompteEfface, AppliquerAnnuaireRetire, Commettre, boucle,
     SessionsTenues
<1>7. ASSUME NEW x \in Fermable, EnvoyerUnOrdre(x) PROVE SessionsTenues /\ UNCHANGED <<tires, actes>>
  BY <1>7 DEF EnvoyerUnOrdre, SessionsTenues
<1> QED BY <1>1, <1>2, <1>3, <1>4, <1>5, <1>6, <1>7 DEF NextSessions, Requete, Repondre, Gestion

LEMMA RolesPas == ASSUME TypeJuste, RolesJustes, [NextSessions]_varsSessions PROVE RolesJustes'
<1> DEFINE Role(s) == s.pair \in Annuaire => (s.local <=> s.pair \in Local)
<1>1. LaRacine \notin Local /\ Annuaire = Local \cup {LaRacine} /\ Personne \notin Annuaire
  BY DEF Annuaire
<1>2. (\A c \in Connexion : Role(session[c])) /\ \A s \in UneSession : s.local \in BOOLEAN
  BY <1>1 DEF RolesJustes, EstRacine, AnnuaireLocal, TypeJuste, TypeConnexions, UneSession
<1>3. ASSUME \A c \in Connexion : Role(session'[c]) PROVE RolesJustes'
  BY <1>1, <1>3 DEF RolesJustes, EstRacine, AnnuaireLocal
<1>4. ASSUME NEW c \in Connexion, DefiPris(c), Role(session'[c]) PROVE RolesJustes'
  BY <1>2, <1>3, <1>4 DEF DefiPris
<1>5. \A c \in Connexion, d \in Nat : Role([session[c] EXCEPT !.defi = d])
  BY <1>2 DEF TypeJuste, TypeConnexions, UneSession
<1>6. \A c \in Connexion, a \in Appareil :
        Role([session[c] EXCEPT !.defi = 0, !.pair = a, !.cle = 1])
  BY DEF TypeJuste, TypeConnexions, UneSession, Annuaire
<1>7. CASE SessionsTenues
  BY <1>1, <1>2, <1>3, <1>7 DEF SessionsTenues, Neuve
<1>8. ASSUME NEW c \in Connexion, TirerUnDefi(c) PROVE RolesJustes'
  <2>1. tires + 1 \in Nat
    BY DEF TypeJuste, TypeConnexions
  <2>2. /\ session'[c] = [session[c] EXCEPT !.defi = tires + 1]
        /\ \A x \in Connexion \ {c} : session'[x] = session[x]
    BY <1>8, TirageEcrit DEF SessionEcrite
  <2>3. Role(session'[c])
    BY <1>5, <2>1, <2>2
  <2> HIDE DEF Role
  <2> QED BY <1>2, <1>3, <2>2, <2>3
<1>9. CASE Verifier
  <2> DEFINE c == demande.connexion
  <2>1. c \in Connexion /\ DefiPris(c)
    BY <1>9, PreuvePrise DEF Verifier, Acheve, TypeJuste, DemandeJuste
  <2>2. Role(session'[c])
    <3>1. CASE demande.defi = 0
      <4>1. session' = [session EXCEPT ![c].defi = 0]
        BY <1>9, <3>1 DEF Verifier, Prouver, Pris
      <4> QED BY <1>5, <2>1, <4>1 DEF TypeJuste, TypeConnexions
    <3>2. CASE demande.defi # 0
      <4>1. session' = [session EXCEPT ![c] = [defi |-> 0, pair |-> demande.qui,
                          cle |-> demande.cle, local |-> demande.qui \in Local]]
        BY <1>9, <3>2 DEF Verifier, Prouver, Pris, Locale
      <4> QED BY <2>1, <4>1 DEF TypeJuste, TypeConnexions
    <3> QED BY <3>1, <3>2
  <2> QED BY <1>4, <2>1, <2>2
<1>10. CASE Attester
  BY <1>4, <1>5, <1>6, <1>10, AttestationPrise DEF Attester, Acheve, TypeJuste, DemandeJuste
<1>11. ASSUME NEW c \in Connexion, CreerCompte(c) PROVE RolesJustes'
  <2>1. DefiPris(c)
    BY <1>11, CreationPrise
  <2>2. \E a \in Appareil : session'[c] = [session[c] EXCEPT !.defi = 0, !.pair = a, !.cle = 1]
    BY <1>11, CreationPrise
  <2>3. Role(session'[c])
    BY <1>6, <2>2
  <2> QED BY <1>4, <2>1, <2>3
<1>12. ASSUME NEW c \in Connexion, Enroler(c) \/ ConsommerLeDefi(c) PROVE RolesJustes'
  BY <1>4, <1>5, <1>12, AutrePrise
<1> QED BY <1>7, <1>8, <1>9, <1>10, <1>11, <1>12, PasDesSessions

\* A connection has the rights of the last identity it proved.
THEOREM RolesTenus == SpecSessions => []SessionsJustes
<1>1. InitSessions => TypeJuste /\ RolesJustes
  BY TypeInit DEF InitSessions, RolesJustes, EstRacine, AnnuaireLocal, Neuve, Annuaire
<1>2. TypeJuste /\ RolesJustes /\ [NextSessions]_varsSessions => (TypeJuste /\ RolesJustes)'
  BY TypePas, RolesPas
<1>3. TypeJuste /\ RolesJustes => SessionsJustes
  BY TypeEnTrois DEF TypeJuste, SessionsJustes
<1> QED BY <1>1, <1>2, <1>3, PTL DEF SpecSessions

\* The challenges that stand are each of one connection, were drawn, and have
\* counted for nothing yet.
DefisFrais ==
  /\ \A c \in Connexion : session[c].defi # 0 =>
       /\ session[c].defi <= tires /\ actes[session[c].defi] = 0
       /\ \A e \in Connexion \ {c} : session[e].defi # session[c].defi
  /\ \A d \in 1..DefisMax : tires < d => actes[d] = 0
  /\ DefiUneFois

LEMMA DefisPas == ASSUME TypeJuste, DefisFrais, [NextSessions]_varsSessions PROVE DefisFrais'
<1>1. \A c \in Connexion : session[c].defi \in 0..DefisMax
  BY DEF TypeJuste, TypeConnexions, UneSession
<1>2. CASE SessionsTenues /\ UNCHANGED <<tires, actes>>
  <2>1. \A c \in Connexion : session'[c].defi \in {0, session[c].defi}
    BY <1>2 DEF SessionsTenues, Neuve
  <2> QED BY <1>2, <2>1 DEF DefisFrais, DefiUneFois
<1>3. ASSUME NEW c \in Connexion, TirerUnDefi(c) PROVE DefisFrais'
  <2>1. /\ tires < DefisMax /\ tires' = tires + 1 /\ actes' = actes
        /\ tires \in Nat /\ actes \in [1..DefisMax -> Nat]
    BY <1>3 DEF TirerUnDefi, TypeJuste, TypeConnexions
  <2>2. /\ session'[c].defi = tires + 1
        /\ \A x \in Connexion \ {c} : session'[x] = session[x]
    <3>1. session[c] \in UneSession
      BY DEF TypeJuste, TypeConnexions
    <3>2. /\ session'[c] = [session[c] EXCEPT !.defi = tires + 1]
          /\ \A x \in Connexion \ {c} : session'[x] = session[x]
      BY <1>3, TirageEcrit DEF SessionEcrite
    <3> QED BY <3>1, <3>2 DEF UneSession
  <2>3. actes[tires + 1] = 0
    BY <2>1 DEF DefisFrais
  <2> QED BY <1>1, <2>1, <2>2, <2>3, SMTT(30) DEF DefisFrais, DefiUneFois
<1>4. ASSUME NEW c \in Connexion, DefiPris(c) PROVE DefisFrais'
  <2> DEFINE d == session[c].defi
  <2>1. /\ session'[c].defi = 0 /\ tires' = tires
        /\ \A x \in Connexion \ {c} : session'[x] = session[x]
    BY <1>4 DEF DefiPris
  <2>2. CASE actes' = actes
    BY <2>1, <2>2 DEF DefisFrais, DefiUneFois
  <2>3. CASE d # 0 /\ actes' = [actes EXCEPT ![d] = @ + 1]
    <3>1. d \in 1..DefisMax /\ d <= tires /\ actes[d] = 0
      BY <1>1, <2>3 DEF DefisFrais
    <3>2. /\ actes'[d] = 1
          /\ \A x \in 1..DefisMax \ {d} : actes'[x] = actes[x]
      BY <2>3, <3>1 DEF TypeJuste, TypeConnexions
    <3>3. \A x \in Connexion \ {c} : session[x].defi # d
      BY <2>3 DEF DefisFrais
    <3>4. \A x \in Connexion : session'[x].defi # 0 =>
            x # c /\ session'[x].defi = session[x].defi /\ session[x].defi \in 1..DefisMax \ {d}
      BY <1>1, <2>1, <3>3
    <3>5. tires \in Nat
      BY DEF TypeJuste, TypeConnexions
    <3> HIDE DEF d
    <3> QED BY <2>1, <3>1, <3>2, <3>4, <3>5 DEF DefisFrais, DefiUneFois
  <2> QED BY <1>4, <2>2, <2>3 DEF DefiPris
<1>5. CASE Verifier \/ Attester
  BY <1>4, <1>5, PreuvePrise, AttestationPrise DEF Verifier, Attester, Acheve, TypeJuste, DemandeJuste
<1>6. ASSUME NEW c \in Connexion, CreerCompte(c) \/ Enroler(c) \/ ConsommerLeDefi(c)
      PROVE  DefisFrais'
  BY <1>4, <1>6, CreationPrise, AutrePrise
<1> QED BY <1>2, <1>3, <1>5, <1>6, PasDesSessions

\* A challenge is accepted at most once, whatever crosses it.
THEOREM DefiUneFoisTenu == SpecSessions => []DefiUneFois
<1>1. InitSessions => TypeJuste /\ DefisFrais
  BY TypeInit DEF InitSessions, DefisFrais, DefiUneFois, Neuve
<1>2. TypeJuste /\ DefisFrais /\ [NextSessions]_varsSessions => (TypeJuste /\ DefisFrais)'
  BY TypePas, DefisPas
<1>3. DefisFrais => DefiUneFois
  BY DEF DefisFrais
<1> QED BY <1>1, <1>2, <1>3, PTL DEF SpecSessions
-----------------------------------------------------------------------------
(* The orders of closing.                                                  *)

EnAttente == revoques \cup canal \cup enMain

\* A key that is withdrawn was given once, and is not the one the store gives.
ClesJustes == \A x \in Identite : clesRetirees[x] \subseteq connues[x] /\ cle[x] \notin clesRetirees[x]

\* A connection that comes has proved nothing.
AbsentesNeuves == \A c \in Connexion : etat[c] = "absente" => session[c] = Neuve

\* The order is there too for a key that is withdrawn while it is being checked.
OrdreDeLaDemande ==
  demande.qui \in Fermable /\ demande.cle \in clesRetirees[demande.qui] => demande.qui \in EnAttente

OrdreJuste == ClesJustes /\ AbsentesNeuves /\ OrdreTenu /\ OrdreDeLaDemande

\* What steps of the store do to the keys.
LEMMA ClesCreer ==
  ASSUME TypeJuste, ClesJustes, NEW x \in Fermable, NEW u, NEW k \in {SansCle, 1}, Creer(x, u, k)
  PROVE  ClesJustes' /\ clesRetirees' = clesRetirees /\ clesRetirees[x] = {}
<1>1. clesRetirees[x] = {} /\ x \in Identite
  BY DEF ClesJustes, Creer, Identite
<1> QED BY <1>1 DEF ClesJustes, Creer, TypeJuste, TypeEntrepot

LEMMA ClesLier ==
  ASSUME TypeJuste, ClesJustes, NEW x \in Identite, NEW k, LierCle(x, k)
  PROVE  ClesJustes' /\ clesRetirees' = clesRetirees
BY DEF ClesJustes, LierCle, TypeJuste, TypeEntrepot

LEMMA ClesRetirer ==
  ASSUME TypeJuste, ClesJustes, NEW x \in Identite, NEW k, RetirerCle(x, k)
  PROVE  ClesJustes' /\ \A y \in Identite \ {x} : clesRetirees'[y] = clesRetirees[y]
<1>1. \A y \in Identite : SansCle \notin connues[y] /\ SansCle \notin clesRetirees[y]
  BY CleUne DEF TypeJuste, TypeEntrepot
<1> QED BY <1>1 DEF ClesJustes, RetirerCle, TypeJuste, TypeEntrepot

LEMMA ClesEffacer ==
  ASSUME TypeJuste, ClesJustes, NEW comptes, Effacer(comptes)
  PROVE  /\ ClesJustes'
         /\ \A x \in Identite \ UNION {Possede(u) : u \in comptes} : clesRetirees'[x] = clesRetirees[x]
<1>1. \A y \in Identite : SansCle \notin connues[y]
  BY CleUne DEF TypeJuste, TypeEntrepot
<1> QED BY <1>1 DEF ClesJustes, Effacer, TypeJuste, TypeEntrepot

\* A step that loses no order, gives one for each key it withdraws, and lets no
\* connection have a withdrawn key but the one that was being checked.
OrdresGardes ==
  /\ EnAttente \subseteq EnAttente'
  /\ \A x \in Fermable : clesRetirees'[x] = clesRetirees[x] \/ x \in EnAttente'

SuiteDUne(c) ==
  etat'[c] = "ouverte" /\ session'[c].pair \in Fermable =>
    \/ etat[c] = "ouverte" /\ session'[c].pair = session[c].pair /\ session'[c].cle = session[c].cle
    \/ session'[c].cle \notin clesRetirees'[session'[c].pair]
    \/ session'[c].pair = demande.qui /\ session'[c].cle = demande.cle

SuiteDeLaDemande ==
  demande'.qui \in Fermable =>
    \/ demande'.qui = demande.qui /\ demande'.cle = demande.cle
    \/ demande'.cle \notin clesRetirees'[demande'.qui]

LEMMA OrdreSuite ==
  ASSUME OrdreTenu, OrdreDeLaDemande, OrdresGardes, SuiteDeLaDemande,
         \A c \in Connexion : SuiteDUne(c)
  PROVE  OrdreTenu' /\ OrdreDeLaDemande'
<1>1. OrdreTenu'
  <2> SUFFICES ASSUME NEW c \in Connexion, etat'[c] = "ouverte", session'[c].pair \in Fermable,
                      session'[c].cle \in clesRetirees'[session'[c].pair]
               PROVE  session'[c].pair \in EnAttente'
    BY DEF OrdreTenu, Condamnee, EnAttente
  <2> DEFINE x == session'[c].pair
  <2>1. CASE clesRetirees'[x] # clesRetirees[x]
    BY <2>1 DEF OrdresGardes
  <2>2. CASE clesRetirees'[x] = clesRetirees[x]
    <3>1. CASE etat[c] = "ouverte" /\ x = session[c].pair /\ session'[c].cle = session[c].cle
      BY <2>2, <3>1 DEF OrdreTenu, Condamnee, OrdresGardes, EnAttente
    <3>2. CASE x = demande.qui /\ session'[c].cle = demande.cle
      BY <2>2, <3>2 DEF OrdreDeLaDemande, OrdresGardes
    <3> QED BY <3>1, <3>2 DEF SuiteDUne
  <2> QED BY <2>1, <2>2
<1>2. OrdreDeLaDemande'
  BY DEF OrdreDeLaDemande, SuiteDeLaDemande, OrdresGardes
<1> QED BY <1>1, <1>2

LEMMA OrdreDuTour ==
  ASSUME TypeJuste, OrdreJuste, AuTour \/ ApresLaLecture
  PROVE  OrdreJuste'
<1>1. demande' = Repos
  BY HorsLecture DEF AuTour, ApresLaLecture
<1>2. Personne \notin Fermable
  BY DEF Fermable
<1>3. OrdreDeLaDemande'
  BY <1>1, <1>2, ReposJuste DEF OrdreDeLaDemande
<1>4. CASE AuTour
  <2>1. PICK orphelins \in SUBSET Orphelins :
          /\ Effacer(orphelins)
          /\ Fermer(revoques \cup canal \cup UNION {Possede(u) : u \in orphelins}, Personne)
    BY <1>4 DEF AuTour
  <2> DEFINE emportes == UNION {Possede(u) : u \in orphelins}
  <2>2. ClesJustes' /\ \A x \in Identite \ emportes : clesRetirees'[x] = clesRetirees[x]
    BY <2>1, ClesEffacer DEF OrdreJuste
  <2>3. /\ session' = session /\ enMain' = enMain
        /\ \A c \in Connexion : c # Personne
    BY <1>4 DEF AuTour
  <2>4. \A c \in Connexion :
          etat'[c] = "ouverte" =>
            etat[c] = "ouverte" /\ session[c].pair \notin revoques \cup canal \cup emportes
    BY <2>1, <2>3 DEF Fermer, Condamnes
  <2>5. OrdreTenu'
    <3> SUFFICES ASSUME NEW c \in Connexion, etat'[c] = "ouverte", session[c].pair \in Fermable,
                        session[c].cle \in clesRetirees'[session[c].pair]
                 PROVE  session[c].pair \in enMain
      BY <2>3 DEF OrdreTenu, Condamnee
    <3>1. session[c].pair \in Identite \ emportes
      BY <2>4 DEF Identite
    <3>2. Condamnee(c)
      BY <2>2, <2>4, <3>1 DEF Condamnee
    <3> QED BY <2>4, <3>2 DEF OrdreJuste, OrdreTenu
  <2>6. AbsentesNeuves'
    BY <2>1, <2>3 DEF OrdreJuste, AbsentesNeuves, Fermer
  <2> QED BY <1>3, <2>2, <2>5, <2>6 DEF OrdreJuste
<1>5. CASE ApresLaLecture
  <2>1. /\ Fermer(revoques, lue) /\ revoques' = RevoquesGardes
        /\ UNCHANGED <<cle, connues, clesRetirees, session, canal, enMain>>
    BY <1>5 DEF ApresLaLecture, magasin
  <2>2. ClesJustes' /\ AbsentesNeuves'
    BY <2>1 DEF OrdreJuste, ClesJustes, AbsentesNeuves, Fermer
  <2>3. OrdreTenu'
    <3> SUFFICES ASSUME NEW c \in Connexion, etat'[c] = "ouverte", Condamnee(c)
                 PROVE  session[c].pair \in revoques' \cup canal \cup enMain
      BY <2>1 DEF OrdreTenu, Condamnee, Fermer
    <3>1. session[c].pair \in revoques \cup canal \cup enMain
      BY DEF OrdreJuste, OrdreTenu
    <3>2. CASE session[c].pair \in revoques
      <4>1. c = lue
        BY <2>1, <3>2 DEF Fermer, Condamnes, Condamnee
      <4>2. lue # Personne
        BY <4>1
      <4> QED BY <2>1, <3>2, <4>1, <4>2 DEF RevoquesGardes
    <3> QED BY <3>1, <3>2
  <2> QED BY <1>3, <2>2, <2>3 DEF OrdreJuste
<1> QED BY <1>4, <1>5
\* Steps that touch neither the store nor the orders, but for one that is sent.
LEMMA OrdreDesConnexions ==
  ASSUME TypeJuste, OrdreJuste,
         \/ \E c \in Connexion : Ouvrir(c) \/ Tomber(c)
         \/ OublierLesEteintes
         \/ \E x \in Fermable : EnvoyerUnOrdre(x)
         \/ Rendre
         \/ UNCHANGED varsSessions
  PROVE  OrdreJuste'
<1>1. UNCHANGED <<cle, connues, clesRetirees>> /\ demande' \in {demande, Repos}
  BY DEF Ouvrir, Tomber, OublierLesEteintes, EnvoyerUnOrdre, Rendre, Acheve, varsSessions, boucle, magasin
<1>2. EnAttente' = EnAttente
  BY DEF Ouvrir, Tomber, OublierLesEteintes, EnvoyerUnOrdre, Rendre, Acheve, varsSessions, boucle, EnAttente
<1>3. ClesJustes'
  BY <1>1 DEF OrdreJuste, ClesJustes
<1>4. OrdresGardes /\ SuiteDeLaDemande
  BY <1>1, <1>2, ReposJuste DEF OrdresGardes, SuiteDeLaDemande, Fermable
<1>5. AbsentesNeuves' /\ \A c \in Connexion : SuiteDUne(c)
  <2>1. Neuve.pair \notin Fermable
    BY DEF Neuve, Fermable
  <2>2. CASE \E c \in Connexion : Ouvrir(c) \/ Tomber(c)
    <3>1. PICK c \in Connexion : Ouvrir(c) \/ Tomber(c)
      BY <2>2
    <3>2. \A e \in Connexion :
            /\ session'[e] = session[e]
            /\ (etat'[e] = etat[e] \/ etat[e] = "absente" \/ etat'[e] = "close")
            /\ (etat'[e] = "absente" => etat[e] = "absente")
      BY <3>1 DEF Ouvrir, Tomber, TypeJuste, TypeConnexions
    <3>3. \A e \in Connexion : etat'[e] = "ouverte" =>
            etat[e] = "ouverte" \/ session'[e].pair \notin Fermable
      BY <2>1, <3>2 DEF OrdreJuste, AbsentesNeuves
    <3>4. \A e \in Connexion : SuiteDUne(e)
      BY <3>2, <3>3 DEF SuiteDUne
    <3> QED BY <3>2, <3>4 DEF OrdreJuste, AbsentesNeuves
  <2>3. CASE OublierLesEteintes
    <3>1. \A c \in Connexion :
            IF etat[c] = "close" THEN etat'[c] = "absente" /\ session'[c] = Neuve
                                 ELSE etat'[c] = etat[c]   /\ session'[c] = session[c]
      BY <2>3 DEF OublierLesEteintes
    <3> QED BY <2>1, <3>1 DEF OrdreJuste, AbsentesNeuves, SuiteDUne
  <2>4. CASE UNCHANGED <<etat, session>>
    BY <2>4 DEF OrdreJuste, AbsentesNeuves, SuiteDUne
  <2>5. CASE (\E x \in Fermable : EnvoyerUnOrdre(x)) \/ Rendre \/ UNCHANGED varsSessions
    BY <2>4, <2>5 DEF EnvoyerUnOrdre, Rendre, Acheve, varsSessions, boucle
  <2> QED BY <2>2, <2>3, <2>5
<1> QED BY <1>3, <1>4, <1>5, OrdreSuite DEF OrdreJuste

\* Requests that sign a challenge and are answered at once.
LEMMA OrdreRequeteFaite ==
  ASSUME TypeJuste, OrdreJuste, NEW c \in Connexion,
         TirerUnDefi(c) \/ CreerCompte(c) \/ Enroler(c) \/ ConsommerLeDefi(c)
  PROVE  OrdreJuste'
<1>1. /\ demande' = Repos /\ etat' = etat /\ etat[c] = "ouverte"
      /\ UNCHANGED <<revoques, canal, enMain>>
  BY DEF TirerUnDefi, CreerCompte, Enroler, ConsommerLeDefi, Commence, EnLecture
<1>2. EnAttente' = EnAttente
  BY <1>1 DEF EnAttente
<1>3. SuiteDeLaDemande
  BY <1>1, ReposJuste DEF SuiteDeLaDemande, Fermable
<1>4. session[c] \in UneSession
  BY DEF TypeJuste, TypeConnexions
<1>5. ASSUME ClesJustes', clesRetirees' = clesRetirees, SuiteDUne(c),
             \A x \in Connexion \ {c} : session'[x] = session[x]
      PROVE  OrdreJuste'
  <2>1. OrdresGardes
    BY <1>2, <1>5 DEF OrdresGardes
  <2>2. AbsentesNeuves' /\ \A x \in Connexion : SuiteDUne(x)
    BY <1>1, <1>5 DEF OrdreJuste, AbsentesNeuves, SuiteDUne
  <2> QED BY <1>3, <1>5, <2>1, <2>2, OrdreSuite DEF OrdreJuste
<1>6. CASE TirerUnDefi(c)
  <2>1. session'[c] = [session[c] EXCEPT !.defi = tires + 1]
        /\ \A x \in Connexion \ {c} : session'[x] = session[x]
    BY <1>6, TirageEcrit DEF SessionEcrite
  <2>2. SuiteDUne(c)
    BY <1>1, <1>4, <2>1 DEF SuiteDUne, UneSession
  <2>3. ClesJustes' /\ clesRetirees' = clesRetirees
    BY <1>6 DEF TirerUnDefi, magasin, OrdreJuste, ClesJustes
  <2> QED BY <1>5, <2>1, <2>2, <2>3
<1>7. CASE Enroler(c) \/ ConsommerLeDefi(c)
  <2>1. /\ session'[c] = [session[c] EXCEPT !.defi = 0]
        /\ \A x \in Connexion \ {c} : session'[x] = session[x]
    BY <1>7, AutrePrise DEF DefiPris
  <2>2. SuiteDUne(c)
    BY <1>1, <1>4, <2>1 DEF SuiteDUne, UneSession
  <2>3. ClesJustes' /\ clesRetirees' = clesRetirees
    <3>1. CASE Enroler(c)
      BY <3>1, ClesLier DEF Enroler, OrdreJuste, Identite, Fermable
    <3>2. CASE ConsommerLeDefi(c)
      BY <3>2 DEF ConsommerLeDefi, magasin, OrdreJuste, ClesJustes
    <3> QED BY <1>7, <3>1, <3>2
  <2> QED BY <1>5, <2>1, <2>2, <2>3
<1>8. CASE CreerCompte(c)
  <2>1. PICK a \in Appareil, u \in Compte :
          /\ Creer(a, u, 1)
          /\ session'[c] = [session[c] EXCEPT !.defi = 0, !.pair = a, !.cle = 1]
    BY <1>8, CreationPrise
  <2>2. \A x \in Connexion \ {c} : session'[x] = session[x]
    BY <1>8, CreationPrise DEF DefiPris
  <2>3. ClesJustes' /\ clesRetirees' = clesRetirees /\ clesRetirees[a] = {}
    BY <2>1, ClesCreer DEF OrdreJuste, Fermable
  <2>4. SuiteDUne(c)
    BY <1>4, <2>1, <2>3 DEF SuiteDUne, UneSession
  <2> QED BY <1>5, <2>2, <2>3, <2>4
<1> QED BY <1>6, <1>7, <1>8

\* Requests whose first transaction is read: the key is not withdrawn yet.
LEMMA OrdreRequeteLue ==
  ASSUME TypeJuste, OrdreJuste, NEW c \in Connexion,
         DemanderUnePreuve(c) \/ DemanderUneAttestation(c) \/ DemanderUneGestion(c)
  PROVE  OrdreJuste'
<1>1. UNCHANGED <<magasin, session, etat, revoques, canal, enMain>>
  BY DEF DemanderUnePreuve, DemanderUneAttestation, DemanderUneGestion, Commence
<1>2. /\ ClesJustes' /\ AbsentesNeuves' /\ OrdresGardes /\ clesRetirees' = clesRetirees
      /\ \A x \in Connexion : SuiteDUne(x)
  BY <1>1 DEF magasin, OrdreJuste, ClesJustes, AbsentesNeuves, OrdresGardes, EnAttente, SuiteDUne
<1>3. \A x \in Identite : SansCle \notin clesRetirees[x]
  BY CleUne DEF TypeJuste, TypeEntrepot
<1>4. SuiteDeLaDemande
  <2>1. ASSUME NEW quoi \in {"preuve", "attestation"}, NEW x \in Identite,
               NEW k \in Cle \cup {SansCle}, NEW d \in 0..tires,
               demande' = Signee(quoi, c, x, k, d), k \notin clesRetirees[x]
        PROVE  SuiteDeLaDemande
    <3>1. demande'.qui = Personne \/ (demande'.qui = x /\ demande'.cle = k)
      BY <2>1, SigneeJuste
    <3> QED BY <1>2, <2>1, <3>1 DEF SuiteDeLaDemande, Fermable
  <2>2. CASE DemanderUnePreuve(c)
    <3>1. PICK x \in Identite, d \in 0..tires : \E k \in connues[x] :
            demande' = Signee("preuve", c, x, IF cle[x] = k THEN k ELSE SansCle, d)
      BY <2>2 DEF DemanderUnePreuve, Commence
    <3> PICK k \in connues[x] :
            demande' = Signee("preuve", c, x, IF cle[x] = k THEN k ELSE SansCle, d)
      BY <3>1
    <3> DEFINE n == IF cle[x] = k THEN k ELSE SansCle
    <3>2. n \in Cle \cup {SansCle} /\ n \notin clesRetirees[x]
      BY <1>3 DEF OrdreJuste, ClesJustes, TypeJuste, TypeEntrepot
    <3> QED BY <2>1, <3>2
  <2>3. CASE DemanderUneAttestation(c)
    <3>1. PICK a \in Appareil, d \in 0..tires :
            demande' = Signee("attestation", c, a, IF 1 \in clesRetirees[a] THEN SansCle ELSE 1, d)
      BY <2>3 DEF DemanderUneAttestation, Commence
    <3> DEFINE n == IF 1 \in clesRetirees[a] THEN SansCle ELSE 1
    <3>2. a \in Identite /\ n \in Cle \cup {SansCle} /\ n \notin clesRetirees[a]
      BY <1>3, CleUne DEF Identite, Fermable
    <3> QED BY <2>1, <3>1, <3>2
  <2>4. CASE DemanderUneGestion(c)
    <3>1. demande'.cle = SansCle
      BY <2>4 DEF DemanderUneGestion, Commence
    <3> QED BY <1>2, <1>3, <3>1 DEF SuiteDeLaDemande, Identite
  <2> QED BY <2>2, <2>3, <2>4
<1> QED BY <1>2, <1>4, OrdreSuite DEF OrdreJuste
\* The proofs that are judged in a second transaction.
LEMMA OrdrePreuve ==
  ASSUME TypeJuste, OrdreJuste, Verifier \/ Attester
  PROVE  OrdreJuste'
<1> DEFINE c == demande.connexion
<1>1. /\ c \in Connexion /\ etat[c] = "ouverte" /\ demande' = Repos
      /\ UNCHANGED <<etat, revoques, canal, enMain, connues, clesRetirees>>
  BY DEF Verifier, Attester, Acheve, magasin, TypeJuste, DemandeJuste
<1>2. session[c] \in UneSession /\ \A x \in Connexion \ {c} : session'[x] = session[x]
  BY <1>1, PreuvePrise, AttestationPrise DEF DefiPris, TypeJuste, TypeConnexions
<1>3. ClesJustes'
  <2>1. CASE Verifier
    BY <2>1 DEF Verifier, magasin, OrdreJuste, ClesJustes
  <2>2. CASE Attester
    <3>1. cle' = cle \/ (1 \notin clesRetirees[demande.qui] /\ cle' = [cle EXCEPT ![demande.qui] = 1])
      BY <2>2 DEF Attester
    <3>2. \A x \in Identite : cle'[x] \notin clesRetirees[x]
      BY <3>1 DEF OrdreJuste, ClesJustes, TypeJuste, TypeEntrepot
    <3> QED BY <1>1, <3>2 DEF OrdreJuste, ClesJustes
  <2> QED BY <2>1, <2>2
<1>4. SuiteDUne(c)
  <2>1. CASE Verifier /\ demande.defi = 0
    <3>1. session'[c] = [session[c] EXCEPT !.defi = 0]
      BY <1>1, <2>1 DEF Verifier, Prouver, Pris, TypeJuste, TypeConnexions
    <3> QED BY <1>1, <1>2, <3>1 DEF SuiteDUne, UneSession
  <2>2. CASE Verifier /\ demande.defi # 0
    <3>1. session'[c] = [defi |-> 0, pair |-> demande.qui, cle |-> demande.cle,
                         local |-> demande.qui \in Local]
      BY <1>1, <2>2 DEF Verifier, Prouver, Pris, Locale, TypeJuste, TypeConnexions
    <3> QED BY <3>1 DEF SuiteDUne
  <2>3. CASE Attester
    <3>1. \/ session'[c] = [session[c] EXCEPT !.defi = 0]
          \/ demande.cle = 1
             /\ session'[c] = [session[c] EXCEPT !.defi = 0, !.pair = demande.qui, !.cle = 1]
      BY <2>3, AttestationPrise
    <3> QED BY <1>1, <1>2, <3>1 DEF SuiteDUne, UneSession
  <2> QED BY <2>1, <2>2, <2>3
<1>5. AbsentesNeuves' /\ \A x \in Connexion : SuiteDUne(x)
  BY <1>1, <1>2, <1>4 DEF OrdreJuste, AbsentesNeuves, SuiteDUne
<1>6. OrdresGardes /\ SuiteDeLaDemande
  BY <1>1, ReposJuste DEF OrdresGardes, SuiteDeLaDemande, EnAttente, Fermable
<1> QED BY <1>3, <1>5, <1>6, OrdreSuite DEF OrdreJuste

\* A withdrawal, or a step of the store that withdraws nothing, with its orders.
LEMMA OrdreDuMagasin ==
  ASSUME OrdreJuste, ClesJustes', OrdresGardes, UNCHANGED <<etat, session>>,
         demande' \in {demande, Repos}
  PROVE  OrdreJuste'
<1>1. AbsentesNeuves' /\ \A c \in Connexion : SuiteDUne(c)
  BY DEF OrdreJuste, AbsentesNeuves, SuiteDUne
<1>2. SuiteDeLaDemande
  BY ReposJuste DEF SuiteDeLaDemande, Fermable
<1> QED BY <1>1, <1>2, OrdreSuite DEF OrdreJuste

LEMMA OrdreGestion == ASSUME TypeJuste, OrdreJuste, Gestion PROVE OrdreJuste'
<1>1. /\ Acheve("gestion") /\ UNCHANGED <<etat, session, canal, enMain>> /\ demande' = Repos
      /\ revoques \subseteq revoques'
  BY DEF Gestion, CreerAppareil, RevoquerUnAppareil, RevoquerUneCle, ModifierUneMachine,
         EffacerMonCompte, RetirerUnAnnuaire, Acheve, AFermer
<1>2. EnAttente \subseteq EnAttente' /\ revoques' \subseteq EnAttente'
  BY <1>1 DEF EnAttente
<1>3. demande.compte \in Compte
  BY <1>1, DeLaGestion
<1>4. ClesJustes' /\ \A x \in Fermable : clesRetirees'[x] = clesRetirees[x] \/ x \in revoques'
  <2>1. CASE CreerAppareil
    BY <2>1, ClesCreer DEF CreerAppareil, OrdreJuste, Fermable
  <2>2. CASE RevoquerUnAppareil
    BY <2>2, ClesRetirer DEF RevoquerUnAppareil, AFermer, OrdreJuste, Identite, Fermable
  <2>3. CASE RevoquerUneCle
    BY <2>3, ClesRetirer DEF RevoquerUneCle, AFermer, OrdreJuste, Identite, Fermable
  <2>4. CASE ModifierUneMachine
    BY <2>4 DEF ModifierUneMachine, OrdreJuste, ClesJustes
  <2>5. CASE EffacerMonCompte
    <3>1. Effacer({demande.compte}) /\ revoques' = revoques \cup Possede(demande.compte)
      BY <2>5 DEF EffacerMonCompte, AFermer
    <3>2. UNION {Possede(u) : u \in {demande.compte}} = Possede(demande.compte)
      OBVIOUS
    <3> QED BY <3>1, <3>2, ClesEffacer DEF OrdreJuste, Identite
  <2>6. CASE RetirerUnAnnuaire
    <3>1. PICK l \in Local : RetirerCle(l, 1)
      BY <2>6 DEF RetirerUnAnnuaire
    <3>2. l \in Identite /\ l \notin Fermable /\ Fermable \subseteq Identite
      BY DEF Identite, Annuaire, Fermable
    <3> QED BY <3>1, <3>2, ClesRetirer DEF OrdreJuste
  <2> QED BY <2>1, <2>2, <2>3, <2>4, <2>5, <2>6 DEF Gestion
<1>5. OrdresGardes
  BY <1>2, <1>4 DEF OrdresGardes
<1> QED BY <1>1, <1>4, <1>5, OrdreDuMagasin

LEMMA OrdrePuiser == ASSUME TypeJuste, OrdreJuste, Puiser PROVE OrdreJuste'
<1>1. UNCHANGED boucle /\ enMain \subseteq enMain'
  BY DEF Puiser, AppliquerAppareilRevoque, AppliquerCleRevoquee, AppliquerCleMachine,
         AppliquerMachineModifiee, AppliquerCompteEfface, AppliquerAnnuaireRetire, Commettre
<1>2. EnAttente \subseteq EnAttente' /\ enMain' \subseteq EnAttente'
  BY <1>1 DEF EnAttente, boucle
<1>3. ClesJustes' /\ \A x \in Fermable : clesRetirees'[x] = clesRetirees[x] \/ x \in enMain'
  <2>1. CASE \E a \in Appareil : AppliquerAppareilRevoque(a)
    BY <2>1, ClesRetirer DEF AppliquerAppareilRevoque, Commettre, OrdreJuste, Identite, Fermable
  <2>2. CASE \E m \in Machine, k \in Cle : AppliquerCleRevoquee(m, k)
    BY <2>2, ClesRetirer DEF AppliquerCleRevoquee, Commettre, OrdreJuste, Identite, Fermable
  <2>3. CASE \E m \in Machine, k \in Cle : AppliquerCleMachine(m, k)
    BY <2>3, ClesLier DEF AppliquerCleMachine, OrdreJuste, Identite, Fermable
  <2>4. CASE \E m \in Machine : AppliquerMachineModifiee(m)
    BY <2>4 DEF AppliquerMachineModifiee, OrdreJuste, ClesJustes
  <2>5. CASE \E u \in Compte : AppliquerCompteEfface(u)
    <3> PICK u \in Compte : AppliquerCompteEfface(u)
      BY <2>5
    <3>1. Effacer({u}) /\ enMain' = enMain \cup Possede(u)
      BY DEF AppliquerCompteEfface, Commettre
    <3>2. UNION {Possede(v) : v \in {u}} = Possede(u)
      OBVIOUS
    <3> QED BY <3>1, <3>2, ClesEffacer DEF OrdreJuste, Identite
  <2>6. CASE \E l \in Local : AppliquerAnnuaireRetire(l)
    <3>1. PICK l \in Local : RetirerCle(l, 1)
      BY <2>6 DEF AppliquerAnnuaireRetire
    <3>2. l \in Identite /\ l \notin Fermable /\ Fermable \subseteq Identite
      BY DEF Identite, Annuaire, Fermable
    <3> QED BY <3>1, <3>2, ClesRetirer DEF OrdreJuste
  <2> QED BY <2>1, <2>2, <2>3, <2>4, <2>5, <2>6 DEF Puiser
<1>4. OrdresGardes
  BY <1>2, <1>3 DEF OrdresGardes
<1> QED BY <1>1, <1>3, <1>4, OrdreDuMagasin DEF boucle

LEMMA OrdrePas == ASSUME TypeJuste, OrdreJuste, [NextSessions]_varsSessions PROVE OrdreJuste'
<1>1. ASSUME NEW c \in Connexion, Requete(c) PROVE OrdreJuste'
  BY <1>1, OrdreRequeteFaite, OrdreRequeteLue DEF Requete
<1>2. CASE Repondre
  BY <1>2, OrdrePreuve, OrdreGestion, OrdreDesConnexions DEF Repondre, Gestion
<1>3. CASE Avancer
  BY <1>3, OrdreDuTour, OrdreDesConnexions DEF Avancer
<1>4. CASE Puiser
  BY <1>4, OrdrePuiser
<1>5. CASE \/ \E c \in Connexion : Ouvrir(c) \/ Tomber(c)
           \/ \E x \in Fermable : EnvoyerUnOrdre(x)
           \/ UNCHANGED varsSessions
  BY <1>5, OrdreDesConnexions
<1> QED BY <1>1, <1>2, <1>3, <1>4, <1>5 DEF NextSessions

\* Whoever holds a connection under a withdrawn key, an order to close it is on
\* its way.
THEOREM OrdreTenuToujours == SpecSessions => []OrdreTenu
<1>1. InitSessions => TypeJuste /\ OrdreJuste
  <2> SUFFICES ASSUME InitSessions PROVE OrdreJuste
    BY TypeInit
  <2>1. ClesJustes
    BY DEF InitSessions, ClesJustes
  <2>2. AbsentesNeuves /\ OrdreTenu /\ OrdreDeLaDemande
    BY ReposJuste DEF InitSessions, AbsentesNeuves, OrdreTenu, Condamnee, OrdreDeLaDemande, Fermable
  <2> QED BY <2>1, <2>2 DEF OrdreJuste
<1>2. TypeJuste /\ OrdreJuste /\ [NextSessions]_varsSessions => (TypeJuste /\ OrdreJuste)'
  BY TypePas, OrdrePas
<1>3. OrdreJuste => OrdreTenu
  BY DEF OrdreJuste
<1> QED BY <1>1, <1>2, <1>3, PTL DEF SpecSessions
=============================================================================
