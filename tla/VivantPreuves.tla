--------------------------- MODULE VivantPreuves ---------------------------
(***************************************************************************)
(* Proofs about what is live, where it is announced and where it is         *)
(* reported.                                                               *)
(*                                                                         *)
(* Annonces.tla, the directory a daemon speaks to: its types, the exactness *)
(* of the counter of probes in flight, that an announcement belongs to an   *)
(* open connection, and that it only disappears for a reason.               *)
(*                                                                         *)
(* Federation.tla, the roots a directory reports to: its types, and that a  *)
(* root shows the path of a member as it is, whatever connection closes     *)
(* late.                                                                   *)
(***************************************************************************)
EXTENDS Annonces, Federation, FiniteSetTheorems, TLAPS

USE AnnoncesAssumption, FederationAssumption

-----------------------------------------------------------------------------
(* Types.                                                                  *)

\* A session keeps its type when its silence changes.
LEMMA TypeSilence ==
  ASSUME NEW a, UneAnnonce(a), NEW n \in Nat
  PROVE  UneAnnonce([a EXCEPT !.silence = n])
BY DEF UneAnnonce

\* So does one whose probe reports, and it is still the same announcement.
LEMMA TypeJugee ==
  ASSUME NEW a, UneAnnonce(a), NEW r \in Rapport
  PROVE  /\ UneAnnonce(Jugee(a, r))
         /\ Jugee(a, r).numero = a.numero
         /\ Jugee(a, r).connexion = a.connexion
<1> DEFINE v == [issue |-> r.issue, par |-> r.mesure.numero]
<1>1. v \in Verdict /\ r.age \in Nat
  BY DEF Rapport, Mesure, Verdict
<1>2. \A q \in DOMAIN a.verdicts : a.verdicts[q] \in Verdict
  BY DEF UneAnnonce
<1> DEFINE w == [q \in DOMAIN a.verdicts |-> IF q = r.mesure.point THEN v ELSE a.verdicts[q]]
<1>3. w \in [DOMAIN a.verdicts -> Verdict] /\ DOMAIN w = DOMAIN a.verdicts
  BY <1>1, <1>2
<1> HIDE DEF v
<1>4. Jugee(a, r) = [a EXCEPT !.silence = r.age, !.verdicts = w]
  BY DEF Jugee, v
<1> HIDE DEF w
<1>5. Jugee(a, r) = [numero |-> a.numero, connexion |-> a.connexion,
                     silence |-> r.age, verdicts |-> w]
  BY <1>4 DEF UneAnnonce
<1> QED BY <1>1, <1>3, <1>5 DEF UneAnnonce

\* The type of the vivier, and of the rest.
TypeVivier == DOMAIN annonces \subseteq Service /\ \A s \in DOMAIN annonces : UneAnnonce(annonces[s])

TypeAutour ==
  /\ DOMAIN sondes \subseteq Mesure
  /\ sondes    \in [DOMAIN sondes -> EtatDeSonde]
  /\ rapports  \in Seq(Rapport)
  /\ enVol     \in Nat
  /\ ouvertes  \subseteq Connexion
  /\ muettes   \subseteq ouvertes
  /\ tenu      \in Service
  /\ consignes \subseteq Service \ {Gagnant}
  /\ tour      \in {"verdicts", "consignes", "lecture", "menage"}
  /\ numero    \in Nat

LEMMA TypeEnDeux == TypeOK <=> TypeVivier /\ TypeAutour
BY DEF TypeOK, TypeVivier, TypeAutour

LEMMA TypeSans ==
  ASSUME TypeVivier, NEW S, annonces' = Sans(S)
  PROVE  TypeVivier'
BY DEF TypeVivier, Sans

LEMMA TypeRafraichies ==
  ASSUME TypeVivier, NEW c, NEW s \in DOMAIN annonces
  PROVE  /\ UneAnnonce(Rafraichies(c)[s])
         /\ Rafraichies(c)[s].numero = annonces[s].numero
         /\ Rafraichies(c)[s].connexion = annonces[s].connexion
<1>1. UneAnnonce([annonces[s] EXCEPT !.silence = 0]) /\ UneAnnonce(annonces[s])
  BY TypeSilence DEF TypeVivier
<1>2. Rafraichies(c)[s] = annonces[s] \/ Rafraichies(c)[s] = [annonces[s] EXCEPT !.silence = 0]
  BY DEF Rafraichies
<1>3. /\ [annonces[s] EXCEPT !.silence = 0].numero = annonces[s].numero
      /\ [annonces[s] EXCEPT !.silence = 0].connexion = annonces[s].connexion
  BY <1>1 DEF UneAnnonce
<1> QED BY <1>1, <1>2, <1>3

-----------------------------------------------------------------------------
(* The vivier: what a step does to the announcements.                      *)

\* Announcements are numbered as they are made.
Numerotees == \A s \in DOMAIN annonces : annonces[s].numero <= numero

VivierJuste == TypeVivier /\ AnnonceTenue /\ Numerotees

\* What RienNeDisparait says of one step.
Demeure ==
  \A s \in DOMAIN annonces :
    \/ \E t \in DOMAIN annonces' : annonces'[t].numero = annonces[s].numero
    \/ annonces[s].connexion \notin ouvertes'
    \/ Expiree(annonces[s].silence)
    \/ \E t \in DOMAIN annonces' : annonces'[t].numero > annonces[s].numero

\* A step that leaves each announcement where it is, changed in its silence and
\* its verdicts only.
LEMMA VivierSurPlace ==
  ASSUME VivierJuste,
         DOMAIN annonces' = DOMAIN annonces,
         \A s \in DOMAIN annonces :
           /\ UneAnnonce(annonces'[s])
           /\ annonces'[s].numero = annonces[s].numero
           /\ annonces'[s].connexion = annonces[s].connexion,
         UNCHANGED <<ouvertes, numero>>
  PROVE  VivierJuste' /\ Demeure
<1>1. TypeVivier'
  BY DEF VivierJuste, TypeVivier
<1>2. AnnonceTenue'
  BY DEF VivierJuste, AnnonceTenue
<1>3. Numerotees'
  BY DEF VivierJuste, Numerotees
<1>4. Demeure
  BY DEF Demeure
<1> QED BY <1>1, <1>2, <1>3, <1>4 DEF VivierJuste

LEMMA VivierAppliquer ==
  ASSUME TypeOK, VivierJuste, AppliquerUnVerdict
  PROVE  VivierJuste' /\ Demeure
<1> DEFINE r == Head(rapports)
           s == r.mesure.service
<1>1. r \in Rapport
  BY DEF TypeOK, AppliquerUnVerdict
<1>2. UNCHANGED <<ouvertes, numero>>
  BY DEF AppliquerUnVerdict
<1>3. \/ annonces' = annonces
      \/ annonces' = [annonces EXCEPT ![s] = Jugee(@, r)]
  BY DEF AppliquerUnVerdict
<1> HIDE DEF r, s
<1>4. ASSUME NEW t \in DOMAIN annonces
      PROVE  /\ UneAnnonce(annonces[t])
             /\ UneAnnonce(Jugee(annonces[t], r))
             /\ Jugee(annonces[t], r).numero = annonces[t].numero
             /\ Jugee(annonces[t], r).connexion = annonces[t].connexion
  <2>1. UneAnnonce(annonces[t])
    BY DEF VivierJuste, TypeVivier
  <2> QED BY <2>1, <1>1, TypeJugee
<1>5. \A t \in DOMAIN annonces :
        annonces'[t] = annonces[t] \/ annonces'[t] = Jugee(annonces[t], r)
  BY <1>3
<1>6. DOMAIN annonces' = DOMAIN annonces
  BY <1>3
<1>7. \A t \in DOMAIN annonces :
        /\ UneAnnonce(annonces'[t])
        /\ annonces'[t].numero = annonces[t].numero
        /\ annonces'[t].connexion = annonces[t].connexion
  BY <1>4, <1>5
<1> QED BY <1>2, <1>6, <1>7, VivierSurPlace

LEMMA VivierRecevoir ==
  ASSUME VivierJuste, NEW c \in Connexion, Recevoir(c)
  PROVE  VivierJuste' /\ Demeure
<1>1. annonces' = Rafraichies(c) /\ UNCHANGED <<ouvertes, numero>>
  BY DEF Recevoir
<1>2. DOMAIN annonces' = DOMAIN annonces
  BY <1>1 DEF Rafraichies
<1>3. \A s \in DOMAIN annonces :
        /\ UneAnnonce(annonces'[s])
        /\ annonces'[s].numero = annonces[s].numero
        /\ annonces'[s].connexion = annonces[s].connexion
  BY <1>1, TypeRafraichies DEF VivierJuste
<1> QED BY <1>1, <1>2, <1>3, VivierSurPlace

LEMMA VivierPasser ==
  ASSUME VivierJuste, Passer
  PROVE  VivierJuste' /\ Demeure
<1>1. /\ annonces' = [s \in DOMAIN annonces |->
                        [annonces[s] EXCEPT !.silence = Vieillir(@)]]
      /\ UNCHANGED <<ouvertes, numero>>
  BY DEF Passer
<1>2. DOMAIN annonces' = DOMAIN annonces
  BY <1>1
<1>3. ASSUME NEW s \in DOMAIN annonces
      PROVE  /\ UneAnnonce(annonces'[s])
             /\ annonces'[s].numero = annonces[s].numero
             /\ annonces'[s].connexion = annonces[s].connexion
  <2>1. UneAnnonce(annonces[s])
    BY DEF VivierJuste, TypeVivier
  <2>2. Vieillir(annonces[s].silence) \in Nat
    BY <2>1 DEF UneAnnonce, Vieillir, SilenceMax
  <2>3. annonces'[s] = [annonces[s] EXCEPT !.silence = Vieillir(annonces[s].silence)]
    BY <1>1
  <2>4. UneAnnonce(annonces'[s])
    BY <2>1, <2>2, <2>3, TypeSilence
  <2>5. /\ annonces'[s].numero = annonces[s].numero
        /\ annonces'[s].connexion = annonces[s].connexion
    BY <2>1, <2>3 DEF UneAnnonce
  <2> QED BY <2>4, <2>5
<1> QED BY <1>1, <1>2, <1>3, VivierSurPlace

LEMMA VivierOublier ==
  ASSUME VivierJuste, OublierLesExpirees
  PROVE  VivierJuste' /\ Demeure
<1>1. /\ annonces' = Sans({s \in DOMAIN annonces : Expiree(annonces[s].silence)})
      /\ UNCHANGED <<ouvertes, numero>>
  BY DEF OublierLesExpirees
<1>2. TypeVivier'
  BY <1>1, TypeSans DEF VivierJuste
<1>3. AnnonceTenue'
  BY <1>1 DEF VivierJuste, AnnonceTenue, Sans
<1>4. Numerotees'
  BY <1>1 DEF VivierJuste, Numerotees, Sans
<1>5. Demeure
  BY <1>1 DEF Demeure, Sans
<1> QED BY <1>2, <1>3, <1>4, <1>5 DEF VivierJuste

LEMMA VivierFermer ==
  ASSUME VivierJuste, NEW c \in Connexion, Fermer(c)
  PROVE  VivierJuste' /\ Demeure
<1>1. /\ annonces' = Sans({s \in DOMAIN annonces : annonces[s].connexion = c})
      /\ ouvertes' = ouvertes \ {c}
      /\ UNCHANGED numero
  BY DEF Fermer
<1>2. TypeVivier'
  BY <1>1, TypeSans DEF VivierJuste
<1>3. AnnonceTenue'
  BY <1>1 DEF VivierJuste, AnnonceTenue, Sans
<1>4. Numerotees'
  BY <1>1 DEF VivierJuste, Numerotees, Sans
<1>5. Demeure
  BY <1>1 DEF Demeure, Sans
<1> QED BY <1>2, <1>3, <1>4, <1>5 DEF VivierJuste

\* A renaming moves one announcement, under an identifier where none lives.
LEMMA VivierRenommer ==
  ASSUME VivierJuste, Renommer
  PROVE  VivierJuste' /\ Demeure
<1>1. PICK perdant \in consignes :
        annonces' =
          IF Gagnant \notin DOMAIN annonces /\ perdant \in DOMAIN annonces
            THEN [s \in (DOMAIN annonces \ {perdant}) \cup {Gagnant} |->
                    IF s = Gagnant THEN annonces[perdant] ELSE annonces[s]]
            ELSE annonces
  BY DEF Renommer
<1>2. UNCHANGED <<ouvertes, numero>>
  BY DEF Renommer
<1>3. CASE Gagnant \notin DOMAIN annonces /\ perdant \in DOMAIN annonces
  <2>1. annonces' = [s \in (DOMAIN annonces \ {perdant}) \cup {Gagnant} |->
                       IF s = Gagnant THEN annonces[perdant] ELSE annonces[s]]
    BY <1>1, <1>3
  <2>2. \A s \in DOMAIN annonces' :
          \E t \in DOMAIN annonces : annonces'[s] = annonces[t]
    BY <2>1, <1>3
  <2>3. \A s \in DOMAIN annonces :
          \E t \in DOMAIN annonces' : annonces'[t] = annonces[s]
    <3>1. annonces'[Gagnant] = annonces[perdant] /\ Gagnant \in DOMAIN annonces'
      BY <2>1
    <3>2. \A s \in DOMAIN annonces \ {perdant} :
            s \in DOMAIN annonces' /\ annonces'[s] = annonces[s]
      BY <2>1, <1>3
    <3> QED BY <3>1, <3>2
  <2>4. DOMAIN annonces' \subseteq Service
    BY <2>1 DEF VivierJuste, TypeVivier
  <2>5. TypeVivier'
    BY <2>2, <2>4 DEF VivierJuste, TypeVivier
  <2>6. AnnonceTenue'
    BY <2>2, <1>2 DEF VivierJuste, AnnonceTenue
  <2>7. Numerotees'
    BY <2>2, <1>2 DEF VivierJuste, Numerotees
  <2>8. Demeure
    BY <2>3 DEF Demeure
  <2> QED BY <2>5, <2>6, <2>7, <2>8 DEF VivierJuste
<1>4. CASE ~(Gagnant \notin DOMAIN annonces /\ perdant \in DOMAIN annonces)
  <2>1. annonces' = annonces
    BY <1>1, <1>4
  <2> QED BY <2>1, <1>2, VivierSurPlace DEF VivierJuste, TypeVivier
<1> QED BY <1>3, <1>4

\* A new announcement comes after all the others.
LEMMA VivierAnnoncer ==
  ASSUME TypeOK, VivierJuste, NEW c \in Connexion, Annoncer(c)
  PROVE  VivierJuste' /\ Demeure
<1> DEFINE nouvelle(P) == [numero |-> numero + 1, connexion |-> c, silence |-> 0,
                        verdicts |-> [p \in P |-> EnCours]]
<1>1. PICK P \in SUBSET Point \ {{}} :
        annonces' = [s \in DOMAIN annonces \cup {tenu} |->
                       IF s = tenu THEN nouvelle(P) ELSE Rafraichies(c)[s]]
  BY DEF Annoncer
<1>2. /\ numero' = numero + 1 /\ ouvertes' = ouvertes
      /\ c \in ouvertes /\ numero \in Nat /\ tenu \in Service
  BY DEF Annoncer, TypeOK
<1>3. UneAnnonce(nouvelle(P)) /\ nouvelle(P).numero = numero + 1 /\ nouvelle(P).connexion = c
  <2>1. [p \in P |-> EnCours] \in [P -> Verdict]
    BY DEF EnCours, Verdict
  <2> QED BY <2>1, <1>2 DEF UneAnnonce
<1> HIDE DEF nouvelle
<1>4. /\ DOMAIN annonces' = DOMAIN annonces \cup {tenu}
      /\ annonces'[tenu] = nouvelle(P)
      /\ \A s \in DOMAIN annonces \ {tenu} : annonces'[s] = Rafraichies(c)[s]
  BY <1>1
<1>5. \A s \in DOMAIN annonces :
        /\ UneAnnonce(Rafraichies(c)[s])
        /\ Rafraichies(c)[s].numero = annonces[s].numero
        /\ Rafraichies(c)[s].connexion = annonces[s].connexion
  BY TypeRafraichies DEF VivierJuste
<1>6. \A s \in DOMAIN annonces : annonces[s].numero \in Nat
  BY DEF VivierJuste, TypeVivier, UneAnnonce
<1>7. TypeVivier'
  BY <1>2, <1>3, <1>4, <1>5 DEF VivierJuste, TypeVivier
<1>8. AnnonceTenue'
  BY <1>2, <1>3, <1>4, <1>5 DEF VivierJuste, AnnonceTenue
<1>9. Numerotees'
  BY <1>2, <1>3, <1>4, <1>5, <1>6 DEF VivierJuste, Numerotees
<1>10. \A s \in DOMAIN annonces : annonces'[tenu].numero > annonces[s].numero
  BY <1>2, <1>3, <1>4, <1>6 DEF VivierJuste, Numerotees
<1>11. Demeure
  BY <1>4, <1>10 DEF Demeure
<1> QED BY <1>7, <1>8, <1>9, <1>11 DEF VivierJuste

-----------------------------------------------------------------------------
(* Around the vivier: the probes, their channel and the counter.           *)

\* The probes in flight are those of announcements already made, in finite
\* number, and the counter is exact.
Comptees ==
  /\ TypeAutour
  /\ IsFiniteSet(DOMAIN sondes)
  /\ \A m \in DOMAIN sondes : m.numero <= numero
  /\ EnVolJuste

LEMMA EtatInitial ==
  ASSUME Init
  PROVE  VivierJuste /\ Comptees
<1>1. VivierJuste
  BY DEF Init, VivierJuste, TypeVivier, AnnonceTenue, Numerotees
<1>2. DOMAIN sondes = {} /\ rapports = <<>> /\ enVol = 0
  BY DEF Init
<1>3. IsFiniteSet(DOMAIN sondes) /\ Cardinality(DOMAIN sondes) = 0
  BY <1>2, FS_EmptySet
<1>4. sondes \in [DOMAIN sondes -> EtatDeSonde]
  BY DEF Init
<1>5. TypeAutour
  BY <1>2, <1>4 DEF Init, TypeAutour
<1>6. EnVolJuste
  BY <1>2, <1>3 DEF EnVolJuste
<1> QED BY <1>1, <1>2, <1>3, <1>5, <1>6 DEF Comptees

\* The probes of one announcement are finitely many, and new.
LEMMA MesuresFinies ==
  ASSUME NEW P \in SUBSET Point, NEW n
  PROVE  IsFiniteSet(Mesures(P, n))
<1> DEFINE f == [p \in P |-> [service |-> tenu, point |-> p, numero |-> n]]
<1>1. f \in Surjection(P, Mesures(P, n))
  BY DEF Surjection, Mesures
<1>2. IsFiniteSet(P)
  BY FS_Subset
<1> QED BY <1>1, <1>2, FS_Surjection

LEMMA ComptesAnnoncer ==
  ASSUME Comptees, NEW c \in Connexion, Annoncer(c)
  PROVE  Comptees'
<1> DEFINE n == numero + 1
<1> DEFINE Partent(L) ==
             /\ sondes' = [m \in DOMAIN sondes \cup L |->
                             IF m \in L THEN [issue |-> "en_cours", age |-> 0] ELSE sondes[m]]
             /\ enVol' = enVol + Cardinality(L)
<1>0. PICK P \in SUBSET Point \ {{}} : \E L \in ALancer(Mesures(P, n)) : Partent(L)
  BY DEF Annoncer
<1>1. PICK lancees \in ALancer(Mesures(P, n)) : Partent(lancees)
  BY <1>0
<1>2. /\ UNCHANGED <<rapports, ouvertes, muettes, tenu, consignes>>
      /\ tour' = "menage" /\ numero' = n
  BY DEF Annoncer
<1>3. TypeAutour /\ numero \in Nat /\ enVol \in Nat /\ tenu \in Service
  BY DEF Comptees, TypeAutour
<1>4. lancees \subseteq Mesures(P, n)
  BY DEF ALancer
<1>5. lancees \subseteq Mesure /\ \A m \in lancees : m.numero = n
  BY <1>3, <1>4 DEF Mesures, Mesure
<1>6. IsFiniteSet(Mesures(P, n))
  BY MesuresFinies
<1>7. IsFiniteSet(lancees)
  BY <1>4, <1>6, FS_Subset
<1>8. Cardinality(lancees) \in Nat /\ Cardinality(Mesures(P, n)) \in Nat
  BY <1>6, <1>7, FS_CardinalityType
<1>9. Cardinality(lancees) <= Place
  <2>1. Place \in Nat
    BY <1>3 DEF Place
  <2>2. Cardinality(lancees) = IF Cardinality(Mesures(P, n)) <= Place
                                 THEN Cardinality(Mesures(P, n)) ELSE Place
    BY DEF ALancer
  <2> QED BY <1>8, <2>1, <2>2
<1>10. enVol' <= EnVolMax
  BY <1>1, <1>3, <1>8, <1>9 DEF Place, Comptees, EnVolJuste
<1>11. DOMAIN sondes' = DOMAIN sondes \cup lancees
  BY <1>1
<1>12. DOMAIN sondes \cap lancees = {}
  BY <1>3, <1>5 DEF Comptees
<1>13. /\ IsFiniteSet(DOMAIN sondes')
       /\ Cardinality(DOMAIN sondes') = Cardinality(DOMAIN sondes) + Cardinality(lancees)
  <2>1. IsFiniteSet(DOMAIN sondes)
    BY DEF Comptees
  <2>2. Cardinality(DOMAIN sondes) \in Nat
    BY <2>1, FS_CardinalityType
  <2>3. /\ IsFiniteSet(DOMAIN sondes \cup lancees)
        /\ Cardinality(DOMAIN sondes \cup lancees) =
             Cardinality(DOMAIN sondes) + Cardinality(lancees)
               - Cardinality(DOMAIN sondes \cap lancees)
    BY <2>1, <1>7, FS_Union
  <2>4. Cardinality(DOMAIN sondes \cap lancees) = 0
    BY <1>12, FS_EmptySet
  <2> QED BY <1>8, <1>11, <2>2, <2>3, <2>4
<1>14. EnVolJuste'
  <2>1. Len(rapports) \in Nat /\ Len(rapports') = Len(rapports)
    BY <1>2, <1>3 DEF TypeAutour
  <2>2. Cardinality(DOMAIN sondes) \in Nat
    BY FS_CardinalityType DEF Comptees
  <2>3. enVol = Cardinality(DOMAIN sondes) + Len(rapports)
    BY DEF Comptees, EnVolJuste
  <2>4. enVol' = Cardinality(DOMAIN sondes') + Len(rapports')
    BY <1>1, <1>8, <1>13, <2>1, <2>2, <2>3
  <2> QED BY <1>10, <2>4 DEF EnVolJuste
<1>15. sondes' \in [DOMAIN sondes' -> EtatDeSonde]
  <2>1. [issue |-> "en_cours", age |-> 0] \in EtatDeSonde
    BY DEF EtatDeSonde
  <2>2. \A m \in DOMAIN sondes : sondes[m] \in EtatDeSonde
    BY <1>3 DEF TypeAutour
  <2> QED BY <1>1, <2>1, <2>2
<1>16. TypeAutour'
  BY <1>1, <1>2, <1>3, <1>5, <1>8, <1>11, <1>15 DEF TypeAutour
<1>17. \A m \in DOMAIN sondes' : m.numero <= numero'
  <2>1. \A m \in DOMAIN sondes : m.numero \in Nat /\ m.numero <= numero
    BY <1>3 DEF Comptees, TypeAutour, Mesure
  <2> QED BY <1>2, <1>3, <1>5, <1>11, <2>1
<1> QED BY <1>13, <1>14, <1>16, <1>17 DEF Comptees

\* A report is read: a slot comes back.
LEMMA ComptesAppliquer ==
  ASSUME Comptees, AppliquerUnVerdict
  PROVE  Comptees'
<1>1. /\ rapports # <<>> /\ rapports' = Tail(rapports)
      /\ enVol' = IF enVol = 0 THEN 0 ELSE enVol - 1
      /\ UNCHANGED <<sondes, ouvertes, muettes, tenu, consignes, tour, numero>>
  BY DEF AppliquerUnVerdict
<1>2. rapports \in Seq(Rapport) /\ enVol \in Nat
  BY DEF Comptees, TypeAutour
<1>3. rapports' \in Seq(Rapport) /\ Len(rapports) \in Nat \ {0} /\ Len(rapports') = Len(rapports) - 1
  BY <1>1, <1>2
<1>4. Cardinality(DOMAIN sondes) \in Nat
  BY FS_CardinalityType DEF Comptees
<1>5. enVol' \in Nat
  BY <1>1, <1>2
<1>6. EnVolJuste'
  BY <1>1, <1>2, <1>3, <1>4 DEF Comptees, EnVolJuste
<1>7. TypeAutour'
  BY <1>1, <1>3, <1>5 DEF Comptees, TypeAutour
<1> QED BY <1>1, <1>6, <1>7 DEF Comptees

LEMMA ComptesDater ==
  ASSUME Comptees, NEW m \in DOMAIN sondes, Dater(m)
  PROVE  Comptees'
<1>1. PICK issue \in {"joignable", "injoignable"} :
        sondes' = [sondes EXCEPT ![m] = [issue |-> issue, age |-> 0]]
  BY DEF Dater
<1>2. UNCHANGED <<rapports, enVol, ouvertes, muettes, tenu, consignes, tour, numero>>
  BY DEF Dater
<1>3. [issue |-> issue, age |-> 0] \in EtatDeSonde
  BY DEF EtatDeSonde
<1>4. DOMAIN sondes' = DOMAIN sondes
  BY <1>1
<1>5. sondes' \in [DOMAIN sondes' -> EtatDeSonde]
  BY <1>1, <1>3, <1>4 DEF Comptees, TypeAutour
<1>6. TypeAutour'
  BY <1>2, <1>4, <1>5 DEF Comptees, TypeAutour
<1> QED BY <1>2, <1>4, <1>6 DEF Comptees, EnVolJuste

\* A probe becomes a report: the sum does not change.
LEMMA ComptesRapporter ==
  ASSUME Comptees, NEW m \in DOMAIN sondes, Rapporter(m)
  PROVE  Comptees'
<1> DEFINE r == [mesure |-> m, issue |-> sondes[m].issue, age |-> sondes[m].age]
<1>1. /\ sondes[m].issue # "en_cours"
      /\ rapports' = Append(rapports, r)
      /\ sondes'   = [n \in DOMAIN sondes \ {m} |-> sondes[n]]
      /\ UNCHANGED <<enVol, ouvertes, muettes, tenu, consignes, tour, numero>>
  BY DEF Rapporter
<1>2. m \in Mesure /\ sondes[m] \in EtatDeSonde /\ rapports \in Seq(Rapport)
  BY DEF Comptees, TypeAutour
<1>3. r \in Rapport
  BY <1>1, <1>2 DEF Rapport, EtatDeSonde
<1> HIDE DEF r
<1>4. rapports' \in Seq(Rapport) /\ Len(rapports') = Len(rapports) + 1 /\ Len(rapports) \in Nat
  BY <1>1, <1>2, <1>3
<1>5. DOMAIN sondes' = DOMAIN sondes \ {m}
  BY <1>1
<1>6. IsFiniteSet(DOMAIN sondes)
  BY DEF Comptees
<1>7. /\ IsFiniteSet(DOMAIN sondes')
      /\ Cardinality(DOMAIN sondes') = Cardinality(DOMAIN sondes) - 1
      /\ Cardinality(DOMAIN sondes) \in Nat
  BY <1>5, <1>6, FS_RemoveElement, FS_CardinalityType
<1>8. EnVolJuste'
  BY <1>1, <1>4, <1>7 DEF Comptees, EnVolJuste
<1>9. sondes' \in [DOMAIN sondes' -> EtatDeSonde]
  BY <1>1, <1>5 DEF Comptees, TypeAutour
<1>10. TypeAutour'
  BY <1>1, <1>4, <1>5, <1>9 DEF Comptees, TypeAutour
<1>11. \A n \in DOMAIN sondes' : n.numero <= numero'
  BY <1>1, <1>5 DEF Comptees
<1> QED BY <1>7, <1>8, <1>10, <1>11 DEF Comptees

LEMMA ComptesPasser ==
  ASSUME Comptees, Passer
  PROVE  Comptees'
<1>1. /\ sondes'   = [m \in DOMAIN sondes |->
                        IF sondes[m].issue = "en_cours" THEN sondes[m]
                                                        ELSE [sondes[m] EXCEPT !.age = @ + 1]]
      /\ rapports' = [i \in DOMAIN rapports |-> [rapports[i] EXCEPT !.age = @ + 1]]
      /\ UNCHANGED <<enVol, ouvertes, muettes, tenu, consignes, tour, numero>>
  BY DEF Passer
<1>2. sondes \in [DOMAIN sondes -> EtatDeSonde] /\ rapports \in Seq(Rapport)
  BY DEF Comptees, TypeAutour
<1>3. DOMAIN sondes' = DOMAIN sondes
  BY <1>1
<1>4. \A m \in DOMAIN sondes : sondes'[m] \in EtatDeSonde
  BY <1>1, <1>2 DEF EtatDeSonde
<1>5. sondes' \in [DOMAIN sondes' -> EtatDeSonde]
  BY <1>1, <1>3, <1>4
<1>6. \A i \in 1..Len(rapports) : rapports[i] \in Rapport
  BY <1>2
<1>7. \A i \in 1..Len(rapports) : [rapports[i] EXCEPT !.age = @ + 1] \in Rapport
  BY <1>6 DEF Rapport
<1>8. DOMAIN rapports = 1..Len(rapports) /\ Len(rapports) \in Nat
  BY <1>2
<1>9. rapports' \in Seq(Rapport) /\ Len(rapports') = Len(rapports)
  BY <1>1, <1>7, <1>8
<1>10. TypeAutour'
  BY <1>1, <1>3, <1>5, <1>9 DEF Comptees, TypeAutour
<1>11. EnVolJuste'
  BY <1>1, <1>3, <1>9 DEF Comptees, EnVolJuste
<1> QED BY <1>1, <1>3, <1>10, <1>11 DEF Comptees

\* The other steps leave the probes alone.
LEMMA ComptesInchanges ==
  ASSUME Comptees, UNCHANGED <<sondes, rapports, enVol, numero>>,
         ouvertes' \subseteq ouvertes, muettes' \subseteq ouvertes', tenu' \in Service,
         consignes' \subseteq Service \ {Gagnant},
         tour' \in {"verdicts", "consignes", "lecture", "menage"}
  PROVE  Comptees'
<1>1. TypeAutour'
  BY DEF Comptees, TypeAutour
<1> QED BY <1>1 DEF Comptees, EnVolJuste

-----------------------------------------------------------------------------
(* Every step.                                                             *)

IInv == VivierJuste /\ Comptees

LEMMA TypeDeIInv == IInv => TypeOK
BY TypeEnDeux DEF IInv, VivierJuste, Comptees

LEMMA VivierInchange ==
  ASSUME VivierJuste, UNCHANGED <<annonces, ouvertes, numero>>
  PROVE  VivierJuste' /\ Demeure
BY VivierSurPlace DEF VivierJuste, TypeVivier

LEMMA PasDeBoucle ==
  ASSUME IInv, Boucle
  PROVE  IInv' /\ Demeure
<1>1. TypeOK /\ VivierJuste /\ Comptees /\ TypeAutour
  BY TypeDeIInv DEF IInv, Comptees
<1>2. CASE AppliquerUnVerdict
  BY <1>1, <1>2, VivierAppliquer, ComptesAppliquer DEF IInv
<1>3. CASE OublierLesExpirees
  <2>1. Comptees'
    BY <1>1, <1>3, ComptesInchanges DEF OublierLesExpirees, TypeAutour
  <2> QED BY <1>1, <1>3, <2>1, VivierOublier DEF IInv
<1>4. CASE Renommer
  <2>1. Comptees'
    BY <1>1, <1>4, ComptesInchanges DEF Renommer, TypeAutour
  <2> QED BY <1>1, <1>4, <2>1, VivierRenommer DEF IInv
<1>5. CASE FinirAuTour
  <2>1. Comptees'
    BY <1>1, <1>5, ComptesInchanges DEF FinirAuTour, TypeAutour
  <2> QED BY <1>1, <1>5, <2>1, VivierInchange DEF IInv, FinirAuTour
<1>6. CASE NeRienLire
  <2>1. Comptees'
    BY <1>1, <1>6, ComptesInchanges DEF NeRienLire, TypeAutour
  <2> QED BY <1>1, <1>6, <2>1, VivierInchange DEF IInv, NeRienLire
<1>7. CASE RecommencerUnTour
  <2>1. Comptees'
    BY <1>1, <1>7, ComptesInchanges DEF RecommencerUnTour, TypeAutour
  <2> QED BY <1>1, <1>7, <2>1, VivierInchange DEF IInv, RecommencerUnTour
<1>8. CASE \E c \in Connexion : Recevoir(c)
  <2>1. PICK c \in Connexion : Recevoir(c)
    BY <1>8
  <2>2. Comptees'
    BY <1>1, <2>1, ComptesInchanges DEF Recevoir, TypeAutour
  <2> QED BY <1>1, <2>1, <2>2, VivierRecevoir DEF IInv
<1>9. CASE \E c \in Connexion : Annoncer(c)
  <2>1. PICK c \in Connexion : Annoncer(c)
    BY <1>9
  <2> QED BY <1>1, <2>1, VivierAnnoncer, ComptesAnnoncer DEF IInv
<1>10. CASE \E c \in Connexion : Fermer(c)
  <2>1. PICK c \in Connexion : Fermer(c)
    BY <1>10
  <2>2. Comptees'
    BY <1>1, <2>1, ComptesInchanges DEF Fermer, TypeAutour
  <2> QED BY <1>1, <2>1, <2>2, VivierFermer DEF IInv
<1> QED BY <1>2, <1>3, <1>4, <1>5, <1>6, <1>7, <1>8, <1>9, <1>10 DEF Boucle

LEMMA Pas ==
  ASSUME IInv, [Next]_vars
  PROVE  IInv' /\ (Demeure \/ UNCHANGED vars)
<1>1. VivierJuste /\ Comptees /\ TypeAutour
  BY DEF IInv, Comptees
<1>2. CASE Boucle
  BY <1>2, PasDeBoucle
<1>3. CASE Sonder
  <2>1. PICK m \in DOMAIN sondes : Dater(m) \/ Rapporter(m)
    BY <1>3 DEF Sonder
  <2>2. Comptees'
    BY <1>1, <2>1, ComptesDater, ComptesRapporter
  <2>3. UNCHANGED <<annonces, ouvertes, numero>>
    BY <2>1 DEF Dater, Rapporter
  <2> QED BY <1>1, <2>2, <2>3, VivierInchange DEF IInv
<1>4. CASE Fusionner
  <2>1. tenu \in Service /\ tenu # Gagnant /\ Gagnant \in Service
    BY <1>1, <1>4 DEF Fusionner, TypeAutour
  <2>2. Comptees'
    BY <1>1, <1>4, <2>1, ComptesInchanges DEF Fusionner, TypeAutour
  <2> QED BY <1>1, <1>4, <2>2, VivierInchange DEF IInv, Fusionner
<1>5. CASE \E c \in Connexion : SeTaire(c)
  <2>1. PICK c \in Connexion : SeTaire(c)
    BY <1>5
  <2>2. Comptees'
    BY <1>1, <2>1, ComptesInchanges DEF SeTaire, TypeAutour
  <2> QED BY <1>1, <2>1, <2>2, VivierInchange DEF IInv, SeTaire
<1>6. CASE Passer
  BY <1>1, <1>6, VivierPasser, ComptesPasser DEF IInv
<1>7. CASE UNCHANGED vars
  <2>1. Comptees'
    BY <1>1, <1>7, ComptesInchanges DEF vars, TypeAutour
  <2> QED BY <1>1, <1>7, <2>1, VivierInchange DEF IInv, vars
<1> QED BY <1>2, <1>3, <1>4, <1>5, <1>6, <1>7 DEF Next

-----------------------------------------------------------------------------
(* The theorems.                                                           *)

\* The inductive invariant holds: the vivier is consistent with the connections
\* and the counter with the probes, whatever the loop and its tasks do.
THEOREM Invariant == Spec => []IInv
<1>1. Init => IInv
  BY EtatInitial DEF IInv
<1>2. IInv /\ [Next]_vars => IInv'
  BY Pas
<1> QED BY <1>1, <1>2, PTL DEF Spec

\* Every state is of the declared types, for any number of services, points and
\* connections.
THEOREM TypeCorrect == Spec => []TypeOK
BY Invariant, TypeDeIInv, PTL

\* A slot taken by lancer_les_sondes is given back by au_tour exactly once, and
\* the bound of probes in flight holds.
THEOREM EnVolTenu == Spec => []EnVolJuste
<1>1. IInv => EnVolJuste
  BY DEF IInv, Comptees
<1> QED BY <1>1, Invariant, PTL

\* No announcement outlives the connection that made it.
THEOREM AnnonceTenueToujours == Spec => []AnnonceTenue
<1>1. IInv => AnnonceTenue
  BY DEF IInv, VivierJuste
<1> QED BY <1>1, Invariant, PTL

\* An announcement leaves only with its connection, its lease, or for a later one.
THEOREM RienNeDisparaitJamais == Spec => RienNeDisparait
<1>1. IInv /\ [Next]_vars => [Demeure]_vars
  BY Pas
<1>2. Spec => [][Demeure]_vars
  BY <1>1, Invariant, PTL DEF Spec
<1> QED BY <1>2 DEF RienNeDisparait, Demeure
-----------------------------------------------------------------------------
(* The federated state: types.                                             *)

Etape == {Eteinte, Hors, Repos, [etape |-> "tiree"]}
           \cup [etape : {"tire"}, apres : Nat, vues : SUBSET Machine]
           \cup [etape : {"pousse"}, reste : SUBSET Entree]

Requete == [entrees : SUBSET Entree, ouverte : BOOLEAN]

UneVoie == [connexion : {"aucune", "courante", "ancienne", "finie"}, fermee : BOOLEAN,
            mot : 0..Expiration + 1]

TypeRacines ==
  /\ rattachees \subseteq Machine /\ hebergees \in [Racine -> SUBSET Machine]
  /\ acceptes \subseteq Membre
  /\ tenus \in [Paire -> [Machine -> RapportFedere]]

TypeMembres ==
  /\ federees \in [Membre -> SUBSET Machine] /\ vivier \in [Membre -> SUBSET Machine]
  /\ aFermer \in [Membre -> SUBSET Machine] /\ publies \in [Membre -> SUBSET Entree]

TypeVoies ==
  /\ voies \in [Paire -> UneVoie]
  /\ ancienne \in [Paire -> Requete]
  /\ session \in [Paire -> Etape]
  /\ neuve \in [Paire -> BOOLEAN] /\ prochaine \in [Paire -> BOOLEAN]

TypeDehors ==
  /\ chez \in [Machine -> Membre \cup {Arret}]
  /\ changements \in 0..ChangementsMax /\ deplacements \in 0..DeplacementsMax
  /\ pannes \in 0..PannesMax

LEMMA TypeEnQuatre == TypeFederation <=> TypeRacines /\ TypeMembres /\ TypeVoies /\ TypeDehors
BY DEF TypeFederation, TypeRacines, TypeMembres, TypeVoies, TypeDehors, UneVoie, Requete, Etape

LEMMA DesEtapes ==
  /\ {Eteinte, Hors, Repos, [etape |-> "tiree"]} \subseteq Etape
  /\ Eteinte.etape = "eteinte" /\ Hors.etape = "hors" /\ Repos.etape = "repos"
  /\ Eteinte # Repos /\ Hors # Repos
  /\ [etape |-> "tiree"] \notin {Eteinte, Hors}
  /\ \A s \in Etape : s.etape = "tire"   => s.apres \in Nat /\ s.vues \in SUBSET Machine
  /\ \A s \in Etape : s.etape = "pousse" => s.reste \in SUBSET Entree
  /\ \A s \in Etape : s.etape \in {"tire", "tiree", "pousse"} => s \notin {Eteinte, Hors}
<1>1. Eteinte.etape = "eteinte" /\ Hors.etape = "hors" /\ Repos.etape = "repos"
  BY DEF Eteinte, Hors, Repos
<1>2. {Eteinte, Hors, Repos, [etape |-> "tiree"]} \subseteq Etape
  BY DEF Etape
<1>3. \A s \in Etape : s.etape = "tire" => s.apres \in Nat /\ s.vues \in SUBSET Machine
  BY <1>1 DEF Etape
<1>4. \A s \in Etape : s.etape = "pousse" => s.reste \in SUBSET Entree
  BY <1>1 DEF Etape
<1>5. [etape |-> "tiree"].etape = "tiree"
  OBVIOUS
<1> QED BY <1>1, <1>2, <1>3, <1>4, <1>5

LEMMA DesRequetes == Aucune \in Requete /\ Muette \in Requete /\ Aucune # Muette
                     /\ Muette.entrees = {} /\ Muette.ouverte = TRUE
BY DEF Aucune, Muette, Requete

LEMMA DesPremieres == ASSUME NEW S \in SUBSET Entree PROVE Premieres(S) \in SUBSET Entree
BY DEF Premieres

LEMMA DesDemandes ==
  ASSUME TypeMembres, TypeVoies, NEW p \in Paire
  PROVE  Demande(p) \in Requete /\ Demande(p) # Aucune
<1>1. session[p] \in Etape /\ publies[p[2]] \in SUBSET Entree
  BY DEF TypeMembres, TypeVoies, Paire
<1>2. Demande(p).entrees \in SUBSET Entree
  BY <1>1, DesEtapes, DesPremieres DEF Demande
<1> QED BY <1>2 DEF Demande, Requete, Aucune
-----------------------------------------------------------------------------
(* The invariant.                                                          *)

\* The connection a member spoke on last is the one of its session, or the one it
\* left and that is still held, or it is closed.  A session speaks at each turn: its
\* last word is a cadence old at most, and then its turn has come.
VoieVive(p) ==
  /\ voies[p].connexion = "courante" =>
       /\ ~SansSession(p) /\ ~voies[p].fermee
       /\ voies[p].mot = 0 \/ (voies[p].mot = 1 /\ session[p] = Repos /\ prochaine[p])
  /\ voies[p].connexion = "ancienne" => ancienne[p] # Aucune /\ ~voies[p].fermee
  /\ voies[p].connexion = "finie"    => voies[p].fermee

VoiesVives == \A p \in Paire : VoieVive(p)

Juste == TypeRacines /\ TypeMembres /\ TypeVoies /\ TypeDehors /\ VoiesVives

\* A word on a connection.
Parole(k) == [connexion |-> k, fermee |-> FALSE, mot |-> 0]

LEMMA DesVoies ==
  /\ \A k \in {"courante", "ancienne"} : Parole(k) \in UneVoie
  /\ \A v \in UneVoie : [v EXCEPT !.connexion = "ancienne"] \in UneVoie
  /\ \A v \in UneVoie :
       /\ Delaissee(v) \in UneVoie
       /\ Delaissee(v).fermee = v.fermee
       /\ v.connexion = "courante" => Delaissee(v).connexion = "ancienne"
       /\ v.connexion # "courante" => Delaissee(v) = v
  /\ \A v \in UneVoie : v.connexion = "ancienne" =>
       Tombee(v) \in UneVoie /\ Tombee(v).connexion = "finie" /\ Tombee(v).fermee
  /\ Inconnue \in UneVoie
<1>1. \A k \in {"courante", "ancienne"} : Parole(k) \in UneVoie
  BY DEF Parole, UneVoie
<1>2. Inconnue \in UneVoie
  BY DEF Inconnue, UneVoie
<1>3. \A v \in UneVoie : [v EXCEPT !.connexion = "ancienne"] \in UneVoie
  BY DEF UneVoie
<1>4. \A v \in UneVoie :
       /\ Delaissee(v) \in UneVoie
       /\ Delaissee(v).fermee = v.fermee
       /\ v.connexion = "courante" => Delaissee(v).connexion = "ancienne"
       /\ v.connexion # "courante" => Delaissee(v) = v
  BY <1>3 DEF Delaissee, UneVoie
<1>5. ASSUME NEW v \in UneVoie, v.connexion = "ancienne"
      PROVE  Tombee(v) \in UneVoie /\ Tombee(v).connexion = "finie" /\ Tombee(v).fermee
  BY <1>5 DEF UneVoie, Tombee
<1> QED BY <1>1, <1>2, <1>3, <1>4, <1>5

LEMMA JusteSuffit == ASSUME Juste PROVE FederationJuste
<1>1. \A p \in Paire : voies[p] \in UneVoie
  BY DEF Juste, TypeVoies
<1>2. ASSUME NEW p \in Paire
      PROVE  /\ VoieDe(p) = "ouverte" <=> Tient(p) /\ voies[p].mot <= Expiration
             /\ voies[p].connexion = "courante" => VoieDe(p) = "ouverte"
  <2>1. VoieVive(p) /\ voies[p] \in UneVoie
    BY <1>1 DEF Juste, VoiesVives
  <2>2. CASE voies[p].connexion = "courante"
    BY <2>1, <2>2 DEF VoieVive, VoieDe, Tient
  <2>3. CASE voies[p].connexion = "ancienne"
    BY <2>1, <2>3 DEF VoieVive, VoieDe, Tient
  <2>4. CASE voies[p].connexion = "finie"
    BY <2>1, <2>4 DEF VoieVive, VoieDe, Tient
  <2>5. CASE voies[p].connexion = "aucune"
    BY <2>1, <2>5 DEF VoieVive, VoieDe, Tient
  <2> QED BY <2>1, <2>2, <2>3, <2>4, <2>5 DEF UneVoie
<1>3. VoieJuste
  BY <1>2 DEF VoieJuste
<1> QED BY <1>3, TypeEnQuatre DEF Juste, FederationJuste

\* A step that leaves the paths, the sessions and their turns.
LEMMA VoiesGardees ==
  ASSUME TypeVoies, VoiesVives, UNCHANGED <<voies, ancienne, session, prochaine>>,
         neuve' \in [Paire -> BOOLEAN]
  PROVE  TypeVoies' /\ VoiesVives'
BY DEF TypeVoies, VoiesVives, VoieVive, SansSession

\* The session of p alone goes from one stage to another, and nothing is left; it
\* speaks if its turn has come.
LEMMA VoieSuivie ==
  ASSUME TypeVoies, VoiesVives, NEW p \in Paire, NEW e \in Etape, e \notin {Eteinte, Hors},
         Mettre(p, e), ancienne' = ancienne,
         \/ voies' = voies /\ ~(voies[p].connexion = "courante" /\ session[p] = Repos /\ prochaine[p])
         \/ NoterUneParole(p, "courante"),
         neuve' \in [Paire -> BOOLEAN], prochaine' \in [Paire -> BOOLEAN],
         \A q \in Paire \ {p} : prochaine'[q] = prochaine[q]
  PROVE  TypeVoies' /\ VoiesVives'
<1>1. /\ session' \in [Paire -> Etape] /\ session'[p] = e
      /\ \A q \in Paire \ {p} : session'[q] = session[q]
  BY DEF Mettre, TypeVoies
<1>2. /\ voies' \in [Paire -> UneVoie]
      /\ \/ /\ voies'[p] = voies[p]
            /\ ~(voies[p].connexion = "courante" /\ session[p] = Repos /\ prochaine[p])
         \/ voies'[p] = Parole("courante")
      /\ \A q \in Paire \ {p} : voies'[q] = voies[q]
  <2>1. CASE NoterUneParole(p, "courante")
    <3>1. voies' = [voies EXCEPT ![p] = Parole("courante")]
      BY <2>1 DEF NoterUneParole, Parole
    <3>2. Parole("courante") \in UneVoie
      BY DesVoies
    <3> QED BY <3>1, <3>2 DEF TypeVoies
  <2> QED BY <2>1 DEF TypeVoies
<1>3. VoieVive(p)'
  <2>1. CASE voies'[p] = Parole("courante")
    BY <1>1, <2>1 DEF VoieVive, SansSession, Parole
  <2>2. CASE /\ voies'[p] = voies[p]
             /\ ~(voies[p].connexion = "courante" /\ session[p] = Repos /\ prochaine[p])
    BY <1>1, <2>2 DEF VoiesVives, VoieVive, SansSession
  <2> QED BY <1>2, <2>1, <2>2
<1>4. \A q \in Paire \ {p} : VoieVive(q)'
  BY <1>1, <1>2 DEF VoiesVives, VoieVive, SansSession
<1> QED BY <1>1, <1>2, <1>3, <1>4 DEF TypeVoies, VoiesVives

\* The connection of p is left.
LEMMA VoieQuittee ==
  ASSUME TypeVoies, VoiesVives, NEW p \in Paire, NEW d \in Requete, d # Aucune, Quitte(p, d),
         voies' = [voies EXCEPT ![p] = Delaissee(@)]
           \/ voies' = [voies EXCEPT ![p] = Parole("ancienne")]
  PROVE  TypeVoies' /\ VoiesVives'
<1>1. /\ session' \in [Paire -> Etape] /\ ancienne' \in [Paire -> Requete] /\ ancienne'[p] = d
      /\ neuve' \in [Paire -> BOOLEAN] /\ prochaine' \in [Paire -> BOOLEAN]
      /\ \A q \in Paire \ {p} : /\ session'[q] = session[q] /\ ancienne'[q] = ancienne[q]
                                /\ prochaine'[q] = prochaine[q]
  BY DesEtapes DEF Quitte, Mettre, TypeVoies
<1>2. /\ voies[p] \in UneVoie
      /\ voies[p].connexion = "courante" => ~voies[p].fermee
      /\ voies[p].connexion = "ancienne" => ~voies[p].fermee
      /\ voies[p].connexion = "finie"    => voies[p].fermee
  BY DEF TypeVoies, VoiesVives, VoieVive
<1>3. Parole("ancienne").connexion = "ancienne" /\ ~Parole("ancienne").fermee
  BY DEF Parole
<1>4. /\ voies' \in [Paire -> UneVoie]
      /\ voies'[p] \in {Delaissee(voies[p]), Parole("ancienne")}
      /\ \A q \in Paire \ {p} : voies'[q] = voies[q]
  <2>1. Delaissee(voies[p]) \in UneVoie /\ Parole("ancienne") \in UneVoie
    BY <1>2, DesVoies
  <2>2. PICK v \in UneVoie : /\ voies' = [voies EXCEPT ![p] = v]
                             /\ v \in {Delaissee(voies[p]), Parole("ancienne")}
    BY <2>1
  <2> QED BY <2>2 DEF TypeVoies
<1>5. VoieVive(p)'
  <2>1. /\ voies'[p].connexion # "courante"
        /\ voies'[p].connexion = "ancienne" => ~voies'[p].fermee
        /\ voies'[p].connexion = "finie"    => voies'[p].fermee
    <3>1. CASE voies'[p] = Parole("ancienne")
      BY <1>3, <3>1
    <3>2. CASE voies'[p] = Delaissee(voies[p]) /\ voies[p].connexion = "courante"
      <4>1. /\ Delaissee(voies[p]).connexion = "ancienne"
            /\ Delaissee(voies[p]).fermee = voies[p].fermee
        BY <1>2, <3>2, DesVoies
      <4>2. ~voies[p].fermee
        BY <1>2, <3>2
      <4> QED BY <3>2, <4>1, <4>2
    <3>3. CASE voies'[p] = Delaissee(voies[p]) /\ voies[p].connexion # "courante"
      BY <1>2, <3>3, DesVoies
    <3> QED BY <1>4, <3>1, <3>2, <3>3
  <2> QED BY <1>1, <2>1 DEF VoieVive
<1>6. \A q \in Paire \ {p} : VoieVive(q)'
  BY <1>1, <1>4 DEF VoiesVives, VoieVive, SansSession
<1> QED BY <1>1, <1>4, <1>5, <1>6 DEF TypeVoies, VoiesVives

\* The connection that was left is heard once more, or is closed.
LEMMA VoieAncienne ==
  ASSUME TypeVoies, VoiesVives, NEW p \in Paire,
         UNCHANGED <<session, neuve, prochaine>>,
         \/ /\ ancienne' = [ancienne EXCEPT ![p] = Muette]
            /\ voies' = voies \/ NoterUneParole(p, "ancienne")
            /\ ancienne[p] # Aucune
         \/ /\ ancienne' = [ancienne EXCEPT ![p] = Aucune]
            /\ voies' = IF Fermee(p, "ancienne")
                 THEN [voies EXCEPT ![p] = Tombee(@)] ELSE voies
  PROVE  TypeVoies' /\ VoiesVives'
<1> DEFINE close == Tombee(voies[p])
<1>1. /\ ancienne' \in [Paire -> Requete]
      /\ \A q \in Paire \ {p} : ancienne'[q] = ancienne[q]
  BY DesRequetes DEF TypeVoies
<1>2. voies[p] \in UneVoie
  BY DEF TypeVoies
<1>3. \/ /\ ancienne'[p] = Muette /\ ancienne[p] # Aucune
         /\ voies' = voies \/ voies' = [voies EXCEPT ![p] = Parole("ancienne")]
      \/ voies[p].connexion # "ancienne" /\ voies' = voies
      \/ voies[p].connexion = "ancienne" /\ voies' = [voies EXCEPT ![p] = close]
  <2>1. CASE /\ ancienne' = [ancienne EXCEPT ![p] = Muette]
             /\ voies' = voies \/ NoterUneParole(p, "ancienne")
             /\ ancienne[p] # Aucune
    <3>1. ancienne'[p] = Muette
      BY <2>1 DEF TypeVoies
    <3> QED BY <2>1, <3>1 DEF NoterUneParole, Parole
  <2>2. CASE voies' = IF Fermee(p, "ancienne") THEN [voies EXCEPT ![p] = close] ELSE voies
    BY <2>2 DEF Fermee
  <2>3. \/ /\ ancienne' = [ancienne EXCEPT ![p] = Muette]
           /\ voies' = voies \/ NoterUneParole(p, "ancienne")
           /\ ancienne[p] # Aucune
        \/ voies' = IF Fermee(p, "ancienne") THEN [voies EXCEPT ![p] = close] ELSE voies
    OBVIOUS
  <2> HIDE DEF close
  <2> QED BY <2>1, <2>2, <2>3
<1>4. voies[p].connexion = "ancienne" =>
        close \in UneVoie /\ close.connexion = "finie" /\ close.fermee
  BY <1>2, DesVoies
<1> HIDE DEF close
<1>5. PICK v \in UneVoie :
        /\ voies' = [voies EXCEPT ![p] = v]
        /\ \/ /\ ancienne'[p] = Muette /\ ancienne[p] # Aucune
              /\ v = voies[p] \/ v = Parole("ancienne")
           \/ voies[p].connexion # "ancienne" /\ v = voies[p]
           \/ v.connexion = "finie" /\ v.fermee
  <2>1. Parole("ancienne") \in UneVoie
    BY DesVoies
  <2>3. voies = [voies EXCEPT ![p] = voies[p]]
    BY DEF TypeVoies
  <2> QED BY <1>2, <1>3, <1>4, <2>1, <2>3
<1>6. /\ voies' \in [Paire -> UneVoie] /\ voies'[p] = v
      /\ \A q \in Paire \ {p} : voies'[q] = voies[q]
  BY <1>5 DEF TypeVoies
<1>7. VoieVive(p)'
  <2>1. CASE ancienne'[p] = Muette /\ ancienne[p] # Aucune /\ v = voies[p]
    BY <1>6, <2>1, DesRequetes DEF VoiesVives, VoieVive, SansSession
  <2>2. CASE ancienne'[p] = Muette /\ v = Parole("ancienne")
    BY <1>6, <2>2, DesRequetes DEF VoieVive, Parole
  <2>3. CASE voies[p].connexion # "ancienne" /\ v = voies[p]
    BY <1>6, <2>3 DEF VoiesVives, VoieVive, SansSession
  <2>4. CASE v.connexion = "finie" /\ v.fermee
    BY <1>6, <2>4 DEF VoieVive
  <2> QED BY <1>5, <2>1, <2>2, <2>3, <2>4
<1>8. \A q \in Paire \ {p} : VoieVive(q)'
  BY <1>1, <1>6 DEF VoiesVives, VoieVive, SansSession
<1> QED BY <1>1, <1>6, <1>7, <1>8 DEF TypeVoies, VoiesVives

\* A cadence passes: a session that is open has spoken in the one before.
LEMMA VoiesPassees ==
  ASSUME TypeVoies, VoiesVives, PasserUneCadence
  PROVE  TypeVoies' /\ VoiesVives'
<1> DEFINE apres == [p \in Paire |->
       [voies[p] EXCEPT !.mot = IF @ <= Expiration THEN @ + 1 ELSE @]]
<1>1. ASSUME NEW p \in Paire
      PROVE  /\ apres[p] \in UneVoie
             /\ apres[p].connexion = voies[p].connexion /\ apres[p].fermee = voies[p].fermee
             /\ voies[p].mot = 0 => apres[p].mot = 1
  BY <1>1 DEF TypeVoies, UneVoie
<1>2. /\ voies' = apres
      /\ \A p \in Paire : SansSession(p) \/ (session[p] = Repos /\ ~prochaine[p])
      /\ prochaine' = [p \in Paire |-> ~SansSession(p)]
      /\ neuve' = [p \in Paire |-> FALSE]
      /\ UNCHANGED <<ancienne, session>>
  BY DEF PasserUneCadence, dehors
<1>3. voies' \in [Paire -> UneVoie]
  BY <1>1, <1>2
<1> HIDE DEF apres
<1>4. ASSUME NEW p \in Paire
      PROVE  VoieVive(p)'
  <2>1. /\ voies'[p].connexion = voies[p].connexion /\ voies'[p].fermee = voies[p].fermee
        /\ voies[p].mot = 0 => voies'[p].mot = 1
    BY <1>1, <1>2
  <2>2. SansSession(p) \/ (session[p] = Repos /\ ~prochaine[p])
    BY <1>2
  <2>3. VoieVive(p)
    BY DEF VoiesVives
  <2>4. prochaine'[p] = ~SansSession(p) /\ session'[p] = session[p] /\ ancienne'[p] = ancienne[p]
    BY <1>2
  <2> QED BY <2>1, <2>2, <2>3, <2>4 DEF VoieVive, SansSession
<1>5. neuve' \in [Paire -> BOOLEAN] /\ prochaine' \in [Paire -> BOOLEAN]
  BY <1>2 DEF SansSession
<1> QED BY <1>2, <1>3, <1>4, <1>5 DEF TypeVoies, VoiesVives
-----------------------------------------------------------------------------
(* Every step keeps it.                                                    *)

\* What the roots keep of a request.
LEMMA TypeServir ==
  ASSUME TypeRacines, NEW p \in Paire, NEW d \in Requete, NEW k, Servir(p, d, k)
  PROVE  /\ TypeRacines' /\ (voies' = voies \/ NoterUneParole(p, k))
         /\ p[2] \in acceptes => NoterUneParole(p, k)
<1> DEFINE recu == [m \in Machine |->
      IF \E e \in d.entrees : e.machine = m
        THEN [recu |-> 0, vivant |-> [machine |-> m, vivant |-> TRUE] \in d.entrees]
        ELSE tenus[p][m]]
<1>1. recu \in [Machine -> RapportFedere]
  BY DEF TypeRacines, RapportFedere
<1>2. tenus' = tenus \/ tenus' = [tenus EXCEPT ![p] = recu]
  BY DEF Servir, RangerUnEtat
<1> HIDE DEF recu
<1>3. tenus' \in [Paire -> [Machine -> RapportFedere]]
  BY <1>1, <1>2 DEF TypeRacines
<1> QED BY <1>3 DEF Servir, TypeRacines

LEMMA JusteDehors ==
  ASSUME Juste,
         \/ Changer
         \/ \E r \in Racine : Repliquer(r)
         \/ \E m \in Machine : Deplacer(m)
         \/ \E m \in Machine : AnnoncerAuMembre(m)
         \/ \E d \in Membre, m \in Machine : Quitter(d, m) \/ FermerUneSortie(d, m)
  PROVE  Juste'
<1>1. UNCHANGED <<voies, ancienne, session, neuve, prochaine, tenus, publies, federees, pannes>>
  BY DEF Changer, Repliquer, Deplacer, AnnoncerAuMembre, Quitter, FermerUneSortie, racines, membres, dehors
<1>2. TypeVoies' /\ VoiesVives'
  BY <1>1, VoiesGardees DEF Juste, TypeVoies
<1>3. TypeRacines'
  BY <1>1 DEF Changer, Repliquer, Deplacer, AnnoncerAuMembre, Quitter, FermerUneSortie, racines, Juste,
     TypeRacines
<1>4. TypeMembres'
  BY <1>1 DEF Changer, Repliquer, Deplacer, AnnoncerAuMembre, Quitter, FermerUneSortie, membres, Juste,
     TypeMembres
<1>5. TypeDehors'
  BY <1>1 DEF Changer, Repliquer, Deplacer, AnnoncerAuMembre, Quitter, FermerUneSortie, Tournent,
     dehors, Juste, TypeDehors
<1> QED BY <1>2, <1>3, <1>4, <1>5 DEF Juste

LEMMA JustePublier == ASSUME Juste, NEW d \in Membre, Publier(d) PROVE Juste'
<1>1. APublier(d) \in SUBSET Entree
  <2>1. \A m \in federees[d] : m \in Machine
    BY DEF Juste, TypeMembres
  <2>2. \A m \in federees[d] : [machine |-> m, vivant |-> m \in vivier[d]] \in Entree
    BY <2>1 DEF Entree
  <2> QED BY <2>2 DEF APublier
<1>2. TypeMembres'
  BY <1>1 DEF Publier, Juste, TypeMembres
<1>3. TypeVoies' /\ VoiesVives'
  <2>1. neuve' \in [Paire -> BOOLEAN]
    BY DEF Publier, Juste, TypeVoies
  <2> QED BY <2>1, VoiesGardees DEF Publier, racines, dehors, Juste, TypeVoies
<1>4. TypeRacines' /\ TypeDehors'
  BY DEF Publier, racines, dehors, Juste, TypeRacines, TypeDehors
<1> QED BY <1>2, <1>3, <1>4 DEF Juste

LEMMA JustePasser == ASSUME Juste, PasserUneCadence PROVE Juste'
<1> DEFINE passe == [p \in Paire |-> [m \in Machine |->
       IF Frais(p, m) THEN IF tenus[p][m].recu = Expiration THEN Jamais
                           ELSE [tenus[p][m] EXCEPT !.recu = @ + 1]
       ELSE tenus[p][m]]]
<1>1. Jamais \in RapportFedere
  BY DEF Jamais, RapportFedere
<1>2. ASSUME NEW p \in Paire, NEW m \in Machine
      PROVE  passe[p][m] \in RapportFedere
  BY <1>1 DEF Frais, RapportFedere, Juste, TypeRacines
<1>3. passe \in [Paire -> [Machine -> RapportFedere]]
  BY <1>2
<1> HIDE DEF passe
<1>4. tenus' = passe
  BY DEF PasserUneCadence, passe
<1>5. TypeRacines'
  BY <1>3, <1>4 DEF PasserUneCadence, Juste, TypeRacines
<1>6. TypeVoies' /\ VoiesVives'
  BY VoiesPassees DEF Juste
<1>7. TypeMembres' /\ TypeDehors'
  BY DEF PasserUneCadence, dehors, Juste, TypeMembres, TypeDehors
<1> QED BY <1>5, <1>6, <1>7 DEF Juste

LEMMA JusteOuvrir == ASSUME Juste, NEW p \in Paire, OuvrirUneSession(p) PROVE Juste'
<1>1. Repos \in Etape /\ Repos \notin {Eteinte, Hors}
  BY DesEtapes
<1>2. TypeVoies' /\ VoiesVives'
  <2>1. /\ Mettre(p, Repos) /\ ancienne' = ancienne /\ voies' = voies
        /\ neuve' \in [Paire -> BOOLEAN] /\ prochaine' \in [Paire -> BOOLEAN]
        /\ \A q \in Paire \ {p} : prochaine'[q] = prochaine[q]
        /\ session[p] = Hors
    BY DEF OuvrirUneSession, racines, dehors, Juste, TypeVoies
  <2>2. session[p] # Repos
    BY <2>1, DesEtapes
  <2> QED BY <1>1, <2>1, <2>2, VoieSuivie DEF Juste
<1>3. TypeRacines' /\ TypeMembres' /\ TypeDehors'
  BY DEF OuvrirUneSession, racines, dehors, Juste, TypeRacines, TypeMembres, TypeDehors
<1> QED BY <1>2, <1>3 DEF Juste

LEMMA JusteQuitter == ASSUME Juste, NEW p \in Paire, Perdre(p) \/ EtreRefuse(p) PROVE Juste'
<1>1. PICK d \in Requete : d # Aucune /\ Quitte(p, d)
  BY DesRequetes, DesDemandes DEF Perdre, EtreRefuse, Juste
<1>2. \/ voies' = [voies EXCEPT ![p] = Delaissee(@)]
      \/ voies' = [voies EXCEPT ![p] = Parole("ancienne")]
  BY DEF Perdre, EtreRefuse, Parole
<1>3. TypeVoies' /\ VoiesVives'
  BY <1>1, <1>2, VoieQuittee DEF Juste
<1>4. TypeRacines' /\ TypeMembres'
  BY DEF Perdre, EtreRefuse, Juste, TypeRacines, TypeMembres
<1>5. TypeDehors'
  <2>1. pannes' = pannes \/ (pannes < PannesMax /\ pannes' = pannes + 1)
    BY DEF Perdre, EtreRefuse
  <2>2. UNCHANGED <<chez, changements, deplacements>>
    BY DEF Perdre, EtreRefuse
  <2>3. pannes' \in 0..PannesMax
    BY <2>1 DEF Juste, TypeDehors
  <2> QED BY <2>2, <2>3 DEF Juste, TypeDehors
<1> QED BY <1>5, <1>3, <1>4 DEF Juste

LEMMA DeLaPart == ASSUME TypeRacines, NEW r \in Racine, NEW n PROVE Part(r, n) \in SUBSET Machine
BY DEF TypeRacines, Part

LEMMA JusteTirer == ASSUME Juste, NEW p \in Paire, TirerUnePart(p) PROVE Juste'
<1> DEFINE debut == session[p] = Repos /\ prochaine[p]
           apres == IF debut THEN 0  ELSE session[p].apres
           vues  == IF debut THEN {} ELSE session[p].vues
           part  == Part(p[1], apres)
           suite == [etape |-> "tire", apres |-> apres + MachinesParPart, vues |-> vues \cup part]
<1>1. /\ debut \/ session[p].etape = "tire"
      /\ p[2] \in acceptes /\ Servir(p, Muette, "courante")
      /\ IF Cardinality(part) = MachinesParPart
           THEN Mettre(p, suite) /\ UNCHANGED <<federees, aFermer>>
           ELSE RangerLesMachines(p[2], vues \cup part) /\ Mettre(p, [etape |-> "tiree"])
      /\ prochaine' = [prochaine EXCEPT ![p] = FALSE]
      /\ UNCHANGED <<vivier, publies, neuve, dehors>>
  BY DEF TirerUnePart
<1>2. session[p] \in Etape /\ p[1] \in Racine /\ p[2] \in Membre
  BY DEF Juste, TypeVoies, Paire
<1>3. apres \in Nat /\ vues \in SUBSET Machine
  BY <1>1, <1>2, DesEtapes
<1>4. part \in SUBSET Machine
  BY <1>2, DeLaPart DEF Juste
<1> HIDE DEF debut, apres, vues, part
<1>5. suite \in Etape /\ suite \notin {Eteinte, Hors}
  <2>1. suite \in [etape : {"tire"}, apres : Nat, vues : SUBSET Machine] /\ suite.etape = "tire"
    BY <1>3, <1>4
  <2> QED BY <2>1, DesEtapes DEF Etape
<1>6. [etape |-> "tiree"] \in Etape /\ [etape |-> "tiree"] \notin {Eteinte, Hors}
  BY DesEtapes
<1>7. PICK e \in Etape : e \notin {Eteinte, Hors} /\ Mettre(p, e)
  BY <1>1, <1>5, <1>6
<1>8. TypeRacines' /\ NoterUneParole(p, "courante")
  BY <1>1, DesRequetes, TypeServir DEF Juste
<1>9. TypeVoies' /\ VoiesVives'
  <2>1. /\ ancienne' = ancienne
        /\ neuve' \in [Paire -> BOOLEAN] /\ prochaine' \in [Paire -> BOOLEAN]
        /\ \A q \in Paire \ {p} : prochaine'[q] = prochaine[q]
    BY <1>1 DEF dehors, Juste, TypeVoies
  <2> QED BY <1>7, <1>8, <2>1, VoieSuivie DEF Juste
<1>10. TypeMembres'
  <2>1. CASE UNCHANGED <<federees, aFermer>>
    BY <1>1, <2>1 DEF Juste, TypeMembres
  <2>2. CASE RangerLesMachines(p[2], vues \cup part)
    <3>1. vues \cup part \in SUBSET Machine
      BY <1>3, <1>4
    <3>2. Sorties(p[2], vues \cup part) \in SUBSET Machine
      BY <1>2 DEF Sorties, Juste, TypeMembres
    <3>3. federees' \in [Membre -> SUBSET Machine] /\ aFermer' \in [Membre -> SUBSET Machine]
      BY <1>2, <2>2, <3>1, <3>2 DEF RangerLesMachines, Juste, TypeMembres
    <3> QED BY <1>1, <3>3 DEF Juste, TypeMembres
  <2> QED BY <1>1, <2>1, <2>2
<1>11. TypeDehors'
  BY <1>1 DEF dehors, Juste, TypeDehors
<1> QED BY <1>8, <1>9, <1>10, <1>11 DEF Juste

LEMMA JustePousser ==
  ASSUME Juste, NEW p \in Paire, NEW S \in SUBSET Entree, Pousser(p, S), UNCHANGED <<neuve, prochaine>>,
         session[p] # Repos
  PROVE  Juste'
<1> DEFINE corps == [entrees |-> Premieres(S), ouverte |-> TRUE]
           reste == S \ Premieres(S)
           suite == [etape |-> "pousse", reste |-> reste]
<1>1. /\ UNCHANGED racines \/ Servir(p, corps, "courante")
      /\ Mettre(p, Repos) \/ Mettre(p, suite)
      /\ UNCHANGED <<federees, vivier, aFermer, publies, dehors>>
  BY DEF Pousser
<1>2. corps \in Requete /\ reste \in SUBSET Entree
  BY DesPremieres DEF Requete
<1> HIDE DEF corps, reste
<1>3. suite \in Etape /\ suite \notin {Eteinte, Hors}
  <2>1. suite \in [etape : {"pousse"}, reste : SUBSET Entree] /\ suite.etape = "pousse"
    BY <1>2
  <2> QED BY <2>1, DesEtapes DEF Etape
<1> HIDE DEF suite
<1>4. PICK e \in Etape : e \notin {Eteinte, Hors} /\ Mettre(p, e)
  BY <1>1, <1>3, DesEtapes
<1>5. TypeRacines' /\ (voies' = voies \/ NoterUneParole(p, "courante"))
  BY <1>1, <1>2, TypeServir DEF racines, Juste, TypeRacines
<1>6. TypeVoies' /\ VoiesVives'
  BY <1>1, <1>4, <1>5, VoieSuivie DEF dehors, Juste, TypeVoies
<1>7. TypeMembres' /\ TypeDehors'
  BY <1>1 DEF dehors, Juste, TypeMembres, TypeDehors
<1> QED BY <1>5, <1>6, <1>7 DEF Juste

LEMMA JusteSession ==
  ASSUME Juste, NEW p \in Paire, PousserLEtat(p) \/ PousserLaSuite(p) \/ PousserUnChangement(p)
  PROVE  Juste'
<1>1. session[p] \in Etape /\ p[2] \in Membre
  BY DEF Juste, TypeVoies, Paire
<1>2. CASE PousserLEtat(p)
  <2>1. session[p] # Repos
    BY <1>2, DesEtapes DEF PousserLEtat
  <2> QED BY <1>1, <1>2, <2>1, JustePousser DEF PousserLEtat, Juste, TypeMembres
<1>3. CASE PousserLaSuite(p)
  <2>1. session[p] # Repos
    BY <1>3, DesEtapes DEF PousserLaSuite
  <2> QED BY <1>1, <1>3, <2>1, DesEtapes, JustePousser DEF PousserLaSuite
<1>4. CASE PousserUnChangement(p)
  <2>1. /\ Mettre(p, [etape |-> "tiree"]) /\ ancienne' = ancienne /\ voies' = voies
        /\ neuve' \in [Paire -> BOOLEAN] /\ prochaine' = prochaine /\ ~prochaine[p]
        /\ prochaine \in [Paire -> BOOLEAN]
    BY <1>4 DEF PousserUnChangement, racines, dehors, Juste, TypeVoies
  <2>2. [etape |-> "tiree"] \in Etape /\ [etape |-> "tiree"] \notin {Eteinte, Hors}
    BY DesEtapes
  <2>3. TypeVoies' /\ VoiesVives'
    BY <2>1, <2>2, VoieSuivie DEF Juste
  <2>4. TypeRacines' /\ TypeMembres' /\ TypeDehors'
    BY <1>4 DEF PousserUnChangement, racines, dehors, Juste, TypeRacines, TypeMembres, TypeDehors
  <2> QED BY <2>3, <2>4 DEF Juste
<1> QED BY <1>2, <1>3, <1>4

LEMMA JusteAncienne ==
  ASSUME Juste, NEW p \in Paire, ServirUneTardive(p) \/ FermerAuxRacines(p)
  PROVE  Juste'
<1>1. CASE ServirUneTardive(p)
  <2>1. /\ ancienne[p] \in Requete /\ ancienne[p] # Aucune
        /\ Servir(p, ancienne[p], "ancienne")
        /\ ancienne' = [ancienne EXCEPT ![p] = Muette]
        /\ UNCHANGED <<membres, chez, changements, deplacements, pannes>>
    BY <1>1 DEF ServirUneTardive, Juste, TypeVoies
  <2>2. TypeRacines' /\ (voies' = voies \/ NoterUneParole(p, "ancienne"))
    BY <2>1, TypeServir DEF Juste
  <2>3. TypeVoies' /\ VoiesVives'
    BY <2>1, <2>2, VoieAncienne DEF membres, Juste
  <2> QED BY <2>1, <2>2, <2>3 DEF membres, Juste, TypeMembres, TypeDehors
<1>2. CASE FermerAuxRacines(p)
  <2>1. TypeVoies' /\ VoiesVives'
    BY <1>2, VoieAncienne DEF FermerAuxRacines, membres, Juste
  <2> QED BY <1>2, <2>1 DEF FermerAuxRacines, membres, Juste, TypeRacines, TypeMembres, TypeDehors
<1> QED BY <1>1, <1>2

LEMMA JusteInit == ASSUME InitFederation PROVE Juste
<1>1. PICK depart \in Departs :
        /\ rattachees = depart.heberge /\ hebergees = [r \in Racine |-> depart.heberge]
        /\ session = [p \in Paire |->
             IF p \in depart.racines \X depart.membres THEN Hors ELSE Eteinte]
        /\ changements = depart.changements /\ deplacements = depart.deplacements
        /\ pannes = depart.pannes
  BY DEF InitFederation
<1>2. /\ depart.heberge \in SUBSET Machine
      /\ depart.changements \in 0..ChangementsMax /\ depart.deplacements \in 0..DeplacementsMax
      /\ depart.pannes \in 0..PannesMax
  BY FederationAssumption
<1>3. TypeRacines
  <2>1. Jamais \in RapportFedere
    BY DEF Jamais, RapportFedere
  <2> QED BY <1>1, <1>2, <2>1 DEF InitFederation, TypeRacines
<1>4. TypeMembres
  BY DEF InitFederation, TypeMembres
<1>5. TypeVoies
  BY <1>1, DesEtapes, DesVoies, DesRequetes DEF InitFederation, TypeVoies
<1>6. TypeDehors
  BY <1>1, <1>2 DEF InitFederation, TypeDehors
<1>7. VoiesVives
  BY DEF InitFederation, Inconnue, VoiesVives, VoieVive
<1> QED BY <1>3, <1>4, <1>5, <1>6, <1>7 DEF Juste

LEMMA JustePas == ASSUME Juste, [NextFederation]_varsFederation PROVE Juste'
<1>1. CASE UNCHANGED varsFederation
  BY <1>1 DEF varsFederation, racines, membres, dehors, Juste, TypeRacines, TypeMembres, TypeVoies, TypeDehors,
     VoiesVives, VoieVive, SansSession
<1>2. CASE \/ Changer
           \/ \E r \in Racine : Repliquer(r)
           \/ \E m \in Mobiles : Deplacer(m)
           \/ \E m \in Machine : AnnoncerAuMembre(m)
           \/ \E d \in Membre, m \in Machine : Quitter(d, m) \/ FermerUneSortie(d, m)
  BY <1>2, JusteDehors
<1>3. CASE PasserUneCadence
  BY <1>3, JustePasser
<1>4. CASE \E d \in Membre : Publier(d)
  BY <1>4, JustePublier
<1>5. ASSUME NEW p \in Paire, Avancer(p) \/ Perdre(p) \/ ServirUneTardive(p) \/ FermerAuxRacines(p)
      PROVE  Juste'
  BY <1>5, JusteOuvrir, JusteTirer, JusteSession, JusteQuitter, JusteAncienne DEF Avancer
<1> QED BY <1>1, <1>2, <1>3, <1>4, <1>5 DEF NextFederation

\* The path of a member is shown open if the connection it spoke on last is held and
\* it spoke there within the expiration, and only then; a session that goes on after
\* it spoke is never shown fallen (federation.rs 398 and 411).
THEOREM FederationTenue == SpecFederation => []FederationJuste
<1>1. InitFederation => Juste
  BY JusteInit
<1>2. Juste /\ [NextFederation]_varsFederation => Juste'
  BY JustePas
<1>3. Juste => FederationJuste
  BY JusteSuffit
<1> QED BY <1>1, <1>2, <1>3, PTL DEF SpecFederation

=============================================================================
