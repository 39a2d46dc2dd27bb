-------------------------- MODULE EnrolementPreuves --------------------------
(***************************************************************************)
(* Proofs about Enrolement.tla: its types, the agreement of the table of   *)
(* codes with its index, that a revoked key is not held again and that no  *)
(* root consumes the same code twice, as long as the roots hear from each  *)
(* other by their journals.                                                *)
(***************************************************************************)
EXTENDS Enrolement, TLAPS

USE EnrolementAssumption

-----------------------------------------------------------------------------
(* Types.                                                                  *)

LEMMA StampSuivante ==
  ASSUME TypeOK, NEW r \in Racine
  PROVE  Suivante(r) \in Estampille /\ Suivante(r) # Aucune
BY DEF TypeOK, Suivante, Estampille, Aucune

\* A journaled operation joins what the peer has to apply.
LEMMA TypeJournaliser ==
  ASSUME TypeOK, NEW r \in Racine, NEW o \in Operation, Journaliser(r, o)
  PROVE  compteur' \in [Racine -> Nat] /\ enRoute' \in [Racine -> Seq(Operation)]
<1>1. enRoute[Pair[r]] \in Seq(Operation)
  BY DEF TypeOK
<1>2. Append(enRoute[Pair[r]], o) \in Seq(Operation)
  BY <1>1
<1>3. enRoute' \in [Racine -> Seq(Operation)]
  BY <1>2 DEF TypeOK, Journaliser
<1>4. compteur' \in [Racine -> Nat]
  BY DEF TypeOK, Journaliser
<1> QED BY <1>3, <1>4

LEMMA TypeEmettre ==
  ASSUME TypeOK, NEW r \in Racine, Emettre(r)
  PROVE  TypeOK'
<1>1. Suivante(r) \in Estampille
  BY StampSuivante
<1> DEFINE o == [quoi |-> "enrolement", estampille |-> Suivante(r)]
<1>2. o \in Operation
  BY <1>1 DEF Operation
<1>3. Journaliser(r, o)
  BY DEF Emettre
<1>4. compteur' \in [Racine -> Nat] /\ enRoute' \in [Racine -> Seq(Operation)]
  BY <1>2, <1>3, TypeJournaliser
<1>5. codes' \in [Racine -> SUBSET Estampille] /\ index' \in [Racine -> Estampille \cup {Aucune}]
  BY <1>1 DEF TypeOK, Emettre
<1> QED BY <1>4, <1>5 DEF TypeOK, Emettre

LEMMA TypeConsommer ==
  ASSUME TypeOK, NEW r \in Racine, Consommer(r)
  PROVE  TypeOK'
<1>1. PICK c \in codes[r] :
        /\ codes'    = [codes    EXCEPT ![r] = @ \ {c}]
        /\ index'    = [index    EXCEPT ![r] = Aucune]
        /\ enMain'   = [enMain   EXCEPT ![r] = c]
        /\ acceptes' = [acceptes EXCEPT ![r] = Append(@, c)]
  BY DEF Consommer
<1>2. c \in Estampille
  BY DEF TypeOK
<1>3. Append(acceptes[r], c) \in Seq(Estampille)
  BY <1>2 DEF TypeOK
<1>4. acceptes' \in [Racine -> Seq(Estampille)]
  BY <1>1, <1>3 DEF TypeOK
<1>5. /\ codes' \in [Racine -> SUBSET Estampille] /\ index' \in [Racine -> Estampille \cup {Aucune}]
      /\ enMain' \in [Racine -> Estampille \cup {Aucune}]
  BY <1>1, <1>2 DEF TypeOK
<1> QED BY <1>4, <1>5 DEF TypeOK, Consommer

LEMMA TypeLier ==
  ASSUME TypeOK, NEW r \in Racine, Lier(r)
  PROVE  TypeOK'
<1>1. Suivante(r) \in Estampille /\ enMain[r] \in Estampille
  BY StampSuivante DEF TypeOK, Lier
<1> DEFINE o == [quoi |-> "cle-machine", estampille |-> Suivante(r),
                 code |-> enMain[r], empreinte |-> enMain[r]]
<1>2. o \in Operation
  BY <1>1 DEF Operation
<1>3. Journaliser(r, o)
  BY DEF Lier
<1>4. compteur' \in [Racine -> Nat] /\ enRoute' \in [Racine -> Seq(Operation)]
  BY <1>2, <1>3, TypeJournaliser
<1>5. [liaison |-> Suivante(r), code |-> enMain[r]] \in CleLiee
  BY <1>1 DEF CleLiee
<1>6. cle' \in [Racine -> CleLiee \cup {SansCle}]
  BY <1>5 DEF TypeOK, Lier
<1>7. enMain' \in [Racine -> Estampille \cup {Aucune}]
  BY DEF TypeOK, Lier
<1> QED BY <1>4, <1>6, <1>7 DEF TypeOK, Lier

LEMMA TypeRevoquer ==
  ASSUME TypeOK, NEW r \in Racine, Revoquer(r)
  PROVE  TypeOK'
<1>1. Suivante(r) \in Estampille
  BY StampSuivante
<1>2. cle[r].liaison \in Estampille
  BY DEF TypeOK, Revoquer, CleLiee
<1> DEFINE o == [quoi |-> "cle-machine-revoquee", estampille |-> Suivante(r),
                 cle |-> cle[r].liaison]
<1>3. o \in Operation
  BY <1>1, <1>2 DEF Operation
<1>4. Journaliser(r, o)
  BY DEF Revoquer
<1>5. compteur' \in [Racine -> Nat] /\ enRoute' \in [Racine -> Seq(Operation)]
  BY <1>3, <1>4, TypeJournaliser
<1>6. cle' \in [Racine -> CleLiee \cup {SansCle}] /\ revoquees' \in [Racine -> SUBSET Estampille]
  BY <1>2 DEF TypeOK, Revoquer
<1> QED BY <1>5, <1>6 DEF TypeOK, Revoquer

\* What each kind of operation carries.
LEMMA ChampsDUneOperation ==
  ASSUME NEW o \in Operation
  PROVE  /\ o.estampille \in Estampille
         /\ o.quoi \in {"enrolement", "cle-machine", "cle-machine-revoquee", "fin"}
         /\ o.quoi = "cle-machine" => o.code \in Estampille /\ o.empreinte \in Estampille \cup {Aucune}
         /\ o.quoi = "cle-machine-revoquee" => o.cle \in Estampille
BY DEF Operation

LEMMA TypeRecevoir ==
  ASSUME TypeOK, NEW r \in Racine, Recevoir(r)
  PROVE  TypeOK'
<1> DEFINE o == Head(enRoute[r])
<1>1. enRoute[r] \in Seq(Operation) /\ enRoute[r] # <<>>
  BY DEF TypeOK, Recevoir
<1>2. o \in Operation /\ Tail(enRoute[r]) \in Seq(Operation)
  BY <1>1
<1>3. enRoute' \in [Racine -> Seq(Operation)]
  BY <1>2 DEF TypeOK, Recevoir
<1>4. o.estampille \in Estampille
  BY <1>2, ChampsDUneOperation
<1>5. o.estampille.compteur \in Nat
  BY <1>4 DEF Estampille
<1>6. compteur' \in [Racine -> Nat]
  BY <1>5 DEF TypeOK, Recevoir
<1>7. UNCHANGED <<enMain, acceptes, amorcages, pannes>>
  BY DEF Recevoir
<1>13. \/ o.quoi = "enrolement" /\ AppliquerEnrolement(r, o.estampille) /\ UNCHANGED <<cle, revoquees>>
       \/ o.quoi = "cle-machine" /\ AppliquerCleMachine(r, o) /\ UNCHANGED revoquees
       \/ o.quoi = "cle-machine-revoquee" /\ AppliquerCleRevoquee(r, o.cle) /\ UNCHANGED <<codes, index>>
       \/ o.quoi = "fin" /\ UNCHANGED <<codes, index, cle, revoquees>>
  BY DEF Recevoir
<1> HIDE DEF o
<1> DEFINE Reste == /\ codes' \in [Racine -> SUBSET Estampille]
                    /\ index' \in [Racine -> Estampille \cup {Aucune}]
                    /\ cle'   \in [Racine -> CleLiee \cup {SansCle}]
                    /\ revoquees' \in [Racine -> SUBSET Estampille]
<1>8. ASSUME AppliquerEnrolement(r, o.estampille) /\ UNCHANGED <<cle, revoquees>>
       PROVE  Reste
  <2>1. CASE UNCHANGED <<codes, index>>
    BY <1>8, <2>1 DEF TypeOK
  <2>2. CASE /\ codes' = [codes EXCEPT ![r] = (@ \ {index[r]}) \cup {o.estampille}]
             /\ index' = [index EXCEPT ![r] = o.estampille]
    BY <1>4, <1>8, <2>2 DEF TypeOK
  <2> QED BY <1>8, <2>1, <2>2 DEF AppliquerEnrolement
<1>9. ASSUME o.quoi = "cle-machine" /\ AppliquerCleMachine(r, o) /\ UNCHANGED revoquees
       PROVE  Reste
  <2> DEFINE k == [liaison |-> o.estampille, code |-> o.code]
  <2>1. k \in CleLiee
    BY <1>2, <1>9, ChampsDUneOperation DEF CleLiee
  <2>2. /\ codes' = [codes EXCEPT ![r] = @ \ {o.empreinte}]
        /\ \E i \in {Aucune, index[r]} : index' = [index EXCEPT ![r] = i]
        /\ cle' = [cle EXCEPT ![r] = IF Gagne(@, k) THEN k ELSE @]
    BY <1>9 DEF AppliquerCleMachine
  <2> HIDE DEF k
  <2> QED BY <1>9, <2>1, <2>2 DEF TypeOK
<1>10. ASSUME o.quoi = "cle-machine-revoquee" /\ AppliquerCleRevoquee(r, o.cle) /\ UNCHANGED <<codes, index>>
       PROVE  Reste
  <2>1. o.cle \in Estampille
    BY <1>2, <1>10, ChampsDUneOperation
  <2> QED BY <1>10, <2>1 DEF TypeOK, AppliquerCleRevoquee
<1>11. ASSUME UNCHANGED <<codes, index, cle, revoquees>>
       PROVE  Reste
  BY <1>11 DEF TypeOK
<1>12. Reste
  BY <1>8, <1>9, <1>10, <1>11, <1>13
<1> QED BY <1>3, <1>6, <1>7, <1>12 DEF TypeOK

LEMMA TypeInstantane ==
  ASSUME TypeOK, NEW q \in Racine
  PROVE  Instantane(q) \in Seq(Operation)
<1> DEFINE a == [quoi |-> "cle-machine", estampille |-> cle[q].liaison,
                 code |-> cle[q].code, empreinte |-> Aucune]
           b == [quoi |-> "enrolement", estampille |-> CHOOSE c \in codes[q] : TRUE]
           f == [quoi |-> "fin", estampille |-> [compteur |-> compteur[q], racine |-> q]]
<1>1. cle[q] # SansCle => a \in Operation
  BY DEF TypeOK, CleLiee, Operation
<1>2. codes[q] # {} => b \in Operation
  <2> HAVE codes[q] # {}
  <2>1. (CHOOSE c \in codes[q] : TRUE) \in codes[q]
    OBVIOUS
  <2>2. (CHOOSE c \in codes[q] : TRUE) \in Estampille
    BY <2>1 DEF TypeOK
  <2> QED BY <2>2 DEF Operation
<1>3. f \in Operation
  BY DEF TypeOK, Estampille, Operation
<1> DEFINE A == IF cle[q] = SansCle THEN <<>> ELSE <<a>>
           B == IF codes[q] = {} THEN <<>> ELSE <<b>>
<1>4. A \in Seq(Operation) /\ B \in Seq(Operation) /\ <<f>> \in Seq(Operation)
  <2> HIDE DEF a, b, f
  <2> QED BY <1>1, <1>2, <1>3
<1>5. Instantane(q) = A \o B \o <<f>>
  BY DEF Instantane
<1> HIDE DEF A, B, f
<1>6. A \o B \in Seq(Operation)
  BY <1>4
<1> QED BY <1>4, <1>5, <1>6

LEMMA TypePas ==
  ASSUME TypeOK, [Next]_vars
  PROVE  TypeOK'
<1>1. CASE UNCHANGED vars
  BY <1>1 DEF TypeOK, vars
<1>2. ASSUME NEW r \in Racine, Expirer(r) PROVE TypeOK'
  <2>1. codes' \in [Racine -> SUBSET Estampille] /\ index' \in [Racine -> Estampille \cup {Aucune}]
    BY <1>2 DEF TypeOK, Expirer
  <2>2. UNCHANGED <<compteur, cle, enMain, enRoute, acceptes, revoquees, amorcages, pannes>>
    BY <1>2 DEF Expirer
  <2> QED BY <2>1, <2>2 DEF TypeOK
<1>3. ASSUME NEW r \in Racine, Amorcer(r) PROVE TypeOK'
  <2>1. Instantane(Pair[r]) \in Seq(Operation)
    BY TypeInstantane
  <2>2. enRoute' \in [Racine -> Seq(Operation)]
    BY <1>3, <2>1 DEF TypeOK, Amorcer
  <2>3. amorcages \in Nat /\ amorcages' = amorcages + 1
    BY <1>3 DEF TypeOK, Amorcer
  <2>4. amorcages' \in Nat
    BY <2>3
  <2>5. UNCHANGED <<compteur, codes, index, cle, enMain, acceptes, revoquees, pannes>>
    BY <1>3 DEF Amorcer
  <2> QED BY <2>2, <2>4, <2>5 DEF TypeOK
<1>4. ASSUME NEW r \in Racine, Redemarrer(r) PROVE TypeOK'
  <2>1. enMain' \in [Racine -> Estampille \cup {Aucune}]
    BY <1>4 DEF TypeOK, Redemarrer
  <2>2. pannes \in Nat /\ pannes' = pannes + 1
    BY <1>4 DEF TypeOK, Redemarrer
  <2>3. pannes' \in Nat
    BY <2>2
  <2>4. UNCHANGED <<compteur, codes, index, cle, enRoute, acceptes, revoquees, amorcages>>
    BY <1>4 DEF Redemarrer
  <2> QED BY <2>1, <2>3, <2>4 DEF TypeOK
<1> QED BY <1>1, <1>2, <1>3, <1>4, TypeEmettre, TypeConsommer, TypeLier, TypeRevoquer, TypeRecevoir
        DEF Next

\* Every state of the two roots is of the types the stores keep.
THEOREM TypeCorrect == Spec => []TypeOK
<1>1. Init => TypeOK
  BY DEF Init, TypeOK
<1>2. TypeOK /\ [Next]_vars => TypeOK'
  BY TypePas
<1> QED BY <1>1, <1>2, PTL DEF Spec

-----------------------------------------------------------------------------
(* The table of codes and its index.                                       *)

\* No emission on its way is the absence of a code.
EmissionsVraies ==
  \A r \in Racine : \A i \in DOMAIN enRoute[r] :
    enRoute[r][i].quoi = "enrolement" => enRoute[r][i].estampille # Aucune

\* What the next operation and the ones after it were in the sequence.
LEMMA TeteEtReste ==
  ASSUME NEW S, NEW s \in Seq(S), s # <<>>
  PROVE  /\ 1 \in DOMAIN s /\ Head(s) = s[1]
         /\ \A i \in DOMAIN Tail(s) : i + 1 \in DOMAIN s /\ Tail(s)[i] = s[i + 1]
OBVIOUS

LEMMA Allongee ==
  ASSUME NEW S, NEW s \in Seq(S), NEW e \in S
  PROVE  /\ DOMAIN Append(s, e) = DOMAIN s \cup {Len(s) + 1}
         /\ Append(s, e)[Len(s) + 1] = e
         /\ \A i \in DOMAIN s : i < Len(s) + 1 /\ Append(s, e)[i] = s[i]
OBVIOUS

\* A snapshot carries codes, never the absence of one.
LEMMA EmissionsInstantane ==
  ASSUME TypeOK, IndexJuste, NEW q \in Racine
  PROVE  Instantane(q) \in Seq({o \in Operation : o.quoi = "enrolement" => o.estampille # Aucune})
<1> DEFINE V == {o \in Operation : o.quoi = "enrolement" => o.estampille # Aucune}
           a == [quoi |-> "cle-machine", estampille |-> cle[q].liaison,
                 code |-> cle[q].code, empreinte |-> Aucune]
           b == [quoi |-> "enrolement", estampille |-> CHOOSE c \in codes[q] : TRUE]
           f == [quoi |-> "fin", estampille |-> [compteur |-> compteur[q], racine |-> q]]
<1>1. cle[q] # SansCle => a \in V
  BY DEF TypeOK, CleLiee, Operation
<1>2. codes[q] # {} => b \in V
  <2> HAVE codes[q] # {}
  <2>1. (CHOOSE c \in codes[q] : TRUE) \in codes[q]
    OBVIOUS
  <2>2. (CHOOSE c \in codes[q] : TRUE) \in Estampille /\ (CHOOSE c \in codes[q] : TRUE) # Aucune
    BY <2>1 DEF TypeOK, IndexJuste
  <2> QED BY <2>2 DEF Operation
<1>3. f \in V
  BY DEF TypeOK, Estampille, Operation
<1> DEFINE A == IF cle[q] = SansCle THEN <<>> ELSE <<a>>
           B == IF codes[q] = {} THEN <<>> ELSE <<b>>
<1>4. A \in Seq(V) /\ B \in Seq(V) /\ <<f>> \in Seq(V)
  <2> HIDE DEF a, b, f, V
  <2> QED BY <1>1, <1>2, <1>3
<1>5. Instantane(q) = A \o B \o <<f>>
  BY DEF Instantane
<1> HIDE DEF A, B, f, V
<1>6. A \o B \in Seq(V)
  BY <1>4
<1>7. Instantane(q) \in Seq(V)
  BY <1>4, <1>5, <1>6
<1> QED BY <1>7 DEF V

LEMMA EmissionsVraiesPas ==
  ASSUME TypeOK, IndexJuste, EmissionsVraies, [Next]_vars
  PROVE  EmissionsVraies'
<1> SUFFICES ASSUME NEW s \in Racine, NEW i \in DOMAIN enRoute'[s],
                    enRoute'[s][i].quoi = "enrolement"
             PROVE  enRoute'[s][i].estampille # Aucune
  BY DEF EmissionsVraies
<1>1. ASSUME NEW r \in Racine, NEW o \in Operation, Journaliser(r, o),
             o.quoi = "enrolement" => o.estampille # Aucune
      PROVE  enRoute'[s][i].estampille # Aucune
  <2>1. enRoute' = [enRoute EXCEPT ![Pair[r]] = Append(@, o)]
    BY <1>1 DEF Journaliser
  <2>2. enRoute[s] \in Seq(Operation)
    BY DEF TypeOK
  <2>3. CASE s = Pair[r]
    <3>1. enRoute'[s] = Append(enRoute[s], o)
      BY <2>1, <2>3 DEF TypeOK
    <3>2. CASE i = Len(enRoute[s]) + 1
      BY <1>1, <2>2, <3>1, <3>2, Allongee
    <3>3. CASE i \in DOMAIN enRoute[s]
      BY <2>2, <3>1, <3>3, Allongee DEF EmissionsVraies
    <3> QED BY <2>2, <3>1, <3>2, <3>3, Allongee
  <2>4. CASE s # Pair[r]
    BY <2>1, <2>4 DEF TypeOK, EmissionsVraies
  <2> QED BY <2>3, <2>4
<1>2. ASSUME UNCHANGED enRoute PROVE enRoute'[s][i].estampille # Aucune
  BY <1>2 DEF EmissionsVraies
<1>3. ASSUME NEW r \in Racine, Emettre(r) PROVE enRoute'[s][i].estampille # Aucune
  <2> DEFINE o == [quoi |-> "enrolement", estampille |-> Suivante(r)]
  <2>1. o \in Operation /\ o.estampille # Aucune /\ Journaliser(r, o)
    BY <1>3, StampSuivante DEF Emettre, Operation
  <2> QED BY <1>1, <2>1
<1>4. ASSUME NEW r \in Racine, Lier(r) PROVE enRoute'[s][i].estampille # Aucune
  <2> DEFINE o == [quoi |-> "cle-machine", estampille |-> Suivante(r),
                   code |-> enMain[r], empreinte |-> enMain[r]]
  <2>1. o \in Operation /\ o.quoi # "enrolement" /\ Journaliser(r, o)
    BY <1>4, StampSuivante DEF Lier, Operation, TypeOK
  <2> QED BY <1>1, <2>1
<1>5. ASSUME NEW r \in Racine, Revoquer(r) PROVE enRoute'[s][i].estampille # Aucune
  <2> DEFINE o == [quoi |-> "cle-machine-revoquee", estampille |-> Suivante(r),
                   cle |-> cle[r].liaison]
  <2>1. cle[r].liaison \in Estampille
    BY <1>5 DEF Revoquer, TypeOK, CleLiee
  <2>2. o \in Operation /\ o.quoi # "enrolement" /\ Journaliser(r, o)
    BY <1>5, <2>1, StampSuivante DEF Revoquer, Operation
  <2> QED BY <1>1, <2>2
<1>6. ASSUME NEW r \in Racine, Recevoir(r) PROVE enRoute'[s][i].estampille # Aucune
  <2>1. enRoute[r] # <<>> /\ enRoute' = [enRoute EXCEPT ![r] = Tail(@)]
    BY <1>6 DEF Recevoir
  <2>2. enRoute[r] \in Seq(Operation)
    BY DEF TypeOK
  <2>3. CASE s = r
    <3>1. enRoute'[s] = Tail(enRoute[r])
      BY <2>1, <2>3 DEF TypeOK
    <3>2. i + 1 \in DOMAIN enRoute[r] /\ Tail(enRoute[r])[i] = enRoute[r][i + 1]
      <4>1. i \in DOMAIN Tail(enRoute[r])
        BY <3>1
      <4> QED BY <2>1, <2>2, <4>1, TeteEtReste
    <3> QED BY <3>1, <3>2 DEF EmissionsVraies
  <2>4. CASE s # r
    BY <2>1, <2>4 DEF TypeOK, EmissionsVraies
  <2> QED BY <2>3, <2>4
<1>7. ASSUME NEW r \in Racine, Amorcer(r) PROVE enRoute'[s][i].estampille # Aucune
  <2>1. enRoute' = [enRoute EXCEPT ![r] = Instantane(Pair[r])]
    BY <1>7 DEF Amorcer
  <2>2. CASE s # r
    BY <2>1, <2>2 DEF TypeOK, EmissionsVraies
  <2>3. CASE s = r
    <3>1. enRoute'[s] = Instantane(Pair[r])
      BY <2>1, <2>3 DEF TypeOK
    <3> DEFINE V == {o \in Operation : o.quoi = "enrolement" => o.estampille # Aucune}
    <3>2. Instantane(Pair[r]) \in Seq(V)
      BY EmissionsInstantane
    <3>3. enRoute'[s][i] \in V
      BY <3>1, <3>2
    <3> QED BY <3>3
  <2> QED BY <2>2, <2>3
<1> QED
  BY <1>2, <1>3, <1>4, <1>5, <1>6, <1>7 DEF Next, vars, Consommer, Expirer, Redemarrer
LEMMA IndexJustePas ==
  ASSUME TypeOK, IndexJuste, EmissionsVraies, [Next]_vars
  PROVE  IndexJuste'
<1> SUFFICES ASSUME NEW s \in Racine
             PROVE  codes'[s] = IF index'[s] = Aucune THEN {} ELSE {index'[s]}
  BY DEF IndexJuste
<1> DEFINE But == codes'[s] = IF index'[s] = Aucune THEN {} ELSE {index'[s]}
<1>0. codes[s] = IF index[s] = Aucune THEN {} ELSE {index[s]}
  BY DEF IndexJuste
<1>1. ASSUME UNCHANGED <<codes, index>> PROVE But
  BY <1>0, <1>1
<1>2. ASSUME NEW r \in Racine, NEW c \in Estampille, c # Aucune,
             codes' = [codes EXCEPT ![r] = (@ \ {index[r]}) \cup {c}],
             index' = [index EXCEPT ![r] = c]
      PROVE But
  BY <1>0, <1>2 DEF TypeOK
<1>3. ASSUME NEW r \in Racine, NEW c \in codes[r],
             codes' = [codes EXCEPT ![r] = @ \ {c}], index' = [index EXCEPT ![r] = Aucune]
      PROVE But
  <2>1. codes[r] \ {c} = {}
    <3>1. codes[r] = IF index[r] = Aucune THEN {} ELSE {index[r]}
      BY DEF IndexJuste
    <3> QED BY <1>3, <3>1
  <2>2. CASE s = r
    BY <1>3, <2>1, <2>2 DEF TypeOK
  <2>3. CASE s # r
    BY <1>0, <1>3, <2>3 DEF TypeOK
  <2> QED BY <2>2, <2>3
<1>4. ASSUME NEW r \in Racine, Recevoir(r) PROVE But
  <2> DEFINE o == Head(enRoute[r])
  <2>1. enRoute[r] \in Seq(Operation) /\ enRoute[r] # <<>>
    BY <1>4 DEF TypeOK, Recevoir
  <2>2. o \in Operation /\ (o.quoi = "enrolement" => o.estampille # Aucune)
    BY <2>1 DEF EmissionsVraies
  <2>3. \/ o.quoi = "enrolement" /\ AppliquerEnrolement(r, o.estampille)
        \/ AppliquerCleMachine(r, o)
        \/ UNCHANGED <<codes, index>>
    BY <1>4 DEF Recevoir
  <2> HIDE DEF o
  <2>4. ASSUME o.quoi = "enrolement", AppliquerEnrolement(r, o.estampille) PROVE But
    <3>1. o.estampille \in Estampille /\ o.estampille # Aucune
      BY <2>2, <2>4, ChampsDUneOperation
    <3>2. \/ UNCHANGED <<codes, index>>
          \/ /\ codes' = [codes EXCEPT ![r] = (@ \ {index[r]}) \cup {o.estampille}]
             /\ index' = [index EXCEPT ![r] = o.estampille]
      BY <2>4 DEF AppliquerEnrolement
    <3> QED BY <1>1, <1>2, <3>1, <3>2
  <2>5. ASSUME AppliquerCleMachine(r, o) PROVE But
    <3>1. codes' = [codes EXCEPT ![r] = @ \ {o.empreinte}]
      BY <2>5 DEF AppliquerCleMachine
    <3>2. index' = [index EXCEPT ![r] =
                      IF o.empreinte \in codes[r] /\ @ = o.empreinte THEN Aucune ELSE @]
      BY <2>5 DEF AppliquerCleMachine
    <3>3. CASE s # r
      BY <1>0, <3>1, <3>2, <3>3 DEF TypeOK
    <3>4. CASE s = r
      <4>1. codes'[s] = codes[s] \ {o.empreinte}
        BY <3>1, <3>4 DEF TypeOK
      <4>2. index'[s] = IF o.empreinte \in codes[s] /\ index[s] = o.empreinte THEN Aucune ELSE index[s]
        BY <3>2, <3>4 DEF TypeOK
      <4> QED BY <1>0, <4>1, <4>2
    <3> QED BY <3>3, <3>4
  <2> QED BY <1>1, <2>3, <2>4, <2>5
<1>5. ASSUME NEW r \in Racine, Emettre(r) PROVE But
  BY <1>2, <1>5, StampSuivante DEF Emettre
<1>6. ASSUME NEW r \in Racine, Consommer(r) PROVE But
  BY <1>3, <1>6 DEF Consommer
<1>7. ASSUME NEW r \in Racine, Expirer(r) PROVE But
  BY <1>3, <1>7 DEF Expirer
<1>8. [Next]_vars
  OBVIOUS
<1> QED
  BY <1>1, <1>4, <1>5, <1>6, <1>7, <1>8 DEF Next, vars, Lier, Revoquer, Amorcer, Redemarrer

\* Whatever the order in which emissions, consumptions, sweeps and what comes from
\* the peer follow one another, the table of codes and its index by machine agree.
THEOREM IndexTenu == Spec => []IndexJuste
<1> DEFINE I == TypeOK /\ IndexJuste /\ EmissionsVraies
<1>1. Init => I
  BY DEF Init, TypeOK, IndexJuste, EmissionsVraies
<1>2. I /\ [Next]_vars => I'
  BY TypePas, IndexJustePas, EmissionsVraiesPas
<1>3. I => IndexJuste
  OBVIOUS
<1> QED BY <1>1, <1>2, <1>3, PTL DEF Spec
-----------------------------------------------------------------------------
(* A revoked key is not held again.                                        *)

LEMMA NombresEnRoute ==
  ASSUME TypeOK, NEW t \in Racine, NEW i \in DOMAIN enRoute[t]
  PROVE  /\ enRoute[t][i] \in Operation
         /\ enRoute[t][i].estampille \in Estampille
         /\ enRoute[t][i].estampille.compteur \in Nat
         /\ enRoute[t][i].quoi = "cle-machine-revoquee" =>
              enRoute[t][i].cle \in Estampille /\ enRoute[t][i].cle.compteur \in Nat
<1>1. enRoute[t] \in Seq(Operation)
  BY DEF TypeOK
<1>2. enRoute[t][i] \in Operation
  BY <1>1
<1> QED BY <1>2, ChampsDUneOperation DEF Estampille

LEMMA NombresConnus ==
  ASSUME TypeOK, NEW t \in Racine, NEW k \in Connues(t)
  PROVE  k \in Estampille /\ k.compteur \in Nat /\ k.racine \in Racine
<1>1. k \in Estampille
  BY DEF Connues, TypeOK, CleLiee
<1> QED BY <1>1 DEF Estampille

\* A root at which nothing happens, while the clocks only advance.
LEMMA SuiteAilleurs ==
  ASSUME TypeOK, TypeOK', NEW t \in Racine, SuiteDe(t),
         enRoute'[t] = enRoute[t], cle'[t] = cle[t], revoquees'[t] = revoquees[t],
         compteur[t] <= compteur'[t], compteur[Pair[t]] <= compteur'[Pair[t]]
  PROVE  SuiteDe(t)'
<1>0. /\ compteur[t] \in Nat /\ compteur'[t] \in Nat
      /\ compteur[Pair[t]] \in Nat /\ compteur'[Pair[t]] \in Nat
  BY DEF TypeOK
<1>1. EnvoisDe(t)'
  BY <1>0, NombresEnRoute DEF SuiteDe, EnvoisDe
<1>2. OrdreDe(t)'
  BY DEF SuiteDe, OrdreDe
<1>3. NommeesDe(t)'
  <2> SUFFICES ASSUME NEW i \in DOMAIN enRoute'[t], enRoute'[t][i].quoi = "cle-machine-revoquee"
               PROVE  LET k == enRoute'[t][i].cle IN
                      /\ k.racine = Pair[t] => k.compteur < enRoute'[t][i].estampille.compteur
                      /\ k.racine = t => k.compteur <= compteur'[t]
    BY DEF NommeesDe
  <2>1. i \in DOMAIN enRoute[t] /\ enRoute[t][i].cle.compteur \in Nat
    BY NombresEnRoute
  <2> QED BY <1>0, <2>1 DEF SuiteDe, NommeesDe
<1>4. Connues(t)' = Connues(t)
  BY DEF Connues
<1>5. ConnuesDe(t)'
  BY <1>0, <1>4, NombresConnus DEF SuiteDe, ConnuesDe
<1>6. TenueDe(t)'
  BY DEF SuiteDe, TenueDe
<1> QED BY <1>1, <1>2, <1>3, <1>5, <1>6 DEF SuiteDe

\* The peer of t writes: its stamp is above all that t has of it.
LEMMA SuiteEcriteEnFace ==
  ASSUME TypeOK, TypeOK', NEW t \in Racine, SuiteDe(t), NEW o \in Operation,
         Journaliser(Pair[t], o), o.estampille = Suivante(Pair[t]), o.quoi # "fin",
         cle'[t] = cle[t], revoquees'[t] = revoquees[t],
         o.quoi = "cle-machine-revoquee" =>
           /\ o.cle.racine = Pair[t] => o.cle.compteur <= compteur[Pair[t]]
           /\ o.cle.racine = t => o.cle.compteur <= compteur[t]
  PROVE  SuiteDe(t)'
<1> DEFINE q == Pair[t]
           n == Len(enRoute[t]) + 1
<1>0. /\ q \in Racine /\ q # t /\ Pair[q] = t
      /\ compteur[t] \in Nat /\ compteur[q] \in Nat
  BY DEF TypeOK
<1>0c. \A i \in DOMAIN enRoute[t] : enRoute[t][i].estampille.compteur \in Nat
  BY NombresEnRoute
<1>0b. o.estampille.compteur = compteur[q] + 1 /\ o.estampille.racine = q
  BY DEF Suivante
<1>0a. compteur'[t] = compteur[t] /\ compteur'[q] = compteur[q] + 1
  BY <1>0 DEF TypeOK, Journaliser
<1>0d. enRoute[t] \in Seq(Operation) /\ enRoute'[t] = Append(enRoute[t], o)
  BY <1>0 DEF TypeOK, Journaliser
<1>1. /\ DOMAIN enRoute'[t] = DOMAIN enRoute[t] \cup {n}
      /\ enRoute'[t][n] = o
      /\ \A i \in DOMAIN enRoute[t] : i < n /\ enRoute'[t][i] = enRoute[t][i]
      /\ DOMAIN enRoute[t] \subseteq Nat /\ n \in Nat
  BY <1>0d, Allongee
<1>1a. o.quoi = "cle-machine-revoquee" => o.cle.compteur \in Nat
  BY ChampsDUneOperation DEF Estampille
<1> HIDE DEF n
<1>2. EnvoisDe(t)'
  <2> SUFFICES ASSUME NEW i \in DOMAIN enRoute'[t]
               PROVE  LET e == enRoute'[t][i].estampille IN
                      /\ enRoute'[t][i].quoi # "fin"
                      /\ e.racine = q /\ 0 < e.compteur /\ e.compteur <= compteur'[q]
    BY DEF EnvoisDe
  <2>1. CASE i = n
    <3>1. enRoute'[t][i] = o
      BY <1>1, <2>1
    <3>2. 0 < o.estampille.compteur /\ o.estampille.compteur <= compteur'[q]
      BY <1>0, <1>0a, <1>0b
    <3> QED BY <1>0b, <3>1, <3>2
  <2>2. CASE i \in DOMAIN enRoute[t]
    <3>1. enRoute'[t][i] = enRoute[t][i]
      BY <1>1, <2>2
    <3>2. enRoute[t][i].estampille.compteur \in Nat
      BY <1>0c, <2>2
    <3>3. /\ enRoute[t][i].quoi # "fin" /\ enRoute[t][i].estampille.racine = q
          /\ 0 < enRoute[t][i].estampille.compteur
          /\ enRoute[t][i].estampille.compteur <= compteur[q]
      BY <2>2 DEF SuiteDe, EnvoisDe
    <3> DEFINE e == enRoute[t][i].estampille.compteur
               avant == compteur[q]
               apres == compteur'[q]
    <3>4. avant \in Nat /\ apres = avant + 1 /\ e \in Nat /\ e <= avant
      BY <1>0, <1>0a, <3>2, <3>3
    <3>5. e <= apres
      <4> HIDE DEF e, avant, apres
      <4> QED BY <3>4
    <3> QED BY <3>1, <3>3, <3>5
  <2> QED BY <1>1, <2>1, <2>2
<1>3. OrdreDe(t)'
  <2> SUFFICES ASSUME NEW i \in DOMAIN enRoute'[t], NEW j \in DOMAIN enRoute'[t], i < j
               PROVE  enRoute'[t][i].estampille.compteur < enRoute'[t][j].estampille.compteur
    BY DEF OrdreDe
  <2>1. i \in DOMAIN enRoute[t] /\ enRoute'[t][i] = enRoute[t][i]
    BY <1>1
  <2>2. CASE j = n
    <3>1. enRoute[t][i].estampille.compteur \in Nat /\ enRoute[t][i].estampille.compteur <= compteur[q]
      BY <2>1, NombresEnRoute DEF SuiteDe, EnvoisDe
    <3> QED BY <1>0, <1>0b, <1>1, <2>1, <2>2, <3>1
  <2>3. CASE j \in DOMAIN enRoute[t]
    BY <1>1, <2>1, <2>3 DEF SuiteDe, OrdreDe
  <2> QED BY <1>1, <2>2, <2>3
<1>4. NommeesDe(t)'
  <2> SUFFICES ASSUME NEW i \in DOMAIN enRoute'[t], enRoute'[t][i].quoi = "cle-machine-revoquee"
               PROVE  LET k == enRoute'[t][i].cle IN
                      /\ k.racine = Pair[t] => k.compteur < enRoute'[t][i].estampille.compteur
                      /\ k.racine = t => k.compteur <= compteur'[t]
    BY DEF NommeesDe
  <2>1. CASE i = n
    <3>1. enRoute'[t][i] = o
      BY <1>1, <2>1
    <3>2. o.quoi = "cle-machine-revoquee" /\ o.cle.compteur \in Nat
      BY <1>1a, <3>1
    <3>3. o.cle.racine = Pair[t] => o.cle.compteur < o.estampille.compteur
      BY <1>0, <1>0b, <3>2
    <3>4. o.cle.racine = t => o.cle.compteur <= compteur'[t]
      BY <1>0a, <3>2
    <3> QED BY <3>1, <3>3, <3>4
  <2>2. CASE i \in DOMAIN enRoute[t]
    <3>1. enRoute'[t][i] = enRoute[t][i]
      BY <1>1, <2>2
    <3> QED BY <1>0a, <2>2, <3>1 DEF SuiteDe, NommeesDe
  <2> QED BY <1>1, <2>1, <2>2
<1>5. Connues(t)' = Connues(t)
  BY DEF Connues
<1>6. ConnuesDe(t)'
  <2> SUFFICES ASSUME NEW k \in Connues(t)
               PROVE  /\ k.racine = t => k.compteur <= compteur'[t]
                      /\ k.racine = q =>
                           /\ k.compteur <= compteur'[q]
                           /\ \A i \in DOMAIN enRoute'[t] :
                                k.compteur < enRoute'[t][i].estampille.compteur
    BY <1>5 DEF ConnuesDe
  <2>1. k.compteur \in Nat
    BY NombresConnus
  <2>2. /\ k.racine = t => k.compteur <= compteur[t]
        /\ k.racine = q =>
             /\ k.compteur <= compteur[q]
             /\ \A i \in DOMAIN enRoute[t] : k.compteur < enRoute[t][i].estampille.compteur
    BY DEF SuiteDe, ConnuesDe
  <2>3. ASSUME k.racine = q, NEW i \in DOMAIN enRoute'[t]
        PROVE  k.compteur < enRoute'[t][i].estampille.compteur
    <3>1. CASE i = n
      BY <1>0, <1>0b, <1>1, <2>1, <2>2, <2>3, <3>1
    <3>2. CASE i \in DOMAIN enRoute[t]
      BY <1>1, <2>2, <2>3, <3>2
    <3> QED BY <1>1, <3>1, <3>2
  <2> QED BY <1>0, <1>0a, <2>1, <2>2, <2>3
<1>7. TenueDe(t)'
  BY DEF SuiteDe, TenueDe
<1> QED BY <1>2, <1>3, <1>4, <1>6, <1>7 DEF SuiteDe

\* Root t itself changes what it holds, and journals nothing for itself.
LEMMA SuiteEcriteChezSoi ==
  ASSUME TypeOK, TypeOK', NEW t \in Racine, SuiteDe(t), NEW o, Journaliser(t, o),
         \A k \in Connues(t)' : k \in Connues(t) \/ k = Suivante(t),
         TenueDe(t)'
  PROVE  SuiteDe(t)'
<1> DEFINE q == Pair[t]
<1>0. /\ q \in Racine /\ q # t /\ compteur[t] \in Nat /\ compteur[q] \in Nat
      /\ compteur'[t] = compteur[t] + 1 /\ compteur'[q] = compteur[q]
      /\ enRoute'[t] = enRoute[t]
  BY DEF TypeOK, Journaliser
<1>1. EnvoisDe(t)' /\ OrdreDe(t)'
  <2>1. EnvoisDe(t)'
    BY <1>0 DEF SuiteDe, EnvoisDe
  <2>2. OrdreDe(t)'
    BY <1>0 DEF SuiteDe, OrdreDe
  <2> QED BY <2>1, <2>2
<1>2. NommeesDe(t)'
  BY <1>0, NombresEnRoute DEF SuiteDe, NommeesDe
<1>3. ConnuesDe(t)'
  <2> SUFFICES ASSUME NEW k \in Connues(t)'
               PROVE  /\ k.racine = t => k.compteur <= compteur'[t]
                      /\ k.racine = q =>
                           /\ k.compteur <= compteur'[q]
                           /\ \A i \in DOMAIN enRoute'[t] :
                                k.compteur < enRoute'[t][i].estampille.compteur
    BY DEF ConnuesDe
  <2>1. CASE k \in Connues(t)
    <3>1. k.compteur \in Nat
      BY <2>1, NombresConnus
    <3> QED BY <1>0, <2>1, <3>1 DEF SuiteDe, ConnuesDe
  <2>2. CASE k = Suivante(t)
    BY <1>0, <2>2 DEF Suivante
  <2> QED BY <2>1, <2>2
<1> QED BY <1>1, <1>2, <1>3 DEF SuiteDe

\* A local write, seen from every root.
LEMMA SuiteDUneEcriture ==
  ASSUME TypeOK, TypeOK', \A t \in Racine : SuiteDe(t), NEW r \in Racine,
         NEW o \in Operation, Journaliser(r, o), o.estampille = Suivante(r), o.quoi # "fin",
         \A t \in Racine : t # r => cle'[t] = cle[t] /\ revoquees'[t] = revoquees[t],
         \A k \in Connues(r)' : k \in Connues(r) \/ k = Suivante(r),
         TenueDe(r)',
         o.quoi = "cle-machine-revoquee" => o.cle \in Connues(r)
  PROVE  \A t \in Racine : SuiteDe(t)'
<1> SUFFICES ASSUME NEW t \in Racine PROVE SuiteDe(t)'
  OBVIOUS
<1>1. CASE t = r
  BY <1>1, SuiteEcriteChezSoi
<1>2. CASE t = Pair[r]
  <2>1. Pair[t] = r /\ t # r
    BY <1>2
  <2>2. o.quoi = "cle-machine-revoquee" =>
          /\ o.cle.racine = Pair[t] => o.cle.compteur <= compteur[Pair[t]]
          /\ o.cle.racine = t => o.cle.compteur <= compteur[t]
    BY <1>2, <2>1 DEF SuiteDe, ConnuesDe
  <2> QED BY <2>1, <2>2, SuiteEcriteEnFace
<1>3. CASE t # r /\ t # Pair[r]
  <2>1. /\ enRoute'[t] = enRoute[t] /\ compteur'[t] = compteur[t]
        /\ Pair[t] \in Racine /\ Pair[t] # r
        /\ compteur'[Pair[t]] = compteur[Pair[t]]
    BY <1>3 DEF TypeOK, Journaliser
  <2>2. compteur[t] \in Nat /\ compteur[Pair[t]] \in Nat
    BY <2>1 DEF TypeOK
  <2>3. compteur[t] <= compteur'[t] /\ compteur[Pair[t]] <= compteur'[Pair[t]]
    BY <2>1, <2>2
  <2> QED BY <1>3, <2>1, <2>3, SuiteAilleurs
<1> QED BY <1>1, <1>2, <1>3
LEMMA SuiteRecevoir ==
  ASSUME TypeOK, TypeOK', NEW t \in Racine, SuiteDe(t), Recevoir(t)
  PROVE  SuiteDe(t)'
<1> DEFINE q == Pair[t]
           o == Head(enRoute[t])
<1>0. /\ q \in Racine /\ q # t
      /\ compteur[t] \in Nat /\ compteur[q] \in Nat /\ compteur'[t] \in Nat
  BY DEF TypeOK
<1>1. enRoute[t] \in Seq(Operation) /\ enRoute[t] # <<>> /\ enRoute'[t] = Tail(enRoute[t])
  BY DEF TypeOK, Recevoir
<1>2. /\ 1 \in DOMAIN enRoute[t] /\ o = enRoute[t][1]
      /\ \A i \in DOMAIN enRoute'[t] : /\ i + 1 \in DOMAIN enRoute[t] /\ 1 < i + 1
                                      /\ enRoute'[t][i] = enRoute[t][i + 1]
      /\ DOMAIN enRoute'[t] \subseteq Nat
  BY <1>1, TeteEtReste
<1>3. o \in Operation /\ o.estampille \in Estampille /\ o.estampille.compteur \in Nat
  BY <1>1, ChampsDUneOperation DEF Estampille
<1>4. compteur[t] <= compteur'[t] /\ compteur'[q] = compteur[q]
  BY <1>0, <1>3 DEF TypeOK, Recevoir
<1>5. \/ cle'[t] = cle[t] /\ revoquees'[t] = revoquees[t]
      \/ o.quoi = "cle-machine" /\ AppliquerCleMachine(t, o) /\ UNCHANGED revoquees
      \/ o.quoi = "cle-machine-revoquee" /\ AppliquerCleRevoquee(t, o.cle)
  BY DEF Recevoir
<1> HIDE DEF o
<1>6. /\ o.estampille.racine = q /\ o.estampille.compteur <= compteur[q]
      /\ \A i \in DOMAIN enRoute'[t] : o.estampille.compteur < enRoute'[t][i].estampille.compteur
      /\ o.quoi = "cle-machine-revoquee" =>
           /\ o.cle.racine = q => o.cle.compteur < o.estampille.compteur
           /\ o.cle.racine = t => o.cle.compteur <= compteur[t]
  BY <1>2 DEF SuiteDe, EnvoisDe, OrdreDe, NommeesDe
<1>6a. \A i \in DOMAIN enRoute'[t] : enRoute'[t][i].estampille.compteur \in Nat
  BY <1>2, NombresEnRoute
<1>7. EnvoisDe(t)'
  BY <1>2, <1>4 DEF SuiteDe, EnvoisDe
<1>8. OrdreDe(t)'
  BY <1>2 DEF SuiteDe, OrdreDe
<1>9. NommeesDe(t)'
  <2> SUFFICES ASSUME NEW i \in DOMAIN enRoute'[t], enRoute'[t][i].quoi = "cle-machine-revoquee"
               PROVE  LET k == enRoute'[t][i].cle IN
                      /\ k.racine = Pair[t] => k.compteur < enRoute'[t][i].estampille.compteur
                      /\ k.racine = t => k.compteur <= compteur'[t]
    BY DEF NommeesDe
  <2>1. i + 1 \in DOMAIN enRoute[t] /\ enRoute'[t][i] = enRoute[t][i + 1]
    BY <1>2
  <2>2. enRoute'[t][i].cle.compteur \in Nat
    BY <2>1, NombresEnRoute
  <2> QED BY <1>0, <1>4, <2>1, <2>2 DEF SuiteDe, NommeesDe
<1>10. \A k \in Connues(t)' : k \in Connues(t) \/ k = o.estampille
                              \/ (o.quoi = "cle-machine-revoquee" /\ k = o.cle)
  <2>1. CASE cle'[t] = cle[t] /\ revoquees'[t] = revoquees[t]
    BY <2>1 DEF Connues
  <2>2. CASE AppliquerCleMachine(t, o) /\ UNCHANGED revoquees
    <3>1. cle'[t] = cle[t] \/ cle'[t] = [liaison |-> o.estampille, code |-> o.code]
      BY <2>2 DEF AppliquerCleMachine, TypeOK
    <3> QED BY <2>2, <3>1 DEF Connues
  <2>3. CASE o.quoi = "cle-machine-revoquee" /\ AppliquerCleRevoquee(t, o.cle)
    <3>1. /\ cle'[t] = cle[t] \/ cle'[t] = SansCle
          /\ revoquees'[t] = revoquees[t] \cup {o.cle}
      BY <2>3 DEF AppliquerCleRevoquee, TypeOK
    <3> QED BY <2>3, <3>1 DEF Connues
  <2> QED BY <1>5, <2>1, <2>2, <2>3
<1>11. ConnuesDe(t)'
  <2> SUFFICES ASSUME NEW k \in Connues(t)'
               PROVE  /\ k.racine = t => k.compteur <= compteur'[t]
                      /\ k.racine = q =>
                           /\ k.compteur <= compteur'[q]
                           /\ \A i \in DOMAIN enRoute'[t] :
                                k.compteur < enRoute'[t][i].estampille.compteur
    BY DEF ConnuesDe
  <2>1. CASE k \in Connues(t)
    <3>1. k.compteur \in Nat
      BY <2>1, NombresConnus
    <3>2. /\ k.racine = t => k.compteur <= compteur[t]
          /\ k.racine = q => k.compteur <= compteur[q]
          /\ k.racine = q => \A i \in DOMAIN enRoute[t] :
                               k.compteur < enRoute[t][i].estampille.compteur
      BY <2>1 DEF SuiteDe, ConnuesDe
    <3> QED BY <1>0, <1>2, <1>4, <3>1, <3>2
  <2>2. CASE k = o.estampille
    BY <1>0, <1>4, <1>6, <2>2
  <2>3. CASE o.quoi = "cle-machine-revoquee" /\ k = o.cle
    <3>1. k.compteur \in Nat
      BY <1>3, <2>3, ChampsDUneOperation DEF Estampille
    <3> QED BY <1>0, <1>3, <1>4, <1>6, <1>6a, <2>3, <3>1
  <2> QED BY <1>10, <2>1, <2>2, <2>3
<1>12. TenueDe(t)'
  <2>1. CASE cle'[t] = cle[t] /\ revoquees'[t] = revoquees[t]
    BY <2>1 DEF SuiteDe, TenueDe
  <2>2. CASE AppliquerCleMachine(t, o) /\ UNCHANGED revoquees
    <3>1. cle'[t] = cle[t] \/ cle'[t].liaison = o.estampille
      BY <2>2 DEF AppliquerCleMachine, TypeOK
    <3>2. o.estampille \notin revoquees[t]
      <4> SUFFICES ASSUME o.estampille \in revoquees[t] PROVE FALSE
        OBVIOUS
      <4>1. o.estampille \in Connues(t)
        BY DEF Connues
      <4>2. o.estampille.compteur < enRoute[t][1].estampille.compteur
        BY <1>2, <1>6, <4>1 DEF SuiteDe, ConnuesDe
      <4> QED BY <1>2, <1>3, <4>2
    <3> QED BY <2>2, <3>1, <3>2 DEF SuiteDe, TenueDe
  <2>3. CASE AppliquerCleRevoquee(t, o.cle)
    <3>1. /\ cle'[t] = IF cle[t].liaison = o.cle THEN SansCle ELSE cle[t]
          /\ revoquees'[t] = revoquees[t] \cup {o.cle}
      BY <2>3 DEF AppliquerCleRevoquee, TypeOK
    <3> QED BY <3>1 DEF SuiteDe, TenueDe
  <2> QED BY <1>5, <2>1, <2>2, <2>3
<1> QED BY <1>7, <1>8, <1>9, <1>11, <1>12 DEF SuiteDe
LEMMA SuitePas ==
  ASSUME TypeOK, TypeOK', Suite, [Next]_vars
  PROVE  Suite'
<1> SUFFICES ASSUME amorcages' = 0 PROVE \A t \in Racine : SuiteDe(t)'
  BY DEF Suite
<1> DEFINE But == \A t \in Racine : SuiteDe(t)'
<1>1. ASSUME NEW r \in Racine, Amorcer(r) PROVE But
  BY <1>1 DEF Amorcer, TypeOK
<1>2. ASSUME amorcages' = amorcages PROVE \A t \in Racine : SuiteDe(t)
  BY <1>2 DEF Suite
<1>3. ASSUME UNCHANGED <<compteur, enRoute, cle, revoquees, amorcages>> PROVE But
  <2> SUFFICES ASSUME NEW t \in Racine PROVE SuiteDe(t)'
    OBVIOUS
  <2>1. compteur[t] \in Nat /\ compteur[Pair[t]] \in Nat
    BY DEF TypeOK
  <2> QED BY <1>2, <1>3, <2>1, SuiteAilleurs
<1>4. ASSUME NEW r \in Racine, Emettre(r) PROVE But
  <2> DEFINE o == [quoi |-> "enrolement", estampille |-> Suivante(r)]
  <2>1. o \in Operation /\ o.estampille = Suivante(r) /\ o.quoi = "enrolement"
    BY StampSuivante DEF Operation
  <2>2. Journaliser(r, o) /\ UNCHANGED <<cle, revoquees, amorcages>>
    BY <1>4 DEF Emettre
  <2> HIDE DEF o
  <2>3. Connues(r)' = Connues(r) /\ (SuiteDe(r) => TenueDe(r)')
    BY <2>2 DEF Connues, SuiteDe, TenueDe
  <2> QED BY <1>2, <2>1, <2>2, <2>3, SuiteDUneEcriture
<1>5. ASSUME NEW r \in Racine, Lier(r) PROVE But
  <2> DEFINE o == [quoi |-> "cle-machine", estampille |-> Suivante(r),
                   code |-> enMain[r], empreinte |-> enMain[r]]
  <2>1. o \in Operation /\ o.estampille = Suivante(r) /\ o.quoi = "cle-machine"
    BY <1>5, StampSuivante DEF Lier, Operation, TypeOK
  <2>2. Journaliser(r, o) /\ UNCHANGED <<revoquees, amorcages>>
    BY <1>5 DEF Lier
  <2> HIDE DEF o
  <2>3. /\ cle'[r].liaison = Suivante(r)
        /\ \A t \in Racine : t # r => cle'[t] = cle[t]
    BY <1>5 DEF Lier, TypeOK
  <2>4. \A k \in Connues(r)' : k \in Connues(r) \/ k = Suivante(r)
    BY <2>2, <2>3 DEF Connues
  <2>5. Suivante(r) \notin revoquees[r]
    <3>1. SuiteDe(r) /\ compteur[r] \in Nat
      BY <1>2, <2>2 DEF TypeOK
    <3> QED BY <3>1 DEF SuiteDe, ConnuesDe, Connues, Suivante
  <2>6. TenueDe(r)'
    BY <2>2, <2>3, <2>5 DEF TenueDe
  <2> QED BY <1>2, <2>1, <2>2, <2>3, <2>4, <2>6, SuiteDUneEcriture
<1>6. ASSUME NEW r \in Racine, Revoquer(r) PROVE But
  <2> DEFINE o == [quoi |-> "cle-machine-revoquee", estampille |-> Suivante(r),
                   cle |-> cle[r].liaison]
  <2>0. cle[r] # SansCle /\ cle[r].liaison \in Estampille
    BY <1>6 DEF Revoquer, TypeOK, CleLiee
  <2>1. /\ o \in Operation /\ o.estampille = Suivante(r)
        /\ o.quoi = "cle-machine-revoquee" /\ o.cle = cle[r].liaison
    BY <2>0, StampSuivante DEF Operation
  <2>2. Journaliser(r, o) /\ UNCHANGED amorcages
    BY <1>6 DEF Revoquer
  <2> HIDE DEF o
  <2>3. /\ cle'[r] = SansCle /\ revoquees'[r] = revoquees[r] \cup {cle[r].liaison}
        /\ \A t \in Racine : t # r => cle'[t] = cle[t] /\ revoquees'[t] = revoquees[t]
    BY <1>6 DEF Revoquer, TypeOK
  <2>4. o.cle \in Connues(r) /\ \A k \in Connues(r)' : k \in Connues(r)
    BY <2>0, <2>1, <2>3 DEF Connues
  <2>5. TenueDe(r)'
    BY <2>3 DEF TenueDe
  <2> QED BY <1>2, <2>1, <2>2, <2>3, <2>4, <2>5, SuiteDUneEcriture
<1>7. ASSUME NEW r \in Racine, Recevoir(r) PROVE But
  <2> SUFFICES ASSUME NEW t \in Racine PROVE SuiteDe(t)'
    OBVIOUS
  <2>1. SuiteDe(t)
    BY <1>2, <1>7 DEF Recevoir
  <2>2. CASE t = r
    BY <1>7, <2>1, <2>2, SuiteRecevoir
  <2>3. CASE t # r
    <3>1. Head(enRoute[r]) \in Operation
      BY <1>7 DEF Recevoir, TypeOK
    <3>2. Head(enRoute[r]).estampille.compteur \in Nat
      BY <3>1, ChampsDUneOperation DEF Estampille
    <3>3. enRoute'[t] = enRoute[t] /\ compteur'[t] = compteur[t]
      BY <1>7, <2>3 DEF Recevoir, TypeOK
    <3> DEFINE n == Head(enRoute[r]).estampille.compteur
    <3>6. compteur' = [compteur EXCEPT ![r] = IF @ >= n THEN @ ELSE n]
      BY <1>7 DEF Recevoir
    <3> HIDE DEF n
    <3>7. n \in Nat
      BY <3>2 DEF n
    <3>4. ASSUME NEW s \in Racine PROVE compteur[s] \in Nat /\ compteur[s] <= compteur'[s]
      <4>1. compteur[s] \in Nat
        BY DEF TypeOK
      <4>2. compteur'[s] = IF s = r THEN (IF compteur[s] >= n THEN compteur[s] ELSE n) ELSE compteur[s]
        BY <3>6 DEF TypeOK
      <4> QED BY <3>7, <4>1, <4>2
    <3>5. cle'[t] = cle[t] /\ revoquees'[t] = revoquees[t]
      BY <1>7, <2>3 DEF Recevoir, AppliquerCleMachine, AppliquerCleRevoquee, TypeOK
    <3> QED BY <2>1, <3>3, <3>4, <3>5, SuiteAilleurs
  <2> QED BY <2>2, <2>3
<1> QED
  BY <1>1, <1>3, <1>4, <1>5, <1>6, <1>7 DEF Next, vars, Consommer, Expirer, Redemarrer

\* As long as no snapshot is read, a root that has revoked a key, or learnt of its
\* revocation, never holds it again, whatever the two roots write meanwhile and
\* however late their operations arrive.
THEOREM RevocationTenue == Spec => []RevoqueeTenueParLaSuite
<1>1. Init => TypeOK /\ Suite
  BY DEF Init, TypeOK, Suite, SuiteDe, EnvoisDe, OrdreDe, NommeesDe, ConnuesDe, Connues, TenueDe
<1>2. TypeOK /\ Suite /\ [Next]_vars => (TypeOK /\ Suite)'
  BY TypePas, SuitePas
<1>3. Suite => RevoqueeTenueParLaSuite
  BY DEF Suite, SuiteDe, TenueDe, RevoqueeTenueParLaSuite, RevoqueeTenue
<1> QED BY <1>1, <1>2, <1>3, PTL DEF Spec

-----------------------------------------------------------------------------
(* A code is consumed once: it rests on the order of what is on its way.   *)

\* The codes a root has now, and those it had and consumed.
Consommes(r) == {acceptes[r][i] : i \in DOMAIN acceptes[r]}
Vus(r) == codes[r] \cup Consommes(r)

\* Whatever r has or had is below what its clock, or its peer, still stamps.
VusDe(r) ==
  \A k \in Vus(r) :
    /\ k.racine \in {r, Pair[r]}
    /\ k.racine = r => k.compteur <= compteur[r]
    /\ k.racine = Pair[r] =>
         /\ k.compteur <= compteur[Pair[r]]
         /\ \A i \in DOMAIN enRoute[r] : k.compteur < enRoute[r][i].estampille.compteur

\* What was consumed is gone, and was there once.
UneFoisDe(r) ==
  /\ codes[r] \cap Consommes(r) = {}
  /\ \A i, j \in DOMAIN acceptes[r] : i # j => acceptes[r][i] # acceptes[r][j]

Frais == amorcages = 0 => \A r \in Racine : VusDe(r) /\ UneFoisDe(r)

\* The clocks go on, and what joins the way to t is stamped above the clock of its peer.
Avance(t) ==
  /\ compteur[t] <= compteur'[t] /\ compteur[Pair[t]] <= compteur'[Pair[t]]
  /\ \A i \in DOMAIN enRoute'[t] :
       \/ \E j \in DOMAIN enRoute[t] : enRoute'[t][i] = enRoute[t][j]
       \/ compteur[Pair[t]] < enRoute'[t][i].estampille.compteur

-----------------------------------------------------------------------------
(* The clocks and the way, at each step.                                   *)

LEMMA AvanceImmobile ==
  ASSUME TypeOK, NEW t \in Racine, UNCHANGED <<compteur, enRoute>>
  PROVE  Avance(t)
<1>1. compteur[t] \in Nat /\ compteur[Pair[t]] \in Nat
  BY DEF TypeOK
<1> QED BY <1>1 DEF Avance

LEMMA AvanceJournaliser ==
  ASSUME TypeOK, NEW r \in Racine, NEW o \in Operation, Journaliser(r, o),
         o.estampille = Suivante(r), NEW t \in Racine
  PROVE  Avance(t)
<1>1. /\ compteur[t] \in Nat /\ compteur[Pair[t]] \in Nat /\ compteur[r] \in Nat
      /\ Pair[t] \in Racine /\ Pair[r] \in Racine /\ enRoute[t] \in Seq(Operation)
  BY DEF TypeOK
<1>2. compteur[t] <= compteur'[t] /\ compteur[Pair[t]] <= compteur'[Pair[t]]
  BY <1>1 DEF TypeOK, Journaliser
<1>3. CASE t # Pair[r]
  <2>1. enRoute'[t] = enRoute[t]
    BY <1>3 DEF TypeOK, Journaliser
  <2> QED BY <1>2, <2>1 DEF Avance
<1>4. CASE t = Pair[r]
  <2>1. Pair[t] = r /\ enRoute'[t] = Append(enRoute[t], o)
    BY <1>4 DEF TypeOK, Journaliser
  <2>2. /\ DOMAIN enRoute'[t] = DOMAIN enRoute[t] \cup {Len(enRoute[t]) + 1}
        /\ enRoute'[t][Len(enRoute[t]) + 1] = o
        /\ \A i \in DOMAIN enRoute[t] : enRoute'[t][i] = enRoute[t][i]
    BY <1>1, <2>1, Allongee
  <2>3. compteur[Pair[t]] < o.estampille.compteur
    BY <1>1, <2>1 DEF Suivante
  <2> QED BY <1>2, <2>2, <2>3 DEF Avance
<1> QED BY <1>3, <1>4

LEMMA AvanceRecevoir ==
  ASSUME TypeOK, NEW r \in Racine, Recevoir(r), NEW t \in Racine
  PROVE  Avance(t)
<1>1. enRoute[r] \in Seq(Operation) /\ enRoute[r] # <<>>
  BY DEF TypeOK, Recevoir
<1> DEFINE n == Head(enRoute[r]).estampille.compteur
<1>2. n \in Nat
  <2>1. Head(enRoute[r]) \in Operation
    BY <1>1
  <2> QED BY <2>1, ChampsDUneOperation DEF Estampille
<1>3. compteur' = [compteur EXCEPT ![r] = IF @ >= n THEN @ ELSE n]
  BY DEF Recevoir
<1> HIDE DEF n
<1>4. ASSUME NEW s \in Racine PROVE compteur[s] <= compteur'[s]
  <2>1. compteur[s] \in Nat
    BY DEF TypeOK
  <2>2. compteur'[s] = IF s = r THEN (IF compteur[s] >= n THEN compteur[s] ELSE n) ELSE compteur[s]
    BY <1>3 DEF TypeOK
  <2> QED BY <1>2, <2>1, <2>2
<1>5. ASSUME NEW i \in DOMAIN enRoute'[t]
      PROVE  \E j \in DOMAIN enRoute[t] : enRoute'[t][i] = enRoute[t][j]
  <2>1. enRoute'[t] = IF t = r THEN Tail(enRoute[t]) ELSE enRoute[t]
    BY DEF TypeOK, Recevoir
  <2>2. CASE t = r
    BY <1>1, <2>1, <2>2, TeteEtReste
  <2> QED BY <2>1, <2>2
<1>6. Pair[t] \in Racine
  OBVIOUS
<1> QED BY <1>4, <1>5, <1>6 DEF Avance

-----------------------------------------------------------------------------
(* What a root has seen stays below what comes.                            *)

LEMMA VusGardes ==
  ASSUME TypeOK, TypeOK', NEW t \in Racine, VusDe(t), Avance(t),
         \A k \in Vus(t)' :
           \/ k \in Vus(t)
           \/ k.racine = t /\ k.compteur <= compteur'[t]
           \/ /\ k.racine = Pair[t] /\ k.compteur <= compteur[Pair[t]]
              /\ \A i \in DOMAIN enRoute'[t] : k.compteur < enRoute'[t][i].estampille.compteur
  PROVE  VusDe(t)'
<1> SUFFICES ASSUME NEW k \in Vus(t)'
             PROVE  /\ k.racine \in {t, Pair[t]}
                    /\ k.racine = t => k.compteur <= compteur'[t]
                    /\ k.racine = Pair[t] =>
                         /\ k.compteur <= compteur'[Pair[t]]
                         /\ \A i \in DOMAIN enRoute'[t] :
                              k.compteur < enRoute'[t][i].estampille.compteur
  BY DEF VusDe
<1>1. /\ Pair[t] \in Racine /\ Pair[t] # t /\ compteur[t] \in Nat /\ compteur'[t] \in Nat
      /\ compteur[Pair[t]] \in Nat /\ compteur'[Pair[t]] \in Nat
  BY DEF TypeOK
<1>2. k.compteur \in Nat
  <2>1. codes'[t] \subseteq Estampille /\ acceptes'[t] \in Seq(Estampille)
    BY DEF TypeOK
  <2>2. k \in Estampille
    BY <2>1 DEF Vus, Consommes
  <2> QED BY <2>2 DEF Estampille
<1>3. ASSUME NEW i \in DOMAIN enRoute'[t] PROVE enRoute'[t][i].estampille.compteur \in Nat
  <2>1. enRoute'[t][i] \in Operation
    BY DEF TypeOK
  <2> QED BY <2>1, ChampsDUneOperation DEF Estampille
<1>4. CASE k \in Vus(t)
  <2>1. /\ k.racine \in {t, Pair[t]}
        /\ k.racine = t => k.compteur <= compteur[t]
        /\ k.racine = Pair[t] =>
             /\ k.compteur <= compteur[Pair[t]]
             /\ \A i \in DOMAIN enRoute[t] : k.compteur < enRoute[t][i].estampille.compteur
    BY <1>4 DEF VusDe
  <2>2. ASSUME k.racine = Pair[t], NEW i \in DOMAIN enRoute'[t]
        PROVE  k.compteur < enRoute'[t][i].estampille.compteur
    <3>1. CASE \E j \in DOMAIN enRoute[t] : enRoute'[t][i] = enRoute[t][j]
      BY <2>1, <2>2, <3>1
    <3>2. CASE compteur[Pair[t]] < enRoute'[t][i].estampille.compteur
      BY <1>1, <1>2, <1>3, <2>1, <2>2, <3>2
    <3> QED BY <3>1, <3>2 DEF Avance
  <2> QED BY <1>1, <1>2, <2>1, <2>2 DEF Avance
<1>5. CASE k.racine = t /\ k.compteur <= compteur'[t]
  BY <1>1, <1>5
<1>6. CASE /\ k.racine = Pair[t] /\ k.compteur <= compteur[Pair[t]]
           /\ \A i \in DOMAIN enRoute'[t] : k.compteur < enRoute'[t][i].estampille.compteur
  BY <1>1, <1>2, <1>6 DEF Avance
<1> QED BY <1>4, <1>5, <1>6

\* A root that gains no code and consumes none.
LEMMA FraisSansCode ==
  ASSUME TypeOK, TypeOK', NEW t \in Racine, VusDe(t), UneFoisDe(t), Avance(t),
         codes'[t] \subseteq codes[t], acceptes'[t] = acceptes[t]
  PROVE  VusDe(t)' /\ UneFoisDe(t)'
<1>1. Consommes(t)' = Consommes(t)
  BY DEF Consommes
<1>2. \A k \in Vus(t)' : k \in Vus(t)
  BY <1>1 DEF Vus
<1>3. VusDe(t)'
  BY <1>2, VusGardes
<1> QED BY <1>1, <1>3 DEF UneFoisDe

\* A code that enters is a new one: it was neither there nor consumed.
LEMMA FraisAvecCode ==
  ASSUME TypeOK, TypeOK', NEW t \in Racine, VusDe(t), UneFoisDe(t), Avance(t),
         NEW c, codes'[t] \subseteq codes[t] \cup {c}, acceptes'[t] = acceptes[t],
         c \notin Vus(t),
         \/ c.racine = t /\ c.compteur <= compteur'[t]
         \/ /\ c.racine = Pair[t] /\ c.compteur <= compteur[Pair[t]]
            /\ \A i \in DOMAIN enRoute'[t] : c.compteur < enRoute'[t][i].estampille.compteur
  PROVE  VusDe(t)' /\ UneFoisDe(t)'
<1>1. Consommes(t)' = Consommes(t)
  BY DEF Consommes
<1>2. \A k \in Vus(t)' : k \in Vus(t) \/ k = c
  BY <1>1 DEF Vus
<1>3. VusDe(t)'
  BY <1>2, VusGardes
<1>4. codes'[t] \cap Consommes(t) = {}
  BY DEF UneFoisDe, Vus
<1> QED BY <1>1, <1>3, <1>4 DEF UneFoisDe

-----------------------------------------------------------------------------
(* The steps.                                                              *)

LEMMA FraisEmettre ==
  ASSUME TypeOK, TypeOK', NEW r \in Racine, Emettre(r),
         \A t \in Racine : VusDe(t) /\ UneFoisDe(t), NEW t \in Racine
  PROVE  VusDe(t)' /\ UneFoisDe(t)'
<1> DEFINE o == [quoi |-> "enrolement", estampille |-> Suivante(r)]
<1>1. o \in Operation /\ o.estampille = Suivante(r) /\ Journaliser(r, o)
  BY StampSuivante DEF Operation, Emettre
<1>2. Avance(t)
  BY <1>1, AvanceJournaliser
<1>3. acceptes'[t] = acceptes[t]
  BY DEF Emettre
<1>4. CASE t # r
  <2>1. codes'[t] = codes[t]
    BY <1>4 DEF Emettre, TypeOK
  <2> QED BY <1>2, <1>3, <2>1, FraisSansCode
<1>5. CASE t = r
  <2>1. codes'[t] \subseteq codes[t] \cup {Suivante(t)}
    BY <1>5 DEF Emettre, TypeOK
  <2>2. compteur[t] \in Nat /\ compteur'[t] = compteur[t] + 1
    BY <1>5 DEF Emettre, Journaliser, TypeOK
  <2>3. Suivante(t).racine = t /\ Suivante(t).compteur = compteur[t] + 1
    BY DEF Suivante
  <2>4. Suivante(t) \notin Vus(t)
    <3> SUFFICES ASSUME Suivante(t) \in Vus(t) PROVE FALSE
      OBVIOUS
    <3>1. Suivante(t).compteur <= compteur[t]
      BY <2>3 DEF VusDe
    <3> QED BY <2>2, <2>3, <3>1
  <2>5. Suivante(t).compteur <= compteur'[t]
    BY <2>2, <2>3
  <2> HIDE DEF o
  <2> QED BY <1>2, <1>3, <2>1, <2>3, <2>4, <2>5, FraisAvecCode
<1> QED BY <1>4, <1>5

LEMMA FraisConsommer ==
  ASSUME TypeOK, TypeOK', NEW r \in Racine, Consommer(r),
         \A t \in Racine : VusDe(t) /\ UneFoisDe(t), NEW t \in Racine
  PROVE  VusDe(t)' /\ UneFoisDe(t)'
<1>1. Avance(t)
  BY AvanceImmobile DEF Consommer
<1>2. PICK c \in codes[r] :
        /\ codes'    = [codes    EXCEPT ![r] = @ \ {c}]
        /\ acceptes' = [acceptes EXCEPT ![r] = Append(@, c)]
  BY DEF Consommer
<1>3. CASE t # r
  <2>1. codes'[t] = codes[t] /\ acceptes'[t] = acceptes[t]
    BY <1>2, <1>3 DEF TypeOK
  <2> QED BY <1>1, <2>1, FraisSansCode
<1>4. CASE t = r
  <2>1. /\ codes'[t] = codes[t] \ {c} /\ acceptes'[t] = Append(acceptes[t], c)
        /\ c \in Estampille /\ acceptes[t] \in Seq(Estampille)
    BY <1>2, <1>4 DEF TypeOK
  <2> DEFINE n == Len(acceptes[t]) + 1
  <2>2. /\ DOMAIN acceptes'[t] = DOMAIN acceptes[t] \cup {n}
        /\ acceptes'[t][n] = c
        /\ \A i \in DOMAIN acceptes[t] : i < n /\ acceptes'[t][i] = acceptes[t][i]
    BY <2>1, Allongee
  <2> HIDE DEF n
  <2>3. Consommes(t)' = Consommes(t) \cup {c}
    BY <2>2 DEF Consommes
  <2>4. c \in codes[t] /\ c \notin Consommes(t)
    BY <1>2, <1>4 DEF UneFoisDe
  <2>5. VusDe(t)'
    <3>1. \A k \in Vus(t)' : k \in Vus(t)
      BY <2>1, <2>3, <2>4 DEF Vus
    <3> QED BY <1>1, <3>1, VusGardes
  <2>6. codes'[t] \cap Consommes(t)' = {}
    BY <2>1, <2>3 DEF UneFoisDe
  <2>7. ASSUME NEW i \in DOMAIN acceptes'[t], NEW j \in DOMAIN acceptes'[t], i # j
        PROVE  acceptes'[t][i] # acceptes'[t][j]
    <3>1. \A h \in DOMAIN acceptes[t] : acceptes'[t][h] # c
      BY <2>2, <2>4 DEF Consommes
    <3> QED BY <2>2, <2>7, <3>1 DEF UneFoisDe
  <2> QED BY <2>5, <2>6, <2>7 DEF UneFoisDe
<1> QED BY <1>3, <1>4

LEMMA FraisRecevoir ==
  ASSUME TypeOK, TypeOK', NEW r \in Racine, Recevoir(r), SuiteDe(r),
         \A t \in Racine : VusDe(t) /\ UneFoisDe(t), NEW t \in Racine
  PROVE  VusDe(t)' /\ UneFoisDe(t)'
<1>1. Avance(t)
  BY AvanceRecevoir
<1>2. acceptes'[t] = acceptes[t]
  BY DEF Recevoir
<1>3. CASE t # r
  <2>1. codes'[t] = codes[t]
    BY <1>3 DEF Recevoir, AppliquerEnrolement, AppliquerCleMachine, TypeOK
  <2> QED BY <1>1, <1>2, <2>1, FraisSansCode
<1>4. CASE t = r
  <2> DEFINE o == Head(enRoute[t])
  <2>1. enRoute[t] \in Seq(Operation) /\ enRoute[t] # <<>> /\ enRoute'[t] = Tail(enRoute[t])
    BY <1>4 DEF TypeOK, Recevoir
  <2>2. codes'[t] \subseteq codes[t] \cup {o.estampille}
    BY <1>4 DEF Recevoir, AppliquerEnrolement, AppliquerCleMachine, TypeOK
  <2>3. /\ 1 \in DOMAIN enRoute[t] /\ o = enRoute[t][1]
        /\ \A i \in DOMAIN enRoute'[t] : /\ i + 1 \in DOMAIN enRoute[t] /\ 1 < i + 1
                                        /\ enRoute'[t][i] = enRoute[t][i + 1]
        /\ DOMAIN enRoute'[t] \subseteq Nat
    BY <2>1, TeteEtReste
  <2>4. o \in Operation
    BY <2>1
  <2>5. o.estampille.compteur \in Nat
    BY <2>4, ChampsDUneOperation DEF Estampille
  <2> HIDE DEF o
  <2>6. /\ o.estampille.racine = Pair[t] /\ o.estampille.compteur <= compteur[Pair[t]]
        /\ \A i \in DOMAIN enRoute'[t] : o.estampille.compteur < enRoute'[t][i].estampille.compteur
    BY <1>4, <2>3 DEF SuiteDe, EnvoisDe, OrdreDe
  <2>7. o.estampille \notin Vus(t)
    <3> SUFFICES ASSUME o.estampille \in Vus(t) PROVE FALSE
      OBVIOUS
    <3>1. o.estampille.compteur < enRoute[t][1].estampille.compteur
      BY <2>3, <2>6 DEF VusDe
    <3> QED BY <2>3, <2>5, <3>1
  <2> QED BY <1>1, <1>2, <2>2, <2>6, <2>7, FraisAvecCode
<1> QED BY <1>3, <1>4

LEMMA FraisPas ==
  ASSUME TypeOK, TypeOK', Suite, Frais, [Next]_vars
  PROVE  Frais'
<1> SUFFICES ASSUME amorcages' = 0, NEW t \in Racine PROVE VusDe(t)' /\ UneFoisDe(t)'
  BY DEF Frais
<1> DEFINE But == VusDe(t)' /\ UneFoisDe(t)'
<1>1. ASSUME amorcages' = amorcages
      PROVE  \A s \in Racine : SuiteDe(s) /\ VusDe(s) /\ UneFoisDe(s)
  BY <1>1 DEF Suite, Frais
<1>2. ASSUME UNCHANGED <<compteur, codes, enRoute, acceptes, amorcages>> PROVE But
  <2>1. Avance(t)
    BY <1>2, AvanceImmobile
  <2> QED BY <1>1, <1>2, <2>1, FraisSansCode
<1>3. ASSUME NEW r \in Racine, Emettre(r) PROVE But
  <2>1. amorcages' = amorcages
    BY <1>3 DEF Emettre
  <2> QED BY <1>1, <1>3, <2>1, FraisEmettre
<1>4. ASSUME NEW r \in Racine, Consommer(r) PROVE But
  <2>1. amorcages' = amorcages
    BY <1>4 DEF Consommer
  <2> QED BY <1>1, <1>4, <2>1, FraisConsommer
<1>5. ASSUME NEW r \in Racine, Lier(r) PROVE But
  <2> DEFINE o == [quoi |-> "cle-machine", estampille |-> Suivante(r),
                   code |-> enMain[r], empreinte |-> enMain[r]]
  <2>1. o \in Operation /\ o.estampille = Suivante(r) /\ Journaliser(r, o)
    BY <1>5, StampSuivante DEF Lier, Operation, TypeOK
  <2> HIDE DEF o
  <2>2. Avance(t)
    BY <2>1, AvanceJournaliser
  <2>3. codes'[t] = codes[t] /\ acceptes'[t] = acceptes[t] /\ amorcages' = amorcages
    BY <1>5 DEF Lier
  <2> QED BY <1>1, <2>2, <2>3, FraisSansCode
<1>6. ASSUME NEW r \in Racine, Revoquer(r) PROVE But
  <2> DEFINE o == [quoi |-> "cle-machine-revoquee", estampille |-> Suivante(r),
                   cle |-> cle[r].liaison]
  <2>1. cle[r].liaison \in Estampille
    BY <1>6 DEF Revoquer, TypeOK, CleLiee
  <2>2. o \in Operation /\ o.estampille = Suivante(r) /\ Journaliser(r, o)
    BY <1>6, <2>1, StampSuivante DEF Revoquer, Operation
  <2> HIDE DEF o
  <2>3. Avance(t)
    BY <2>2, AvanceJournaliser
  <2>4. codes'[t] = codes[t] /\ acceptes'[t] = acceptes[t] /\ amorcages' = amorcages
    BY <1>6 DEF Revoquer
  <2> QED BY <1>1, <2>3, <2>4, FraisSansCode
<1>7. ASSUME NEW r \in Racine, Expirer(r) PROVE But
  <2>1. Avance(t) /\ acceptes'[t] = acceptes[t] /\ amorcages' = amorcages
    BY <1>7, AvanceImmobile DEF Expirer
  <2>2. codes'[t] \subseteq codes[t]
    BY <1>7 DEF Expirer, TypeOK
  <2> QED BY <1>1, <2>1, <2>2, FraisSansCode
<1>8. ASSUME NEW r \in Racine, Recevoir(r) PROVE But
  <2>1. amorcages' = amorcages
    BY <1>8 DEF Recevoir
  <2> QED BY <1>1, <1>8, <2>1, FraisRecevoir
<1>9. ASSUME NEW r \in Racine, Amorcer(r) PROVE But
  BY <1>9 DEF Amorcer, TypeOK
<1>10. ASSUME NEW r \in Racine, Redemarrer(r) PROVE But
  BY <1>2, <1>10 DEF Redemarrer
<1>11. CASE UNCHANGED vars
  BY <1>2, <1>11 DEF vars
<1> QED BY <1>3, <1>4, <1>5, <1>6, <1>7, <1>8, <1>9, <1>10, <1>11 DEF Next

\* As long as no snapshot is read, no root consumes the same code twice: neither an
\* emission of the peer that arrives late, nor a restart between the two transactions of
\* an enrolment, nor the binding of the peer brings back a code that was consumed.
THEOREM CodeUneFoisTenu == Spec => []CodeUneFoisParLaSuite
<1>1. Init => TypeOK /\ Suite /\ Frais
  <2>1. Init => TypeOK /\ Suite
    BY DEF Init, TypeOK, Suite, SuiteDe, EnvoisDe, OrdreDe, NommeesDe, ConnuesDe, Connues, TenueDe
  <2>2. Init => Frais
    BY DEF Init, Frais, VusDe, UneFoisDe, Vus, Consommes
  <2> QED BY <2>1, <2>2
<1>2. TypeOK /\ Suite /\ Frais /\ [Next]_vars => (TypeOK /\ Suite /\ Frais)'
  BY TypePas, SuitePas, FraisPas
<1>3. Frais => CodeUneFoisParLaSuite
  BY DEF Frais, UneFoisDe, CodeUneFoisParLaSuite, CodeUneFois
<1> QED BY <1>1, <1>2, <1>3, PTL DEF Spec
=============================================================================
