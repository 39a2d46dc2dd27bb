----------------------------- MODULE VoiePerte -----------------------------
(***************************************************************************)
(* Voie.tla with the loss the documentation speaks of: the store of a root *)
(* is lost and the root starts again from an empty one, with the same key. *)
(* Nothing else changes; the code has no other path for it than the one    *)
(* Voie.tla models (the cursor asked for is 0).                            *)
(***************************************************************************)
EXTENDS Voie

CONSTANT PertesMax   \* bound: how many stores are lost

VARIABLE pertes

\* The store of r is lost; r starts from an empty one, both connections fall.
Perdre(r) ==
  /\ pertes < PertesMax
  /\ pertes'     = pertes + 1
  /\ compteur'   = [compteur   EXCEPT ![r] = 0]
  /\ ecrit'      = [ecrit      EXCEPT ![r] = 0]
  /\ rangees'    = [rangees    EXCEPT ![r] = {}]
  /\ operations' = [operations EXCEPT ![r] = {}]
  /\ retirees'   = [retirees   EXCEPT ![r] = 0]
  /\ curseur'    = [curseur    EXCEPT ![r] = 0]
  /\ derniere'   = [derniere   EXCEPT ![r] = 0]
  /\ phase'      = [s \in Racine |-> IF s \in {r, Pair[r]} THEN "coupee" ELSE phase[s]]
  /\ SansFlux({r, Pair[r]})
  /\ UNCHANGED pannes

InitPerte == Init /\ pertes = 0

NextPerte ==
  \/ Next /\ UNCHANGED pertes
  \/ \E r \in Racine : Perdre(r)

SpecPerte == InitPerte /\ [][NextPerte]_<<vars, pertes>>

\* docs/replication.md 5.4 and 7: a lost store is rebuilt from the other root,
\* its own former writes included.  A root whose operations stream is open and
\* whose cursor has reached what its peer says it wrote holds all the peer
\* holds.
EntrepotReconstruit ==
  \A r \in Racine :
    phase[r] = "operations" /\ curseur[r] >= ecrit[Pair[r]] => rangees[Pair[r]] \subseteq rangees[r]
=============================================================================
