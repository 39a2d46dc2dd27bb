--------------------------- MODULE VoieInvariant ---------------------------
(***************************************************************************)
(* The inductive invariant of Voie.tla, by named parts.  It is checked by  *)
(* TLC in the runs of MCVoie and proved in LiensPreuves.tla.                *)
(***************************************************************************)
EXTENDS Voie

\* The clock of r is above what it holds and wrote, and above how far its peer
\* says it has come; what the peer holds of r, r holds.
HorlogeDe(r) ==
  /\ compteur[r] <= CompteurMax
  /\ ecrit[r] <= compteur[r]
  /\ curseur[Pair[r]] <= compteur[r]
  /\ \A e \in rangees[r] : e.racine \in {r, Pair[r]} /\ e.compteur <= compteur[r]
  /\ Ecrites(r, rangees[Pair[r]]) \subseteq rangees[r]

\* The journal of r is its own writes above the retention floor.
JournalDe(r) ==
  /\ retirees[r] <= ecrit[r]
  /\ \A c \in operations[r] : [compteur |-> c, racine |-> r] \in rangees[r] /\ c > retirees[r]
  /\ \A e \in Ecrites(r, rangees[r]) :
       /\ e.compteur <= ecrit[r]
       /\ e.compteur \in operations[r] \/ e.compteur <= retirees[r]

\* What r has applied of its peer (the conjunct of SansTrou for r).
SansTrouDe(r) ==
  \A e \in Ecrites(Pair[r], rangees[Pair[r]]) : e.compteur <= curseur[r] => e \in rangees[r]

\* Whatever is on its way to r is held by its peer; where frames may be.
FluxDe(r) ==
  /\ aVenir[r] \cup transit[r] \subseteq rangees[Pair[r]]
  /\ coupe[r] <= compteur[Pair[r]]
  /\ phase[r] \in {"coupee", "ouverte", "operations", "preparation"} => fin[r] = "sans"
  /\ phase[r] # "operations" /\ fin[r] = "sans" => aVenir[r] = {} /\ transit[r] = {}
  /\ phase[r] = "amorcage" => transit[r] = {} /\ fin[r] # "en transit"
  /\ fin[r] = "en transit" => aVenir[r] = {}

\* A held operations stream: the frames are the peer's own, above the cursor,
\* those on the wire before the others; the peer's writes up to the last frame
\* on the wire, and up to servi while the stream is open, are applied or coming.
SuiteDe(r) ==
  LET q == Pair[r] IN
  phase[r] = "operations" =>
    /\ curseur[r] <= servi[r] /\ servi[r] <= compteur[q]
    /\ \A e \in aVenir[r] \cup transit[r] :
         e.racine = q /\ curseur[r] < e.compteur /\ e.compteur <= servi[r]
    /\ \A e \in transit[r], f \in aVenir[r] : e.compteur < f.compteur
    /\ clos[r] => aVenir[r] = {}
    /\ \A e \in Ecrites(q, rangees[q]) :
         /\ \A f \in transit[r] :
              e.compteur <= f.compteur => e.compteur <= curseur[r] \/ e \in transit[r]
         /\ ~clos[r] /\ e.compteur <= servi[r] =>
              e.compteur <= curseur[r] \/ e \in transit[r] \/ e \in aVenir[r]

\* A snapshot under way: the peer's writes up to the cut are held or coming.
InstantaneDe(r) ==
  LET q == Pair[r] IN
  fin[r] # "sans" =>
    \A e \in Ecrites(q, rangees[q]) :
      e.compteur <= coupe[r] => e \in rangees[r] \/ e \in transit[r] \/ e \in aVenir[r]

InvDe(r) ==
  /\ HorlogeDe(r) /\ JournalDe(r) /\ SansTrouDe(r)
  /\ FluxDe(r) /\ SuiteDe(r) /\ InstantaneDe(r)

\* The strengthening of the safety properties that every step preserves.
Inv == TypeOK /\ \A r \in Racine : InvDe(r)
=============================================================================
