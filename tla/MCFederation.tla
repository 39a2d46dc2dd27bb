---------------------------- MODULE MCFederation ----------------------------
(* Four starts.  One root with a pair of members: a machine comes into the domains *)
(* or a member is withdrawn; or the daemon moves, and a session may be cut.  One   *)
(* root with one member and two machines, one of which may leave, whose session may *)
(* be cut.  Two roots with one member, and a machine that one root hosts before    *)
(* the other one.                                                                  *)
EXTENDS Federation

CONSTANTS r1, r2, d1, d2

MCRacine  == {r1, r2}
MCMembre  == {d1, d2}
MCMachine == 1..2

\* What is left of each bound at the start is what may happen.
MCDepart(heberge, lesRacines, lesMembres, change, bouge, coupe) ==
  [heberge |-> heberge, racines |-> lesRacines, membres |-> lesMembres,
   changements  |-> IF change THEN 0 ELSE 1,
   deplacements |-> IF bouge  THEN 0 ELSE 1,
   pannes       |-> IF coupe  THEN 0 ELSE 1]

MCDeparts ==
  {MCDepart({},     {r1},     {d1, d2}, TRUE,  FALSE, FALSE),
   MCDepart({1},    {r1},     {d1, d2}, FALSE, TRUE,  TRUE),
   MCDepart({1, 2}, {r1},     {d1},     TRUE,  FALSE, TRUE),
   MCDepart({},     {r1, r2}, {d1},     TRUE,  FALSE, FALSE)}
=============================================================================
