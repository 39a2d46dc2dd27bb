---------------------------- MODULE MCEnrolement ----------------------------
(* The two roots, 1 and 2. *)
EXTENDS Enrolement

MCRacine == {1, 2}
MCPair   == [r \in MCRacine |-> 3 - r]
LaPremiere == {1}
=============================================================================
