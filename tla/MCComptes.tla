----------------------------- MODULE MCComptes -----------------------------
(* The two roots, 1 and 2, and the account root 1 opened first. *)
EXTENDS Comptes

MCRacine == {1, 2}
MCPair   == [r \in MCRacine |-> 3 - r]
MCPremier == [compteur |-> 1, racine |-> 1]
=============================================================================
