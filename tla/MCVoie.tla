------------------------------- MODULE MCVoie -------------------------------
(* The two deployed roots, each the peer of the other. *)
EXTENDS VoieInvariant, TLC

CONSTANTS nitrogen, argon

MCRacine == {nitrogen, argon}
MCPair   == [r \in MCRacine |-> IF r = nitrogen THEN argon ELSE nitrogen]

\* Only argon pulls.
SeulArgon == {argon}

\* The two roots play the same part when both pull.
Symetrie == Permutations(MCRacine)
=============================================================================
