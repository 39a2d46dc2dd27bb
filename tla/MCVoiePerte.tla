----------------------------- MODULE MCVoiePerte -----------------------------
(* The two deployed roots, each the peer of the other. *)
EXTENDS VoiePerte

CONSTANTS nitrogen, argon

MCRacine == {nitrogen, argon}
MCPair   == [r \in MCRacine |-> IF r = nitrogen THEN argon ELSE nitrogen]
=============================================================================
