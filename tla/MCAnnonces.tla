----------------------------- MODULE MCAnnonces -----------------------------
(* One daemon, two identifiers for its name, two connections. *)
EXTENDS Annonces

CONSTANTS s1, s2, c1, c2

MCService   == {s1, s2}
MCConnexion == {c1, c2}
=============================================================================
