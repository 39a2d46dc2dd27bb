----------------------------- MODULE MCSessions -----------------------------
(* A device and a machine of one account, a device to come, one member of a
   local directory. *)
EXTENDS Sessions

CONSTANTS c1, c2, a1, a2, m1, l1, u1, u2

MCConnexion == {c1, c2}
MCAppareil  == {a1, a2}
MCMachine   == {m1}
MCLocal     == {l1}
MCCompte    == {u1, u2}
MCDepart    == {a1, m1}
=============================================================================
