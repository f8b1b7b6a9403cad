----------------------- MODULE MCClientCredentials ------------------------
(* ClientCredentials for TLC: a grant at each of two sites, and an invite. *)
EXTENDS ClientCredentials

CONSTANTS s1, s2, g1, g2, inv, r1

MCSiteOf == [t \in Tokens |-> IF t = g2 THEN s2 ELSE s1]
=============================================================================
