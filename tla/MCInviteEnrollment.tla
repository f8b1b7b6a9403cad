------------------------ MODULE MCInviteEnrollment -------------------------
(* Instances of InviteEnrollment for TLC.  Two machines; a1 and a2 are two *)
(* attempts of machine A's first login, the same install id with another   *)
(* device key, b1 is machine B's re-enrollment, which is kept and sent     *)
(* again, and ag machine A's request with the grant.                       *)
EXTENDS InviteEnrollment, TLC

CONSTANTS A, B, keyA, keyX, keyB, a1, a2, b1, ag, h1, h2

MCInstallOf == [r \in Requests |-> IF r = b1 THEN B ELSE A]
MCDeviceOf ==
    [r \in Requests |-> CASE r = b1 -> keyB [] r = a2 -> keyX [] OTHER -> keyA]
Symmetry == Permutations(Handlers)
=============================================================================
