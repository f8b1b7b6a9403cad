-------------------------- MODULE MCUploadTickets --------------------------
(* UploadTickets on a small instance: a group of two collected files, a    *)
(* heartbeat, and an object too large for the plane.                       *)
EXTENDS UploadTickets

CONSTANTS a, b, heartbeat, huge, d1, d2

MCGroups == {<<a, b>>, <<heartbeat>>, <<a, huge>>}
MCContents == [o \in {a, b, heartbeat, huge} |-> IF o = a THEN {d1, d2} ELSE {d1}]
MCSkews == {-2, -1, 1}
=============================================================================
