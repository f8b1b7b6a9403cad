--------------------------- MODULE MCSourcePass ----------------------------
(* Instances of SourcePass for TLC. *)
EXTENDS SourcePass

MCSize == [f \in Files |-> IF f = 2 THEN 2 ELSE 1]

(* The second file is compressed: it decodes to more than the gate. *)
MCDecoded == [f \in Files |-> IF f = 2 THEN 5 ELSE 1]

(* The third seals to more than a group may declare. *)
MCSealed == [f \in Files |-> IF f = 3 THEN 3 ELSE 1]
=============================================================================
