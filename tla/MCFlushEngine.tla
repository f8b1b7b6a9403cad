--------------------------- MODULE MCFlushEngine ---------------------------
(* FlushEngine on small instances. *)
EXTENDS FlushEngine

CONSTANTS c1, c2, c3, g1, g2, raw, red1, red2

(* An append-only file: content only moves forward; it may be touched or   *)
(* removed.                                                                *)
AppendOnly == {<<c1, c1>>, <<c1, c2>>, <<c2, c2>>, <<c1, Gone>>,
               <<c2, Gone>>, <<Gone, c2>>}

(* A file whose content may come back (a settings file, a restored copy).  *)
Reverting == {<<c1, c2>>, <<c2, c1>>, <<c1, c1>>}

(* An exporter's payload: c1 and c2 differ only in what change detection   *)
(* ignores.                                                                *)
Volatile == {<<c1, c2>>, <<c2, c1>>, <<c2, c3>>, <<c3, c1>>, <<c3, Gone>>,
             <<Gone, c1>>}

SameBytes == [c \in Contents |-> c]
IgnoreNoise == [c \in Contents |-> IF c = c2 THEN c1 ELSE c]

(* The second generation of the rules rewrites c2 and leaves c1 alone.     *)
TwoRules == [p \in Contents \X Gens |->
                IF p[1] # c2 THEN raw ELSE IF p[2] = g1 THEN red1 ELSE red2]
=============================================================================
