--------------------------- MODULE MCCrashJournal ---------------------------
(* The crash journal by itself, with more runs than MCDaemon has room for:  *)
(* it begins where two runs have crashed and a third, whose start is on the *)
(* way, saw only the first of them dead.                                    *)
EXTENDS CrashJournal

(* Two runs started, one after the other; the first died, the third read    *)
(* the journal, and the second died, from JournalInit.                      *)
ThirdRunStarting ==
    /\ boot = 1 /\ bootKnown \in BOOLEAN
    /\ journal = <<Entry(1, "start", {}), Entry(2, "start", {1})>>
    /\ fate = [r \in Runs |-> IF r <= 2 THEN "crashed" ELSE IF r = 3 THEN "running" ELSE "unborn"]
    /\ start = [r \in Runs |-> IF r # 3 THEN Started
                               ELSE [at |-> "measure", live |-> {2}, crash |-> 1, events |-> <<>>]]
    /\ carries = [r \in Runs |-> IF r = 3 THEN {1} ELSE {}]
    /\ reused = {} /\ crashEvents = <<>>
    /\ lent = FALSE /\ found = {} /\ passed = {} /\ crossed = {} /\ cut = {}

Spec == ThirdRunStarting /\ [][JournalNext]_journalVars
=============================================================================
