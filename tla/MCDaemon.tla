------------------------------ MODULE MCDaemon ------------------------------
(* The crash journal and the daemon's loop share no variable: the loop sees *)
(* of the journal only the death it has to report and the acknowledgement   *)
(* it writes.  A behaviour exercises one of them; focus says which.         *)
EXTENDS CrashJournal, Daemon

VARIABLE focus
vars == <<journalVars, daemonVars, focus>>

MCFaultSets == {{"verb"}, {"disk"}, {"stray", "death", "signal"}, {"signal", "revocation"}}

Init ==
    /\ JournalInit /\ DaemonInit
    /\ focus \in {"journal", "loop"}
    /\ focus = "journal" => faults = {"verb"}
    /\ focus = "loop" => bootKnown

Next ==
    /\ UNCHANGED focus
    /\ \/ focus = "journal" /\ JournalNext /\ UNCHANGED daemonVars
       \/ focus = "loop" /\ DaemonNext /\ UNCHANGED journalVars

Spec == Init /\ [][Next]_vars

FairSpec == Spec /\ DaemonFairness

(* The types of both, and the bounds of the record's list and of the journal's generations. *)
TypeOK == JournalTypeOK /\ DaemonTypeOK

(* Crashes are told right (crashjournal.go, LastRun): none is invented, none is lost before a
   later run delivers a report, and one crash is one event. *)
CrashesAreTold == TypeOK /\ NoInventedCrash /\ CrashIsKept /\ OneEventPerCrash

(* Reports are true (app.go, WriteHeartbeat; judge.go, persistRecord): the newest heartbeat stays,
   the failure record counts every failed run, but for the losses StreakIsKept names, and does not
   fill up with one condition. *)
ReportsAreTrue == HeartbeatIsNewest /\ StreakIsKept /\ StandingIsOneEvent

(* The loop (cli/run.go) never wedges: every tick ends, and so does a process that is signalled. *)
LoopEnds == TickEnds /\ SignalEnds
=============================================================================
