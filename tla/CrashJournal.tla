---------------------------- MODULE CrashJournal ----------------------------
(***************************************************************************)
(* The crash journal (internal/platform/crashjournal, cli/crashjournal.go):*)
(* every collecting run appends its start, its phases, the delivery of a   *)
(* crash report and its exit to one file; a run that starts reads from the *)
(* file which earlier runs died without an exit.  No lock is taken: runs   *)
(* of the daemon and of `run --once` overlap, and so do the reads and      *)
(* writes of two starts.  Processes die, the machine goes down, and a run  *)
(* that finds the journal too large moves it aside.                        *)
(***************************************************************************)
EXTENDS Naturals, Sequences, FiniteSets, FiniteSetsExt, TLC

CONSTANTS RunCount,       \* runs that may be started, 1..RunCount in order
          MaxJournal,     \* entries at which a journal is moved aside
          MaxLive,        \* runs at a time: the daemon and verbs beside it
          Reusable,       \* runs whose pid another program may get
          MaxBoot         \* boots of the machine

(* The machine has booted, and an empty journal is not large. *)
ASSUME JournalAssumption == RunCount \in Nat /\ MaxJournal \in Nat \ {0} /\ MaxBoot \in Nat \ {0}

VARIABLES journal,        \* the entries of the current generation
          boot,           \* the current boot
          bootKnown,      \* whether this platform can tell boots apart
          fate,           \* what really happened to each run
          start,          \* how far each run's start is, and what it has read
          carries,        \* the dead runs each live run has to report
          reused,         \* dead runs whose pid another process has now
          crashEvents     \* crash events of the failure record: the dead run, and who recorded it

VARIABLES lent,           \* history: whether a pid was ever reused
          found,          \* history: dead runs that some start found
          passed,         \* history: runs that began before one that delivered a report, and that one
          crossed,        \* history: runs whose start overlapped another's
          cut             \* history: runs with entries that were moved aside

pastVars == <<lent, found, passed, crossed, cut>>
journalVars == <<journal, boot, bootKnown, fate, start, carries, reused, crashEvents, pastVars>>

Runs == 1..RunCount
NoBoot == 0

Entries(j, r) == {n \in DOMAIN j : j[n].run = r}
Recorded(j) == {j[n].run : n \in DOMAIN j}
Wrote(j, r, ev) == \E n \in Entries(j, r) : j[n].ev = ev
First(j, r) == Min(Entries(j, r))
StartOf(j, r) == {n \in Entries(j, r) : j[n].ev = "start"}
BootOf(j, r) == j[Max(Entries(j, r))].boot
LiveOf(j, r) == UNION {j[n].live : n \in StartOf(j, r)}

Started == [at |-> "none", live |-> {}, crash |-> 0, events |-> <<>>]
Starting(r) == start[r].at # "none"

JournalTypeOK ==
    /\ \A n \in DOMAIN journal : journal[n].run \in Runs /\ journal[n].boot \in 0..MaxBoot
    /\ fate \in [Runs -> {"unborn", "running", "exited", "crashed", "stopped"}]
    /\ \A r \in Runs : start[r].at \in {"none", "measure", "move", "mark", "record", "write"}
    /\ \A r \in Runs : carries[r] \subseteq Runs /\ start[r].live \subseteq Runs
    /\ found \subseteq Runs /\ cut \subseteq Runs

JournalInit ==
    /\ journal = <<>> /\ boot = 1 /\ bootKnown \in BOOLEAN
    /\ fate = [r \in Runs |-> "unborn"] /\ start = [r \in Runs |-> Started]
    /\ carries = [r \in Runs |-> {}] /\ reused = {} /\ crashEvents = <<>>
    /\ lent = FALSE /\ found = {} /\ passed = {} /\ crossed = {} /\ cut = {}

-----------------------------------------------------------------------------
(* LastRun *)

BootId == IF bootKnown THEN boot ELSE NoBoot

(* Mutant: a clean run ends the walk. *)
WalkedToClean(j) ==
    {r \in Recorded(j) : \A q \in Recorded(j) :
        Wrote(j, q, "reported") \/ Wrote(j, q, "exit") => First(j, q) < First(j, r)}

(* The walk goes back from the newest run and stops at one that delivered a report. *)
Walked(j) ==
    {r \in Recorded(j) : \A q \in Recorded(j) :
        Wrote(j, q, "reported") => First(j, q) < First(j, r)}

(* alive(PID): a run whose start is not in the file has no pid. *)
Probe(j, r) == StartOf(j, r) # {} /\ (fate[r] = "running" \/ r \in reused)

EarlierBoot(j, r) == BootId # NoBoot /\ BootOf(j, r) \notin {NoBoot, BootId}

LaterStarts(j, r) ==
    {q \in Walked(j) : First(j, q) > First(j, r) /\ StartOf(j, q) # {} /\ BootOf(j, q) # NoBoot}

(* Mutant: every run an earlier boot left without an exit is a crash. *)
WithMachineNever(j, r) == FALSE

(* Dead on an earlier boot, and every later start there found it alive. *)
WentDownWithMachine(j, r) ==
    /\ EarlierBoot(j, r)
    /\ Cardinality({q \in LaterStarts(j, r) : BootOf(j, q) = BootOf(j, r)})
         = Cardinality({q \in LaterStarts(j, r) : r \in LiveOf(j, q)})

FoundAlive(j) ==
    {r \in Walked(j) : ~Wrote(j, r, "exit") /\ ~EarlierBoot(j, r) /\ Probe(j, r)}

FoundDead(j) ==
    {r \in Walked(j) \ FoundAlive(j) : ~Wrote(j, r, "exit") /\ ~WentDownWithMachine(j, r)}

Newest(j, runs) == CHOOSE r \in runs : \A q \in runs : First(j, q) <= First(j, r)

-----------------------------------------------------------------------------
(* startCrashJournal *)

Running == {r \in Runs : fate[r] = "running"}
Collecting(r) == fate[r] = "running" /\ ~Starting(r)

(* LastRun: the run remembers which runs are dead, the newest of them, and which are alive. *)
ReadJournal(r) ==
    LET dead == FoundDead(journal)
        others == {q \in Runs : Starting(q)}
    IN  /\ fate[r] = "unborn" /\ \A q \in Runs : q < r => fate[q] # "unborn"
        /\ Cardinality(Running) < MaxLive
        /\ fate' = [fate EXCEPT ![r] = "running"]
        /\ carries' = [carries EXCEPT ![r] = dead]
        /\ start' = [start EXCEPT ![r] =
               [at |-> "measure", live |-> FoundAlive(journal),
                crash |-> IF dead = {} THEN 0 ELSE Newest(journal, dead), events |-> <<>>]]
        /\ crossed' = IF others = {} THEN crossed ELSE crossed \cup others \cup {r}
        /\ UNCHANGED <<journal, boot, bootKnown, reused, crashEvents, lent, found, passed, cut>>

(* Open: the size is read, and a large file renamed. *)
MeasureJournal(r) ==
    /\ start[r].at = "measure"
    /\ start' = [start EXCEPT ![r].at = IF Len(journal) >= MaxJournal THEN "move" ELSE "mark"]
    /\ UNCHANGED <<journal, boot, bootKnown, fate, carries, reused, crashEvents, pastVars>>

MoveAside(r) ==
    /\ start[r].at = "move"
    /\ start' = [start EXCEPT ![r].at = "mark"]
    /\ journal' = <<>> /\ cut' = cut \cup Recorded(journal)
    /\ UNCHANGED <<boot, bootKnown, fate, carries, reused, crashEvents, lent, found, passed, crossed>>

Entry(r, ev, live) == [run |-> r, ev |-> ev, boot |-> BootId, live |-> live]

(* Start, with the runs that were alive when the journal was read. *)
AppendStart(r) ==
    /\ start[r].at = "mark"
    /\ start' = [start EXCEPT ![r] = IF carries[r] = {} THEN Started ELSE [@ EXCEPT !.at = "record"]]
    /\ journal' = Append(journal, Entry(r, "start", start[r].live))
    /\ found' = found \cup carries[r]
    /\ UNCHANGED <<boot, bootKnown, fate, carries, reused, crashEvents, lent, passed, crossed, cut>>

(* Mutant: every restart records the crash again. *)
RecordCrashAgain(r) ==
    /\ start[r].at = "record"
    /\ start' = [start EXCEPT ![r].at = "write", ![r].events = crashEvents]
    /\ UNCHANGED <<journal, boot, bootKnown, fate, carries, reused, crashEvents, pastVars>>

(* RecordCrash reads the failure record: one event per dead run, not per restart. *)
RecordCrash(r) ==
    /\ start[r].at = "record"
    /\ start' = [start EXCEPT ![r] =
           IF crashEvents # <<>> /\ crashEvents[Len(crashEvents)].run = start[r].crash THEN Started
           ELSE [@ EXCEPT !.at = "write", !.events = crashEvents]]
    /\ UNCHANGED <<journal, boot, bootKnown, fate, carries, reused, crashEvents, pastVars>>

(* It writes what it has read, with the new event, over whatever is there. *)
WriteCrash(r) ==
    /\ start[r].at = "write"
    /\ crashEvents' = Append(start[r].events, [run |-> start[r].crash, by |-> r])
    /\ start' = [start EXCEPT ![r] = Started]
    /\ UNCHANGED <<journal, boot, bootKnown, fate, carries, reused, pastVars>>

-----------------------------------------------------------------------------
(* Log *)

(* Phase: a repeat of the last one is dropped, so a run's phases are one entry here. *)
Phase(r) ==
    /\ Collecting(r) /\ ~Wrote(journal, r, "phase")
    /\ journal' = Append(journal, Entry(r, "phase", {}))
    /\ UNCHANGED <<boot, bootKnown, fate, start, carries, reused, crashEvents, pastVars>>

(* Reported: a heartbeat carrying the report reached the sink, once per process. *)
Reported(r) ==
    /\ Collecting(r) /\ carries[r] # {}
    /\ journal' = Append(journal, Entry(r, "reported", {}))
    /\ carries' = [carries EXCEPT ![r] = {}]
    /\ passed' = passed \cup {r} \cup {q \in Recorded(journal) : r \in Recorded(journal) =>
                                                             First(journal, q) <= First(journal, r)}
    /\ UNCHANGED <<boot, bootKnown, fate, start, reused, crashEvents, lent, found, crossed, cut>>

Exit(r) ==
    /\ Collecting(r)
    /\ journal' = Append(journal, Entry(r, "exit", {}))
    /\ fate' = [fate EXCEPT ![r] = "exited"]
    /\ UNCHANGED <<boot, bootKnown, start, carries, reused, crashEvents, pastVars>>

-----------------------------------------------------------------------------
(* A process is killed or panics, also in its start: the missing exit is the crash record. *)
Die(r) ==
    /\ fate[r] = "running"
    /\ fate' = [fate EXCEPT ![r] = "crashed"]
    /\ start' = [start EXCEPT ![r] = Started]
    /\ UNCHANGED <<journal, boot, bootKnown, carries, reused, crashEvents, pastVars>>

MachineGoesDown ==
    /\ boot < MaxBoot /\ boot' = boot + 1
    /\ fate' = [r \in Runs |-> IF fate[r] = "running" THEN "stopped" ELSE fate[r]]
    /\ start' = [r \in Runs |-> Started]
    /\ reused' = {}
    /\ UNCHANGED <<journal, bootKnown, carries, crashEvents, pastVars>>

(* Another program gets the pid of a dead run. *)
PidIsReused(r) ==
    /\ fate[r] \in {"crashed", "stopped"} /\ r \in Reusable \ reused
    /\ reused' = reused \cup {r} /\ lent' = TRUE
    /\ UNCHANGED <<journal, boot, bootKnown, fate, start, carries, crashEvents, found, passed,
                   crossed, cut>>

JournalNext ==
    \/ \E r \in Runs :
         \/ ReadJournal(r) \/ MeasureJournal(r) \/ MoveAside(r) \/ AppendStart(r)
         \/ RecordCrash(r) \/ WriteCrash(r)
         \/ Phase(r) \/ Reported(r) \/ Exit(r) \/ Die(r) \/ PidIsReused(r)
    \/ MachineGoesDown

-----------------------------------------------------------------------------
(* No death is invented: where boots can be told apart, a run reported as crashed really died by
   itself; it did not exit, is not running beside this one and did not stop with the machine.
   Excepted are a run whose entries were moved aside while it was going, and one whose start
   overlapped another's: neither reads the other's start, and neither lists the other as alive. *)
NoInventedCrash ==
    bootKnown => \A r \in FoundDead(journal) \ (cut \cup crossed) : fate[r] = "crashed"

(* "or a run that stopped with the machine" (LastRun): the same for starts that overlap.  The code
   does not keep it. *)
NoCrashIsInvented ==
    bootKnown => \A r \in FoundDead(journal) \ cut : fate[r] = "crashed"

(* A crash survives restarts that could not deliver the report: once a start has found a run dead,
   every later one does, across exits, other crashes and reboots, until a run that began after it
   delivers a report, the journal is moved aside or another program has its pid. *)
CrashIsKept == found \ (reused \cup cut \cup passed) \subseteq FoundDead(journal)

(* "A crash must survive restarts that could not deliver the report" (LastRun): the report is the
   one that carries it, not any report of a later run.  The code does not keep it. *)
NoCrashIsLost ==
    [][\A q \in (found \cap FoundDead(journal)) \ FoundDead(journal)' :
          \/ q \in reused' \cup cut'
          \/ \E r \in Runs : q \in carries[r] /\ q \notin carries'[r]]_journalVars

(* "LastRun reports the undelivered crash before this process": the newest run's, if it crashed on
   this boot.  The code does not look at a run that delivered a report itself. *)
LastDeathIsFound ==
    \A r \in Recorded(journal) \ (reused \cup cut) :
       /\ fate[r] = "crashed" /\ ~EarlierBoot(journal, r)
       /\ \A q \in Recorded(journal) : First(journal, q) <= First(journal, r)
       => r \in FoundDead(journal)

Repeats(m, n) == m < n /\ crashEvents[m].run = crashEvents[n].run

(* "One event per dead run, not per restart" (judge.go, RecordCrash). *)
OneEventPerDeadRun ==
    ~lent => \A m, n \in DOMAIN crashEvents : ~Repeats(m, n)

(* A crash that is found on every restart is one event of the failure record: it does not push the
   other failures out of the bounded list.  An event may come between two of the same run only if
   it is of a run whose entries were moved aside, which looks dead until its exit is written, or if
   a start that overlapped another recorded it, from what it had read before. *)
OneEventPerCrash ==
    ~lent => \A m, n \in DOMAIN crashEvents : Repeats(m, n) =>
       \E k \in m..n : crashEvents[k].run \in cut \/ crashEvents[k].by \in crossed
=============================================================================
