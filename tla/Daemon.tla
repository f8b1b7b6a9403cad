------------------------------- MODULE Daemon -------------------------------
(***************************************************************************)
(* The shipper's daemon (cli/run.go, app/app.go, app/judge.go,             *)
(* app/telemetry.go): the tick loop with its stall watchdog, the judgement *)
(* of every tick, the failure record on disk and in memory, the heartbeat  *)
(* all of them overwrite, the final slice on a signal and the wait after a *)
(* revocation.  The flush is a step with an outcome, and its heartbeat;    *)
(* what else it does is FlushEngine's subject.  Verbs of other processes   *)
(* append events to the same record without a lock.                        *)
(***************************************************************************)
EXTENDS Naturals, Sequences, FiniteSets, TLC

CONSTANTS MaxRecent,      \* events the record keeps
          MaxStreak,      \* a run fails while every count of failures is below this
          FaultSets       \* what may go wrong together in one behaviour

(* The record keeps at least one event. *)
ASSUME DaemonAssumption == MaxRecent \in Nat \ {0} /\ MaxStreak \in Nat

VARIABLES pc,             \* the loop
          out,            \* the outcome of the flush being judged
          last,           \* the flush is the final slice
          watchdog,       \* the stall watchdog's goroutine
          hbMu,           \* holder of the heartbeat mutex
          remote,         \* the heartbeat object in the archive
          beaten,         \* the engine's own heartbeat of this tick reached the archive
          overtaken,      \* history: a stall heartbeat was begun after that
          stray           \* an upload the client gave up on: none, pending or landed

VARIABLES disk,           \* last-failure.json
          mem,            \* Runtime.rec
          pending,        \* snapshots a goroutine is about to write
          writable,       \* whether the state directory takes writes
          verb,           \* a verb of another process that appends an event
          truth,          \* history: runs judged failed since the last good one
          lost            \* history: how the record lost count of them, since then

VARIABLES faults,         \* what may go wrong in this behaviour, besides failing runs and uploads
          signalled,      \* SIGINT or SIGTERM was received
          marker,         \* this install's revocation is recorded
          crash,          \* the previous run's death, carried by heartbeats
          reported        \* its delivery is acknowledged in the journal

loopVars == <<pc, out, last, signalled>>
beatVars == <<hbMu, remote, beaten, overtaken, stray, reported, marker>>
countVars == <<truth, lost>>
recordVars == <<disk, mem, pending, countVars>>
envVars == <<writable, verb, crash, faults>>
daemonVars == <<loopVars, watchdog, beatVars, recordVars, envVars>>

(* Events, by what the record does with them: counted ones (a failed tick, start or final slice, a
   panicked tick), the two standing ones, and the rest (store discarded, crash, update, verb). *)
Kinds == {"counted", "offline", "stalled", "noted", "verb"}
Standing == {"offline", "stalled"}
NoRec == [streak |-> 0, recent |-> <<>>]
Absent == [absent |-> TRUE]

DaemonTypeOK ==
    /\ pc \in {"down", "init", "flush", "beat", "beating", "returning", "join", "judge", "write",
               "report", "reporting", "telemetry", "idle", "final", "waiting"}
    /\ watchdog \in {"off", "armed", "write", "send", "sending"}
    /\ hbMu \in {"free", "engine", "watchdog", "judge"}
    /\ disk.streak \in Nat /\ Len(disk.recent) <= MaxRecent
    /\ \A n \in DOMAIN disk.recent : disk.recent[n] \in Kinds
    /\ mem # Absent => mem.streak \in Nat /\ Len(mem.recent) <= MaxRecent
    /\ truth \in Nat /\ lost \subseteq {"verb", "exit", "disk"} /\ last \in BOOLEAN

DaemonInit ==
    /\ pc = "down" /\ out = "none" /\ last = FALSE /\ watchdog = "off" /\ hbMu = "free"
    /\ remote = "none" /\ beaten = FALSE /\ overtaken = FALSE /\ stray = "none"
    /\ disk = NoRec /\ mem = Absent /\ pending = [g \in {"loop", "watchdog"} |-> NoRec]
    /\ writable = TRUE /\ verb = Absent /\ truth = 0 /\ lost = {}
    /\ signalled = FALSE /\ marker = FALSE /\ faults \in FaultSets
    /\ crash \in {FALSE, "death" \in faults} /\ reported = FALSE

-----------------------------------------------------------------------------
(* formats.FailureRecord *)

(* Mutant: the list is never cut. *)
LastNAll(seq) == seq

LastN(seq) ==
    IF Len(seq) > MaxRecent THEN SubSeq(seq, Len(seq) - MaxRecent + 1, Len(seq)) ELSE seq

Appended(rec, kind) == [rec EXCEPT !.recent = LastN(Append(@, kind))]

Counted(rec, kind) ==
    [Appended(rec, kind) EXCEPT !.streak = @ + (IF kind = "counted" THEN 1 ELSE 0)]

(* Mutant: a standing event is appended every time. *)
StandAppends(rec, kind) == Appended(rec, kind)

(* Stand: replaces the event of its kind among the standing ones at the end, so only its time
   changes; otherwise it is appended. *)
Stand(rec, kind) ==
    LET tail == {n \in DOMAIN rec.recent : \A m \in n..Len(rec.recent) : rec.recent[m] \in Standing}
    IN  IF \E n \in tail : rec.recent[n] = kind THEN rec ELSE Appended(rec, kind)

-----------------------------------------------------------------------------
(* The record in memory and on disk *)

(* loadRecordLocked: the copy in memory wins; reading the file keeps it in memory. *)
Loaded == IF mem = Absent THEN disk ELSE mem

(* Mutant: the copy is dropped whether or not the write succeeded. *)
WriteRecordOrDrop(g) ==
    /\ pending' = [pending EXCEPT ![g] = NoRec]
    /\ disk' = IF writable THEN pending[g] ELSE disk
    /\ mem' = Absent

(* The second half of persistRecord: the copy is dropped only after a successful write. *)
WriteRecord(g) ==
    /\ pending' = [pending EXCEPT ![g] = NoRec]
    /\ IF writable THEN disk' = pending[g] /\ mem' = Absent ELSE UNCHANGED <<disk, mem>>

(* The first half, under recMu. *)
Mutate(g, rec) == mem' = rec /\ pending' = [pending EXCEPT ![g] = rec]

(* What the process would carry out now. *)
Carried == Loaded

(* The process, or the runtime of a revoked install, ends: what only memory held is gone. *)
Forget ==
    /\ mem' = Absent
    /\ lost' = IF Loaded.streak = disk.streak THEN lost ELSE lost \cup {"exit"}

-----------------------------------------------------------------------------
(* writeHeartbeat *)

(* Mutant: heartbeats are not serialized. *)
LockAlways(who) == hbMu' = who

Lock(who) == hbMu = "free" /\ hbMu' = who

(* A revoked install writes none; otherwise the mutex is taken and the record read. *)
BeginBeat(who) ==
    /\ ~marker /\ Lock(who)
    /\ mem' = Loaded
    /\ overtaken' = (overtaken \/ (beaten /\ who = "watchdog"))
    /\ UNCHANGED <<remote, beaten, stray, reported, marker>>

(* Mutant: a refused upload returns without giving the mutex back. *)
BeatEndsLocked(what) ==
    /\ UNCHANGED overtaken
    /\ \/ /\ hbMu' = "free" /\ remote' = what /\ beaten' = (beaten \/ what = "flush")
          /\ reported' = (reported \/ crash)
          /\ UNCHANGED <<stray, marker>>
       \/ UNCHANGED <<hbMu, remote, beaten, stray, reported, marker>>

(* The upload ends: it landed, it failed, it was given up with the object on its way, or the
   control plane answered that this install is revoked. *)
BeatEnds(what) ==
    /\ hbMu' = "free" /\ UNCHANGED overtaken
    /\ \/ /\ remote' = what /\ beaten' = (beaten \/ what = "flush")
          /\ reported' = (reported \/ crash)
          /\ UNCHANGED <<stray, marker>>
       \/ UNCHANGED <<remote, beaten, stray, reported, marker>>
       \/ /\ "stray" \in faults /\ stray = "none" /\ stray' = "pending"
          /\ UNCHANGED <<remote, beaten, reported, marker>>
       \/ "revocation" \in faults /\ marker' = TRUE /\ UNCHANGED <<remote, beaten, stray, reported>>

StrayLands ==
    /\ stray = "pending" /\ stray' = "landed" /\ remote' = "stray"
    /\ UNCHANGED <<loopVars, watchdog, hbMu, beaten, overtaken, reported, marker, recordVars, envVars>>

-----------------------------------------------------------------------------
(* Start-up.  A pending crash is appended to the record before the runtime exists. *)

StartDaemon ==
    /\ pc = "down" /\ ~signalled
    /\ pc' = "init"
    /\ reported' = FALSE
    /\ disk' = IF crash /\ writable /\ "noted" \notin {disk.recent[n] : n \in DOMAIN disk.recent}
               THEN Appended(disk, "noted") ELSE disk
    /\ UNCHANGED <<out, last, signalled, watchdog, hbMu, remote, beaten, overtaken, stray, marker,
                   mem, pending, countVars, envVars>>

(* The bound of the model. *)
MayFail ==
    /\ truth < MaxStreak /\ Carried.streak < MaxStreak /\ disk.streak < MaxStreak
    /\ verb # Absent => verb.streak < MaxStreak

(* app.New fails: recorded without a runtime, and the process exits; a revoked install waits. *)
InitFails ==
    /\ pc = "init" /\ ~marker /\ MayFail
    /\ pc' = "down" /\ signalled' = FALSE
    /\ disk' = IF writable THEN Counted(disk, "counted") ELSE disk
    /\ truth' = truth + 1 /\ lost' = IF writable THEN lost ELSE lost \cup {"disk"}
    /\ UNCHANGED <<out, last, watchdog, beatVars, mem, pending, envVars>>

InitRevoked ==
    /\ pc = "init" /\ marker /\ pc' = "waiting"
    /\ UNCHANGED <<out, last, signalled, watchdog, beatVars, recordVars, envVars>>

(* An older heartbeat is now of an older flush. *)
BeginFlush ==
    /\ pc' = "flush" /\ out' = "none"
    /\ beaten' = FALSE /\ overtaken' = FALSE
    /\ remote' = IF remote = "none" THEN "none" ELSE "old"
    /\ stray' = IF stray = "landed" THEN "none" ELSE stray
    /\ UNCHANGED <<signalled, hbMu, reported, marker, recordVars, envVars>>

(* A tick begins with a fresh watchdog. *)
BeginTick ==
    /\ (pc = "init" /\ ~marker) \/ (pc = "idle" /\ ~signalled)
    /\ watchdog' = "armed" /\ UNCHANGED last
    /\ BeginFlush

(* flushBeforeExit: a flush without a watchdog, after an interrupted one or between ticks. *)
FinalSlice ==
    /\ pc = "final" \/ (pc = "idle" /\ signalled)
    /\ last' = TRUE /\ UNCHANGED watchdog
    /\ BeginFlush

-----------------------------------------------------------------------------
(* The flush *)

(* "Too" marks the outcomes beside which uploads failed; a revoked final slice is a failed one. *)
Failing == {"error", "errorToo", "panic", "nothing", "offlineToo", "revoked"}
Counts(o) == o \in Failing

(* The engine returns early: another flush holds the lock, collection is paused, the machine is
   offline, or an error or a panic ended it; no one recovers a panic of the final slice, which is a
   death.  Unless it panicked, a revocation met on the way is what it returns. *)
FlushEnds ==
    /\ pc = "flush"
    /\ \E o \in {"locked", "paused", "offline", "offlineToo", "error", "errorToo", "panic"} :
         /\ Counts(o) => MayFail
         /\ o = "panic" => ~last
         /\ out' = IF marker /\ o # "panic" THEN "revoked" ELSE o
    /\ pc' = "returning"
    /\ UNCHANGED <<last, signalled, watchdog, beatVars, recordVars, envVars>>

(* It came to its end: something shipped or nothing was to ship, or every upload failed. *)
FlushCompletes ==
    /\ pc = "flush" /\ pc' = "beat"
    /\ \E o \in {"ok", "nothing"} : (Counts(o) => MayFail) /\ out' = o
    /\ UNCHANGED <<last, signalled, watchdog, beatVars, recordVars, envVars>>

EngineBeats ==
    \/ /\ pc = "beat" /\ BeginBeat("engine") /\ pc' = "beating"
       /\ UNCHANGED <<out, last, signalled, watchdog, disk, pending, countVars, envVars>>
    \/ /\ pc = "beat" /\ marker /\ pc' = "returning" /\ out' = "revoked"
       /\ UNCHANGED <<last, signalled, watchdog, beatVars, recordVars, envVars>>
    \/ /\ pc = "beating" /\ BeatEnds("flush") /\ pc' = "returning"
       /\ out' = IF marker' THEN "revoked" ELSE out
       /\ UNCHANGED <<last, signalled, watchdog, recordVars, envVars>>

-----------------------------------------------------------------------------
(* WatchStalledTick: its context is cancelled once the flush has returned. *)

Cancelled == pc = "join"

WatchdogFires ==
    /\ watchdog = "armed" /\ ~Cancelled
    /\ Mutate("watchdog", Stand(Loaded, "stalled"))
    /\ watchdog' = "write"
    /\ UNCHANGED <<loopVars, beatVars, disk, countVars, envVars>>

WatchdogWrites ==
    /\ watchdog = "write" /\ WriteRecord("watchdog")
    /\ watchdog' = "send"
    /\ UNCHANGED <<loopVars, beatVars, countVars, envVars>>

(* It sends the last completed report, and waits for twice as long; once cancelled, an upload not
   yet begun fails at once. *)
WatchdogSends ==
    \/ /\ watchdog = "send" /\ ~Cancelled /\ BeginBeat("watchdog") /\ watchdog' = "sending"
       /\ UNCHANGED <<loopVars, disk, pending, countVars, envVars>>
    \/ /\ watchdog = "send" /\ Cancelled /\ hbMu = "free" /\ mem' = Loaded /\ watchdog' = "armed"
       /\ UNCHANGED <<loopVars, beatVars, disk, pending, countVars, envVars>>
    \/ /\ watchdog = "send" /\ marker /\ watchdog' = "armed"
       /\ UNCHANGED <<loopVars, beatVars, recordVars, envVars>>
    \/ /\ watchdog = "sending" /\ BeatEnds("stall") /\ watchdog' = "armed"
       /\ UNCHANGED <<loopVars, recordVars, envVars>>

WatchdogStops ==
    /\ watchdog = "armed" /\ Cancelled /\ watchdog' = "off"
    /\ UNCHANGED <<loopVars, beatVars, recordVars, envVars>>

-----------------------------------------------------------------------------
(* The flush returned: the watchdog is cancelled, then joined. *)
StopWatch ==
    /\ pc = "returning" /\ pc' = "join"
    /\ UNCHANGED <<out, last, signalled, watchdog, beatVars, recordVars, envVars>>

(* After the flush: joined, a revocation first, a signal next, the judgement last; the final slice
   is judged whatever it met. *)
Join ==
    /\ pc = "join" /\ watchdog = "off"
    /\ IF out = "revoked" /\ ~last
       THEN pc' = "waiting" /\ Forget
       ELSE pc' = (IF signalled /\ ~last THEN "final" ELSE "judge") /\ UNCHANGED <<mem, lost>>
    /\ UNCHANGED <<out, last, signalled, watchdog, beatVars, disk, pending, truth, envVars>>

(* judge: what the outcome does to the record. *)
Judged(rec, o) ==
    CASE o \in {"ok", "paused"} -> [rec EXCEPT !.streak = 0]
      [] o = "offline" -> Stand(rec, "offline")
      [] OTHER -> Counted(rec, "counted")

(* Lock contention records nothing; the facts of every other run, and the discard of a corrupt
   store, are recorded with its outcome. *)
Judge ==
    /\ pc = "judge"
    /\ IF out = "locked"
       THEN pc' = "telemetry" /\ UNCHANGED <<mem, pending, countVars>>
       ELSE /\ \E corrupt \in {FALSE, "noted" \notin {Loaded.recent[n] : n \in DOMAIN Loaded.recent}} :
                 Mutate("loop", Judged(IF corrupt THEN Appended(Loaded, "noted") ELSE Loaded, out))
            /\ truth' = CASE out \in {"ok", "paused"} -> 0 [] Counts(out) -> truth + 1
                          [] OTHER -> truth
            /\ lost' = IF out \in {"ok", "paused"} THEN {} ELSE lost
            /\ pc' = "write"
    /\ UNCHANGED <<out, last, signalled, watchdog, beatVars, disk, envVars>>

(* A failure beside which no upload failed ships a failure heartbeat, but not on the way out. *)
JudgeWrites ==
    /\ pc = "write" /\ WriteRecord("loop")
    /\ pc' = IF out \in {"error", "panic"} /\ ~last THEN "report" ELSE "telemetry"
    /\ UNCHANGED <<out, last, signalled, watchdog, beatVars, countVars, envVars>>

FailureBeats ==
    \/ /\ pc = "report" /\ BeginBeat("judge") /\ pc' = "reporting"
       /\ UNCHANGED <<out, last, signalled, watchdog, disk, pending, countVars, envVars>>
    \/ /\ pc = "report" /\ marker /\ pc' = "telemetry"
       /\ UNCHANGED <<out, last, signalled, watchdog, beatVars, recordVars, envVars>>
    \/ /\ pc = "reporting" /\ BeatEnds("failure") /\ pc' = "telemetry"
       /\ UNCHANGED <<out, last, signalled, watchdog, recordVars, envVars>>

(* SubmitTelemetry reads the record too, where the organization has a collector that is on; after
   the final slice the process exits. *)
SubmitTelemetry ==
    /\ pc = "telemetry"
    /\ IF last
       THEN pc' = "down" /\ signalled' = FALSE /\ Forget
       ELSE /\ pc' = "idle" /\ UNCHANGED <<signalled, lost>>
            /\ \E collector \in BOOLEAN : mem' = IF collector /\ ~marker THEN Loaded ELSE mem
    /\ last' = FALSE /\ out' = "none" /\ beaten' = FALSE /\ overtaken' = FALSE
    /\ UNCHANGED <<watchdog, hbMu, remote, stray, reported, marker, disk, pending, truth, envVars>>

(* Recycling after hours of uptime: exit is journaled and a new process takes over. *)
Recycle ==
    /\ pc = "idle" /\ ~signalled /\ pc' = "down"
    /\ crash' = (crash /\ ~reported) /\ Forget
    /\ UNCHANGED <<out, last, signalled, watchdog, beatVars, disk, pending, truth, writable, verb,
                   faults>>

(* Mutant: the wait looks at the enrollment alone. *)
WaitedDeaf ==
    /\ pc = "waiting" /\ ~marker /\ pc' = "init" /\ out' = "none"
    /\ UNCHANGED <<last, signalled, watchdog, beatVars, recordVars, envVars>>

(* waitForReenrollment, ended by a login elsewhere or a signal; the runtime is built anew. *)
Waited ==
    /\ pc = "waiting" /\ (~marker \/ signalled)
    /\ pc' = IF signalled THEN "down" ELSE "init"
    /\ signalled' = FALSE /\ out' = "none"
    /\ UNCHANGED <<last, watchdog, beatVars, recordVars, envVars>>

-----------------------------------------------------------------------------
(* The environment *)

(* SIGINT or SIGTERM; where a revocation may fail the final slice, within the bound. *)
Signal ==
    /\ "signal" \in faults /\ pc # "down" /\ ~signalled /\ signalled' = TRUE
    /\ "revocation" \in faults => MayFail
    /\ UNCHANGED <<pc, out, last, watchdog, beatVars, recordVars, envVars>>

Relogin ==
    /\ marker /\ pc = "waiting" /\ marker' = FALSE
    /\ UNCHANGED <<loopVars, watchdog, hbMu, remote, beaten, overtaken, stray, reported, recordVars,
                   envVars>>

DiskFills ==
    /\ "disk" \in faults /\ writable' = ~writable
    /\ UNCHANGED <<loopVars, watchdog, beatVars, recordVars, verb, crash, faults>>

(* The process dies: an upload may still land, and the missing exit is a crash for the next start. *)
Dies ==
    /\ "death" \in faults /\ pc # "down" /\ pc' = "down" /\ signalled' = FALSE
    /\ out' = "none" /\ last' = FALSE
    /\ watchdog' = "off" /\ hbMu' = "free" /\ pending' = [g \in DOMAIN pending |-> NoRec]
    /\ stray' = IF hbMu # "free" /\ stray = "none" /\ "stray" \in faults THEN "pending" ELSE stray
    /\ Forget /\ crash' = TRUE
    /\ UNCHANGED <<remote, beaten, overtaken, reported, marker, disk, truth, writable, verb, faults>>

(* appendWithoutRuntime in another process: read, then write. *)
VerbReads ==
    /\ "verb" \in faults /\ verb = Absent /\ "verb" \notin {disk.recent[n] : n \in DOMAIN disk.recent}
    /\ verb' = disk
    /\ UNCHANGED <<loopVars, watchdog, beatVars, recordVars, writable, crash, faults>>

(* It writes what it read, with its event, over what the daemon counted in between; a copy the
   daemon still has in memory is written back later. *)
VerbWrites ==
    /\ verb # Absent /\ verb' = Absent
    /\ disk' = IF writable THEN Appended(verb, "verb") ELSE disk
    /\ lost' = IF writable /\ mem = Absent /\ verb.streak # disk.streak THEN lost \cup {"verb"}
               ELSE lost
    /\ UNCHANGED <<loopVars, watchdog, beatVars, mem, pending, truth, writable, crash, faults>>

LoopStep ==
    \/ InitRevoked \/ BeginTick \/ FlushEnds \/ FlushCompletes \/ EngineBeats \/ StopWatch \/ Join \/ Judge
    \/ JudgeWrites \/ FailureBeats \/ SubmitTelemetry \/ FinalSlice \/ Waited

WatchdogStep == WatchdogWrites \/ WatchdogSends \/ WatchdogStops

DaemonNext ==
    \/ LoopStep \/ WatchdogStep \/ WatchdogFires \/ StartDaemon \/ InitFails \/ Recycle
    \/ StrayLands \/ Signal \/ Relogin \/ DiskFills \/ Dies \/ VerbReads \/ VerbWrites

(* Flushes, uploads and waits are bounded by deadlines and goroutines are scheduled; strong for the
   loop, because Go's mutex hands itself to a waiter that has waited long enough. *)
DaemonFairness == SF_daemonVars(LoopStep) /\ WF_daemonVars(WatchdogStep)

-----------------------------------------------------------------------------
(* The heartbeat mutex orders the uploads: once the flush's own heartbeat reached the archive, it
   is what the archive shows when the tick is judged.  A stall heartbeat in flight landed before;
   excepted are one that was begun only afterwards, and an upload the client had given up on. *)
HeartbeatIsNewest ==
    pc \in {"join", "judge", "write"} /\ beaten
        => remote = "flush" \/ stray = "landed" \/ overtaken

(* "A stall heartbeat still in flight must land BEFORE the engine's own, not over it": the same,
   also for a stall heartbeat that was waiting for the mutex. *)
StallLandsFirst ==
    pc \in {"join", "judge", "write"} /\ beaten => remote = "flush" \/ stray = "landed"

(* The failures in a row survive a full disk: what the next heartbeat carries, from memory or from
   the file, counts every run that was judged failed since the last good one.  Excepted is a count
   that only memory held when the process ended, a failed start on a full disk, and a record that a
   verb had read before the daemon counted and wrote back after it. *)
StreakIsKept == Carried.streak = truth \/ lost # {}

(* "the consecutive count answers 'how many COLLECTION runs failed in a row', and a one-shot verb
   crashing is not one of those" (RecordPanic): a verb does not change the count.  The code does
   not keep it. *)
VerbsLeaveTheCount == Carried.streak = truth \/ lost \ {"verb"} # {}

(* A standing condition is one event: a stall or an outage, however long and however often it is
   refreshed, never pushes the other failures out of the record. *)
StandingIsOneEvent ==
    \A m, n \in DOMAIN Carried.recent :
      m < n /\ Carried.recent[m] = Carried.recent[n] /\ Carried.recent[m] \in Standing
        => \E k \in m..n : Carried.recent[k] \notin Standing

(* A tick ends: neither the heartbeat mutex nor the join with the watchdog wedges the loop, which
   comes to rest again and again, also after its final slice. *)
TickEnds == []<>(pc \in {"idle", "down", "waiting"})

(* A signal ends the process, also in a stalled tick or in the wait for a new enrollment: none stays
   unanswered, and only the end of the process answers it. *)
SignalEnds == []<>~signalled /\ [][signalled /\ ~signalled' => pc' = "down"]_daemonVars

(* "Dropping it after a success means the next mutation re-reads the file, so events appended by
   other processes merge": where no write is ever refused, the record the daemon is about to write
   holds the event a verb had appended to the file before. *)
OthersMerge ==
    [][\A g \in {"loop", "watchdog"} :
         /\ "disk" \notin faults /\ pending'[g] # NoRec /\ pending[g] = NoRec
         /\ "verb" \in {disk.recent[n] : n \in DOMAIN disk.recent}
         => \/ "verb" \in {pending'[g].recent[n] : n \in DOMAIN pending'[g].recent}
            \/ Len(pending'[g].recent) = MaxRecent]_daemonVars
=============================================================================
